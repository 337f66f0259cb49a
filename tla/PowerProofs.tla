----------------------------- MODULE PowerProofs -----------------------------
(***************************************************************************)
(* Invariants of Power for every wiring, every length of the queue and any *)
(* number of plugs, keys and faults; and, from "The screen" on, those of   *)
(* Screen.                                                                 *)
(***************************************************************************)
EXTENDS Power, Screen, SequenceTheorems, TLAPS

(* Between the clearing of the flags and the end of the reading that       *)
(* follows, a quiet line says nothing; everywhere else it says that the    *)
(* supply is as known.  Before the first reading, missed says so.          *)
LineTellsSupply ==
    /\ pc \notin {"level", "charging", "usb"} /\ flags = {} /\ ~missed => known.usb = usb
    /\ pc \in {"setup", "config"} => missed

(* From the fresh check on, the cable is out, or excused says why not.     *)
CheckedSupply == Checked /\ usb => excused

(* Outside of an attempt to sleep, an idle device is on its way to one.    *)
OnTheWayToSleep ==
    ~busy /\ ~External(known) => sleep_timer \/ Queued("sleep") \/ lost

Attempt == {"fresh charging", "fresh usb", "wake", "go", "asleep"}

IdleMeansArmed == pc \notin Attempt => OnTheWayToSleep

(* A candidate is left to try. *)
Probing == pc = "setup" => bus < Candidates

Inv == TypeOK /\ Probing /\ LineTellsSupply /\ CheckedSupply /\ IdleMeansArmed

Posts == {"irq", "refresh", "sleep", "key"}

-----------------------------------------------------------------------------
(* What an event that is posted or taken does to the queue.                *)
LEMMA PostKeeps ==
    ASSUME NEW e \in Posts, PowerAssumption, Post(e),
           events \in Seq(Posts), Len(events) <= EventDepth
    PROVE  /\ events' \in Seq(Posts) /\ Len(events') <= EventDepth
           /\ Queued("sleep") => Queued("sleep")'
           /\ e = "sleep" => Queued("sleep")' \/ Len(events) = EventDepth
  BY DEF Post, Queued, PowerAssumption

(* What taking an event leaves in the queue.                               *)
LEMMA TakeKeeps ==
    ASSUME NEW e \in Posts, Take(e), events \in Seq(Posts), Len(events) <= EventDepth,
           EventDepth \in Nat
    PROVE  /\ events' \in Seq(Posts) /\ Len(events') <= EventDepth
           /\ e # "sleep" /\ Queued("sleep") => Queued("sleep")'
<1>1. events' = Tail(events) /\ events # << >> /\ Head(events) = e
  BY DEF Take
<1>2. events' \in Seq(Posts) /\ Len(events') = Len(events) - 1
  BY <1>1
<1>3. ASSUME e # "sleep", NEW i \in 1 .. Len(events), events[i] = "sleep"
      PROVE  Queued("sleep")'
  <2>1. i > 1
    BY <1>1, <1>3
  <2>2. i - 1 \in 1 .. Len(events') /\ events'[i - 1] = "sleep"
    BY <1>1, <1>2, <1>3, <2>1
  <2>. QED
    BY <2>2 DEF Queued
<1>. QED
  BY <1>2, <1>3 DEF Queued

-----------------------------------------------------------------------------
(* The types, in parts.                                                    *)
Flags ==
    {usb, charging, irq_on, l3b, int, timers, busy, sleep_timer, missed, excused, lost} \subseteq BOOLEAN

Registers ==
    /\ flags \subseteq {"insert", "remove"} /\ seen \subseteq {"insert", "remove"}
    /\ bus \in 0 .. Candidates /\ pc \in Steps

Queue == events \in Seq(Posts) /\ Len(events) <= EventDepth

Readings == known \in Reads /\ got \in Reads

Counters == plugs \in 0 .. MaxPlugs /\ keys \in 0 .. MaxKeys /\ faults \in 0 .. MaxFaults

(* The type invariant, in parts.                                           *)
LEMMA Parts == TypeOK <=> Flags /\ Registers /\ Queue /\ Readings /\ Counters
  BY DEF TypeOK, Flags, Registers, Queue, Posts, Readings, Counters

(* The types hold at start-up.                                             *)
LEMMA TypeInit == ASSUME PowerAssumption, Init PROVE TypeOK
<1>1. Flags
  BY DEF Init, Flags
<1>2. Registers
  BY DEF Init, Registers, Steps, PowerAssumption
<1>3. Queue
  BY DEF Init, Queue, PowerAssumption
<1>4. Readings
  BY DEF Init, Readings, Reads, Nothing
<1>5. Counters
  BY DEF Init, Counters, PowerAssumption
<1>. QED
  BY <1>1, <1>2, <1>3, <1>4, <1>5, Parts

(* The flags keep their types.                                             *)
LEMMA FlagsNext == ASSUME PowerAssumption, TypeOK, Next PROVE Flags'
<1>0. Flags /\ Readings
  BY Parts
<1>. USE DEF Flags, supply, pmic, app, history, Goto, Outside, Reading
<1>1. CASE Plug \/ Charged \/ Isr \/ Refresh \/ SleepTimer \/ Key \/ WakeUp
  BY <1>0, <1>1 DEF Plug, Charged, Isr, Refresh, SleepTimer, Key, WakeUp
<1>2. CASE Probe \/ Configure \/ ClearRead \/ ClearWrite \/ Level \/ Charging \/ Updated
  BY <1>0, <1>2 DEF Probe, Configure, ClearRead, ClearWrite, Level, Charging, Updated
<1>3. CASE Usb
  BY <1>0, <1>3 DEF Usb, Update, External
<1>4. CASE PowerIrq \/ BatteryRefresh \/ KeyTaken \/ StayAwake \/ TrySleep
  BY <1>0, <1>4 DEF PowerIrq, BatteryRefresh, KeyTaken, StayAwake, TrySleep, Take, RestartTimer
<1>5. CASE FreshCharging \/ FreshUsb
  BY <1>0, <1>5 DEF FreshCharging, FreshUsb
<1>6. CASE Prepare \/ SleepFails \/ Sleep
  BY <1>0, <1>6 DEF Prepare, SleepFails, Sleep, RestartTimer
<1>. QED
  BY <1>1, <1>2, <1>3, <1>4, <1>5, <1>6 DEF Next, Task

(* The registers of the PMIC keep their types.                             *)
LEMMA RegistersNext ==
    ASSUME PowerAssumption, TypeOK, Probing, Next
    PROVE  Registers' /\ Probing'
<1>0. Registers /\ Probing /\ Candidates \in Nat
  BY Parts DEF PowerAssumption
<1>. USE DEF Registers, Probing, Steps, supply, pmic, app, history, Goto, Outside, Reading
<1>1. CASE Plug
  BY <1>0, <1>1 DEF Plug
<1>2. CASE Probe
  <2>1. bus' = bus + 1 /\ bus' \in 0 .. Candidates /\ UNCHANGED <<flags, seen>>
    BY <1>0, <1>2 DEF Probe
  <2>2. pc' \in {"config", "clear"} \/ (pc' = "setup" /\ bus' # Candidates)
    BY <1>2 DEF Probe
  <2>3. Registers'
    BY <1>0, <2>1, <2>2
  <2>4. pc' = "setup" => bus' < Candidates
    <3>1. bus' \in 0 .. Candidates /\ Candidates \in Nat
      BY ONLY <1>0, <2>1
    <3>2. bus' # Candidates => bus' < Candidates
      BY ONLY <3>1
    <3>. QED
      BY <2>2, <3>2
  <2>. QED
    BY <2>3, <2>4
<1>6. CASE Charged \/ Isr \/ Refresh \/ SleepTimer \/ Key
  BY <1>0, <1>6 DEF Charged, Isr, Refresh, SleepTimer, Key
<1>7. CASE WakeUp
  BY <1>0, <1>7 DEF WakeUp
<1>3. CASE Configure \/ ClearRead \/ ClearWrite \/ Level \/ Charging \/ Usb \/ Updated
  BY <1>0, <1>3 DEF Configure, ClearRead, ClearWrite, Level, Charging, Usb, Updated
<1>4. CASE PowerIrq \/ BatteryRefresh \/ KeyTaken \/ StayAwake \/ TrySleep
  BY <1>0, <1>4 DEF PowerIrq, BatteryRefresh, KeyTaken, StayAwake, TrySleep, Take
<1>5. CASE FreshCharging \/ FreshUsb \/ Prepare \/ SleepFails \/ Sleep
  BY <1>0, <1>5 DEF FreshCharging, FreshUsb, Prepare, SleepFails, Sleep
<1>. QED
  BY <1>1, <1>2, <1>3, <1>4, <1>5, <1>6, <1>7 DEF Next, Task

(* The queue keeps its type and its length.                                *)
LEMMA QueueNext == ASSUME PowerAssumption, TypeOK, Next PROVE Queue'
<1>0. Queue /\ EventDepth \in Nat
  BY Parts DEF PowerAssumption
<1>. USE DEF Queue, supply, pmic, app, history, Outside, Reading
<1>1. CASE Isr \/ Refresh \/ SleepTimer \/ Key
  <2>1. PICK e \in Posts : Post(e)
    BY <1>1 DEF Isr, Refresh, SleepTimer, Key, Posts
  <2>. QED
    BY <1>0, <2>1, PostKeeps
<1>2. CASE PowerIrq \/ BatteryRefresh \/ KeyTaken \/ StayAwake \/ TrySleep
  <2>1. PICK e \in Posts : Take(e)
    BY <1>2 DEF PowerIrq, BatteryRefresh, KeyTaken, StayAwake, TrySleep, Posts
  <2>. QED
    BY <1>0, <2>1, TakeKeeps
<1>3. CASE WakeUp
  BY <1>0, <1>3 DEF WakeUp
<1>4. ASSUME Next, ~(Isr \/ Refresh \/ SleepTimer \/ Key \/ WakeUp \/ PowerIrq \/ BatteryRefresh
                     \/ KeyTaken \/ StayAwake \/ TrySleep)
      PROVE  UNCHANGED events
  BY <1>4 DEF Next, Task, Plug, Charged, Probe, Configure, ClearRead, ClearWrite, Level, Charging,
              Usb, Updated, FreshCharging, FreshUsb, Prepare, SleepFails, Sleep
<1>. QED
  BY <1>0, <1>1, <1>2, <1>3, <1>4

(* What the application knows keeps its types.                             *)
LEMMA ReadingsNext == ASSUME PowerAssumption, TypeOK, Next PROVE Readings'
<1>0. Readings /\ usb \in BOOLEAN /\ charging \in BOOLEAN
  BY Parts DEF Flags
<1>. USE DEF Readings, Reads, supply, pmic, app, history, Outside, Reading
<1>1. CASE Plug \/ Charged \/ Isr \/ Refresh \/ SleepTimer \/ Key
  BY <1>0, <1>1 DEF Plug, Charged, Isr, Refresh, SleepTimer, Key
<1>2. CASE WakeUp
  BY <1>2 DEF WakeUp, Nothing
<1>3. CASE Probe \/ Configure \/ ClearRead \/ ClearWrite \/ Level \/ Updated
  BY <1>0, <1>3 DEF Probe, Configure, ClearRead, ClearWrite, Level, Updated
<1>4. CASE Charging
  BY <1>0, <1>4 DEF Charging
<1>5. CASE Usb
  BY <1>0, <1>5 DEF Usb, Update
<1>6. CASE PowerIrq \/ BatteryRefresh \/ KeyTaken \/ StayAwake \/ TrySleep
  BY <1>0, <1>6 DEF PowerIrq, BatteryRefresh, KeyTaken, StayAwake, TrySleep, Take
<1>7. CASE FreshCharging \/ FreshUsb
  BY <1>0, <1>7 DEF FreshCharging, FreshUsb
<1>8. CASE Prepare \/ SleepFails \/ Sleep
  BY <1>0, <1>8 DEF Prepare, SleepFails, Sleep
<1>. QED
  BY <1>1, <1>2, <1>3, <1>4, <1>5, <1>6, <1>7, <1>8 DEF Next, Task

(* The counters stay within their bounds.                                  *)
LEMMA CountersNext == ASSUME PowerAssumption, TypeOK, Next PROVE Counters'
<1>0. Counters
  BY Parts
<1>. USE DEF Counters, PowerAssumption, supply, pmic, app, history, Answered, Faulty, Fails,
             Outside, Reading
<1>1. CASE Plug
  BY <1>0, <1>1 DEF Plug
<1>2. CASE Key \/ WakeUp
  BY <1>0, <1>2 DEF Key, WakeUp
<1>3. CASE Charged \/ Isr \/ Refresh \/ SleepTimer
  BY <1>0, <1>3 DEF Charged, Isr, Refresh, SleepTimer
<1>4. CASE Probe \/ Configure
  <2>1. UNCHANGED <<plugs, keys>> /\ (UNCHANGED faults \/ Faulty)
    BY <1>4 DEF Probe, Configure
  <2>. QED
    BY <1>0, <2>1
<1>5. CASE ClearRead \/ ClearWrite \/ Level \/ Charging \/ Usb \/ Updated
  BY <1>0, <1>5 DEF ClearRead, ClearWrite, Level, Charging, Usb, Updated
<1>6. CASE PowerIrq \/ BatteryRefresh \/ KeyTaken \/ StayAwake \/ TrySleep
  BY <1>0, <1>6 DEF PowerIrq, BatteryRefresh, KeyTaken, StayAwake, TrySleep, Take
<1>7. CASE FreshCharging \/ FreshUsb \/ Prepare \/ SleepFails \/ Sleep
  <2>1. UNCHANGED <<plugs, keys>> /\ (UNCHANGED faults \/ Faulty)
    BY <1>7 DEF FreshCharging, FreshUsb, Prepare, SleepFails, Sleep
  <2>. QED
    BY <1>0, <2>1
<1>. QED
  BY <1>1, <1>2, <1>3, <1>4, <1>5, <1>6, <1>7 DEF Next, Task

(* Every step keeps the types.                                             *)
LEMMA TypeNext ==
    ASSUME PowerAssumption, TypeOK, Probing, Next
    PROVE  TypeOK' /\ Probing'
<1>1. Flags' /\ Registers' /\ Probing' /\ Queue' /\ Readings' /\ Counters'
  BY FlagsNext, RegistersNext, QueueNext, ReadingsNext, CountersNext
<1>. QED
  BY <1>1 DEF TypeOK, Flags, Registers, Queue, Posts, Readings, Counters

-----------------------------------------------------------------------------
(* The line.                                                               *)
LEMMA LineNext ==
    ASSUME TypeOK, LineTellsSupply, Next
    PROVE  LineTellsSupply'
<1>0. Readings
  BY Parts
<1>. USE DEF LineTellsSupply, supply, pmic, app, history, Goto, Outside, Reading
<1>1. CASE Plug \/ Charged
  BY <1>1 DEF Plug, Charged
<1>2. CASE Isr \/ Refresh \/ SleepTimer \/ Key \/ WakeUp
  BY <1>2 DEF Isr, Refresh, SleepTimer, Key, WakeUp
<1>3. CASE Probe \/ Configure
  BY <1>3 DEF Probe, Configure
<1>4. CASE ClearRead \/ ClearWrite \/ Level \/ Charging \/ Updated
  BY <1>4 DEF ClearRead, ClearWrite, Level, Charging, Updated
<1>5. CASE Usb
  BY <1>0, <1>5 DEF Usb, Update, Readings, Reads
<1>6. CASE PowerIrq \/ BatteryRefresh \/ KeyTaken \/ StayAwake \/ TrySleep
  BY <1>6 DEF PowerIrq, BatteryRefresh, KeyTaken, StayAwake, TrySleep, Take
<1>7. CASE FreshCharging
  BY <1>7 DEF FreshCharging
<1>8. CASE FreshUsb
  BY <1>0, <1>8 DEF FreshUsb, Readings, Reads
<1>9. CASE Prepare \/ SleepFails \/ Sleep
  BY <1>9 DEF Prepare, SleepFails, Sleep
<1>. QED
  BY <1>1, <1>2, <1>3, <1>4, <1>5, <1>6, <1>7, <1>8, <1>9 DEF Next, Task

-----------------------------------------------------------------------------
(* The fresh check.                                                        *)
LEMMA CheckedNext ==
    ASSUME TypeOK, CheckedSupply, Next
    PROVE  CheckedSupply'
<1>0. Readings
  BY Parts
<1>. USE DEF CheckedSupply, Checked, supply, pmic, app, history, Goto, Outside, Reading
<1>1. CASE Plug \/ Charged
  BY <1>1 DEF Plug, Charged
<1>2. CASE Isr \/ Refresh \/ SleepTimer \/ Key \/ WakeUp
  BY <1>2 DEF Isr, Refresh, SleepTimer, Key, WakeUp
<1>3. CASE Probe \/ Configure \/ ClearRead \/ ClearWrite \/ Level \/ Charging \/ Usb \/ Updated
  BY <1>3 DEF Probe, Configure, ClearRead, ClearWrite, Level, Charging, Usb, Updated
<1>4. CASE PowerIrq \/ BatteryRefresh \/ KeyTaken \/ StayAwake \/ TrySleep
  BY <1>4 DEF PowerIrq, BatteryRefresh, KeyTaken, StayAwake, TrySleep, Take
<1>5. CASE FreshCharging
  BY <1>5 DEF FreshCharging
<1>6. CASE FreshUsb
  BY <1>0, <1>6 DEF FreshUsb, External, Readings, Reads
<1>7. CASE Prepare \/ SleepFails \/ Sleep
  BY <1>7 DEF Prepare, SleepFails, Sleep
<1>. QED
  BY <1>1, <1>2, <1>3, <1>4, <1>5, <1>6, <1>7 DEF Next, Task

-----------------------------------------------------------------------------
(* The way to sleep.                                                       *)
LEMMA IdleNext ==
    ASSUME PowerAssumption, TypeOK, IdleMeansArmed, Next
    PROVE  IdleMeansArmed'
<1>0. Queue /\ EventDepth \in Nat /\ Readings
  BY Parts DEF PowerAssumption
<1>. USE DEF IdleMeansArmed, OnTheWayToSleep, External, Attempt, supply, pmic, app, history, Goto,
             Outside, Reading
<1>1. CASE Plug \/ Charged
  BY <1>1 DEF Plug, Charged, Queued
<1>2. CASE Isr \/ Refresh \/ Key
  <2>1. PICK e \in Posts : Post(e)
    BY <1>2 DEF Isr, Refresh, Key, Posts
  <2>2. Queued("sleep") => Queued("sleep")'
    BY <1>0, <2>1, PostKeeps DEF Queue
  <2>. QED
    BY <1>2, <2>2 DEF Isr, Refresh, Key
<1>3. CASE SleepTimer
  <2>1. Queued("sleep")' \/ lost'
    BY <1>0, <1>3, PostKeeps DEF Queue, SleepTimer, Posts
  <2>. QED
    BY <2>1
<1>4. CASE WakeUp
  BY <1>4 DEF WakeUp
<1>5. CASE Probe \/ Configure \/ ClearRead \/ ClearWrite \/ Level \/ Charging \/ Updated
  BY <1>5 DEF Probe, Configure, ClearRead, ClearWrite, Level, Charging, Updated, Queued
<1>6. CASE Usb
  BY <1>6 DEF Usb, Update, Queued
<1>7. CASE PowerIrq \/ BatteryRefresh
  <2>1. Queued("sleep") => Queued("sleep")'
    BY <1>0, <1>7, TakeKeeps DEF Queue, PowerIrq, BatteryRefresh, Posts
  <2>. QED
    BY <1>7, <2>1 DEF PowerIrq, BatteryRefresh, Take
<1>8. CASE KeyTaken \/ StayAwake
  BY <1>8 DEF KeyTaken, StayAwake, Take, RestartTimer
<1>9. CASE TrySleep \/ FreshCharging \/ Sleep
  BY <1>9 DEF TrySleep, FreshCharging, Sleep
<1>10. CASE FreshUsb
  BY <1>10 DEF FreshUsb
<1>11. CASE Prepare \/ SleepFails
  BY <1>11 DEF Prepare, SleepFails, RestartTimer
<1>. QED
  BY <1>1, <1>2, <1>3, <1>4, <1>5, <1>6, <1>7, <1>8, <1>9, <1>10, <1>11 DEF Next, Task

-----------------------------------------------------------------------------
(* The invariant, and the theorems.                                        *)
LEMMA InitInv == ASSUME PowerAssumption, Init PROVE Inv
<1>1. Probing
  BY DEF Init, Probing, PowerAssumption
<1>2. LineTellsSupply /\ CheckedSupply /\ IdleMeansArmed
  BY DEF Init, LineTellsSupply, CheckedSupply, Checked, IdleMeansArmed, OnTheWayToSleep
<1>. QED
  BY <1>1, <1>2, TypeInit DEF Inv

(* A step that changes nothing keeps the invariant.                        *)
LEMMA StutterInv == ASSUME Inv, UNCHANGED vars PROVE Inv'
<1>. SUFFICES TypeOK' /\ Probing' /\ LineTellsSupply' /\ CheckedSupply' /\ IdleMeansArmed'
  BY DEF Inv
<1>. USE DEF Inv, vars
<1>1. TypeOK'
  BY DEF TypeOK
<1>2. Probing' /\ LineTellsSupply' /\ CheckedSupply'
  BY DEF Probing, LineTellsSupply, CheckedSupply, Checked
<1>3. IdleMeansArmed'
  BY DEF IdleMeansArmed, OnTheWayToSleep, External, Queued
<1>. QED
  BY <1>1, <1>2, <1>3

(* Every step keeps the invariant.                                         *)
LEMMA NextInv == ASSUME PowerAssumption, Inv, [Next]_vars PROVE Inv'
<1>1. CASE Next
  BY <1>1, TypeNext, LineNext, CheckedNext, IdleNext DEF Inv
<1>. QED
  BY <1>1, StutterInv

(* What the device knows of its supply holds after every transfer, event   *)
(* and refused attempt.                                                    *)
THEOREM Invariance == Spec => []Inv
  BY InitInv, NextInv, PowerAssumption, PTL DEF Spec

(* The types of the device's state, for every wiring and every bound.      *)
THEOREM TypeCorrect == Spec => []TypeOK
  BY Invariance, PTL DEF Inv

(* update_battery_status clears the flags before it reads: wherever the    *)
(* cable is pulled between its transfers, and whichever of them fail, a    *)
(* quiet line after a reading means that the supply is as known.           *)
THEOREM QuietLineMeansKnown == Spec => []PowerIsKnown
<1>1. Inv => PowerIsKnown
  BY DEF Inv, LineTellsSupply, PowerIsKnown
<1>. QED
  BY <1>1, Invariance, PTL

(* enter_deep_sleep does not trust what it knows: on external power the    *)
(* device sleeps only if the fresh check failed or the cable came later.   *)
THEOREM NoSleepOnExternalPower == Spec => []SleepsOnBattery
<1>1. Inv => SleepsOnBattery
  BY DEF Inv, CheckedSupply, Checked, SleepsOnBattery
<1>. QED
  BY <1>1, Invariance, PTL

(* Every path of the supply, the keys and the refused attempts that leaves *)
(* the device idle on battery leaves the deep-sleep timer armed.           *)
THEOREM BatteryIsNotDrained == Spec => []IdleDeviceSleeps
<1>1. Inv => IdleDeviceSleeps
  BY DEF Inv, IdleMeansArmed, OnTheWayToSleep, Attempt, IdleDeviceSleeps
<1>. QED
  BY <1>1, Invariance, PTL

-----------------------------------------------------------------------------
(* The screen.                                                             *)

(* The assignments a drawing step makes, and the steps there are.          *)
UiStates == {"ready", "recording", "busy"}

Settings ==
    {<< >>} \cup {[recording |-> r] : r \in BOOLEAN} \cup {[ui |-> u] : u \in UiStates}
            \cup {[updating |-> b] : b \in BOOLEAN}
            \cup {[recording |-> r, ui |-> u] : r \in BOOLEAN, u \in UiStates}
            \cup {[updating |-> b, ui |-> u] : b \in BOOLEAN, u \in UiStates}

StepKinds ==
    [op : {"wake", "flag", "rest", "dim", "off", "draw"}, set : Settings,
     scene : Scenes \cup {"same"}, start : SUBSET (Views \cup {"dim"}), blind : BOOLEAN]

(* A step that begins a recording, one that ends it, and one that draws    *)
(* the idle screen having looked.                                          *)
Begins(s) == s.op = "draw" /\ "recording" \in DOMAIN s.set /\ s.set["recording"] = TRUE
Ends(s) == s.op = "draw" /\ "recording" \in DOMAIN s.set /\ s.set["recording"] = FALSE
IdleScreen(s) == s.op = "draw" /\ s.scene = "idle" /\ s.blind = FALSE

(* What the timer task and the two that only draw may have before them.    *)
Dimming == <<Op("dim"), Op("flag"), Op("rest")>>
TimerLists == {<< >>, Dimming, <<Op("flag"), Op("rest")>>, <<Op("rest")>>, <<ShowIdleBlindly>>}
DrawLists == {<< >>, <<ShowIdleBlindly>>}

(* What the application task may have before it.  The light is set in      *)
(* three steps that stay together.                                         *)
Together(q) ==
    \A i \in 1 .. Len(q) :
        /\ q[i].op # "dim"
        /\ q[i].op = "wake" => /\ i + 2 <= Len(q)
                               /\ q[i + 1].op = "flag" /\ q[i + 2].op = "rest"
        /\ q[i].op = "flag" => /\ i + 1 <= Len(q) /\ q[i + 1].op = "rest"
                               /\ i > 1 => q[i - 1].op = "wake"
        /\ q[i].op = "rest" /\ i > 1 => q[i - 1].op = "flag"

(* A handler that begins a recording does so last and shows it; one that   *)
(* draws the idle screen has ended the recording before, or none runs.     *)
Calm(q) == \A i \in 1 .. Len(q) : ~Begins(q[i])
Visible(q) ==
    \A i \in 1 .. Len(q) : Begins(q[i]) => i = Len(q) /\ q[i].scene = "recording"
Ended(q, running) ==
    \A i \in 1 .. Len(q) :
        IdleScreen(q[i]) => running = FALSE \/ \E j \in 1 .. i - 1 : Ends(q[j])

AppList(q, running) == Together(q) /\ Visible(q) /\ Ended(q, running)

(* ... and what a handler gives it to do.                                  *)
Whole(q) == q # << >> => q[1].op \notin {"flag", "rest"}
HandlerList(q, running, n) ==
    q \in Seq(StepKinds) /\ Len(q) <= n /\ Whole(q) /\ AppList(q, running)

(* The lists of all the tasks.                                             *)
Lists ==
    /\ todo \in [Tasks -> Seq(StepKinds)]
    /\ Len(todo["app"]) <= 10
    /\ AppList(todo["app"], state.recording)
    /\ todo["timer"] \in TimerLists
    /\ todo["ble"] \in DrawLists /\ todo["main"] \in DrawLists

(* While the backlight and the flag are being changed, and otherwise: a    *)
(* sleep that was given up may have come between.                          *)
Backlight ==
    /\ Is("app", "flag") => s_display_dimmed = TRUE /\ brightness = "full"
    /\ Is("timer", "dim") => s_display_dimmed = FALSE /\ brightness # "dim"
    /\ Is("timer", "flag") => s_display_dimmed = FALSE /\ brightness # "full"
    /\ ~Is("app", "flag") /\ ~Is("timer", "flag") =>
          brightness = "off" \/ (s_display_dimmed = TRUE <=> brightness = "dim")

(* Whoever comes to the face last finds the flag as it left it, unless the *)
(* other was between flag and face (crossed).                              *)
Neither == ~Is("app", "rest") /\ ~Is("timer", "rest")
Face ==
    crossed = FALSE =>
        /\ Is("app", "rest") => s_display_dimmed = FALSE /\ ~Is("timer", "rest")
        /\ Is("timer", "rest") => s_display_dimmed = TRUE
        /\ Neither => s_dimmed = s_display_dimmed

(* The idle screen over a recording is one that was drawn blindly.         *)
Looks == state.recording = TRUE /\ scene = "idle" => overdrawn = TRUE

(* A view has its timer armed, or that timer's task is about to draw.      *)
GivesWay == scene \in Views => scene \in armed \/ kept = TRUE \/ Is("timer", "draw")

ScreenTypes ==
    /\ state \in AppStates
    /\ s_display_dimmed \in BOOLEAN /\ s_dimmed \in BOOLEAN /\ crossed \in BOOLEAN
    /\ overdrawn \in BOOLEAN /\ kept \in BOOLEAN
    /\ sync \in {"off", "on", "told"} /\ brightness \in {"off", "dim", "full"}
    /\ scene \in Scenes /\ armed \subseteq Views \cup {"dim"}

ScreenInv == ScreenTypes /\ Lists /\ Backlight /\ Face /\ Looks /\ GivesWay

-----------------------------------------------------------------------------
(* A drawing step, and the assignments it may make.                        *)
LEMMA DrawIs ==
    ASSUME NEW set \in Settings, NEW s \in Scenes \cup {"same"},
           NEW start \in SUBSET (Views \cup {"dim"})
    PROVE  /\ Draw(set, s, start) \in StepKinds
           /\ Draw(set, s, start).op = "draw" /\ Draw(set, s, start).set = set
           /\ Draw(set, s, start).scene = s
  BY DEF Draw, Drawing, StepKinds

(* An idle screen drawn by one that does not look whether a recording runs. *)
LEMMA BlindDrawIs ==
    ASSUME NEW set \in Settings
    PROVE  /\ Drawing(set, "idle", {}, TRUE) \in StepKinds
           /\ Drawing(set, "idle", {}, TRUE).op = "draw"
           /\ Drawing(set, "idle", {}, TRUE).set = set
           /\ ~IdleScreen(Drawing(set, "idle", {}, TRUE))
  BY DEF Drawing, StepKinds, Scenes, IdleScreen

(* A step may assign nothing.                                               *)
LEMMA EmptyIs == << >> \in Settings
  BY DEF Settings

(* What a step may assign: one field, or one and the state of the UI.       *)
LEMMA SettingsAre ==
    ASSUME NEW r \in BOOLEAN, NEW u \in UiStates
    PROVE  /\ << >> \in Settings
           /\ [recording |-> r] \in Settings /\ [ui |-> u] \in Settings
           /\ [updating |-> r] \in Settings
           /\ [recording |-> r, ui |-> u] \in Settings /\ [updating |-> r, ui |-> u] \in Settings
<1>1. [recording |-> r] \in Settings
  BY DEF Settings
<1>2. [ui |-> u] \in Settings
  BY DEF Settings
<1>3. [updating |-> r] \in Settings
  BY DEF Settings
<1>4. [recording |-> r, ui |-> u] \in Settings
  BY DEF Settings
<1>5. [updating |-> r, ui |-> u] \in Settings
  BY DEF Settings
<1>. QED
  BY <1>1, <1>2, <1>3, <1>4, <1>5, EmptyIs

(* A step that does not draw.                                               *)
LEMMA OpIs ==
    ASSUME NEW op \in {"wake", "flag", "rest", "dim", "off"}
    PROVE  /\ Op(op) \in StepKinds
           /\ Op(op).op = op /\ ~IdleScreen(Op(op))
           /\ ~Begins(Op(op)) /\ ~Ends(Op(op))
<1>1. Op(op) \in StepKinds
  BY EmptyIs DEF Op, StepKinds
<1>. QED
  BY <1>1 DEF Op, IdleScreen, Begins, Ends

(* What is left of a list whose first n steps are taken.                   *)
LEMMA Left ==
    ASSUME NEW S, NEW q \in Seq(S), NEW n \in 1 .. Len(q)
    PROVE  LET rest == SubSeq(q, n + 1, Len(q)) IN
           /\ rest \in Seq(S) /\ Len(rest) = Len(q) - n
           /\ \A i \in 1 .. Len(q) - n : rest[i] = q[i + n]
  OBVIOUS

(* A flag comes first only after its wake, a rest only after its flag, and *)
(* they do.                                                                *)
Follows(q, n, rest) ==
    /\ rest # << >> => \/ rest[1].op = "flag" /\ n = 1 /\ q[1].op = "wake"
                       \/ rest[1].op = "rest" /\ n = 1 /\ q[1].op = "flag"
                       \/ rest[1].op \in {"wake", "off", "draw"}
    /\ n = 1 /\ q[1].op = "wake" => rest # << >> /\ rest[1].op = "flag"
    /\ n = 1 /\ q[1].op = "flag" => rest # << >> /\ rest[1].op = "rest"

(* The application's list stays in order when its head is done with, or    *)
(* the whole of a lighting that is not necessary.                          *)
LEMMA Passed ==
    ASSUME NEW q \in Seq(StepKinds), NEW n \in 1 .. Len(q), NEW r \in BOOLEAN, NEW s \in BOOLEAN,
           AppList(q, r),
           n = 1 \/ (n = 3 /\ q[1].op = "wake"),
           \/ s = r /\ ~Begins(q[1]) /\ ~Ends(q[1])
           \/ s = TRUE /\ Begins(q[1])
           \/ s = FALSE /\ Ends(q[1])
    PROVE  /\ AppList(SubSeq(q, n + 1, Len(q)), s)
           /\ Follows(q, n, SubSeq(q, n + 1, Len(q)))
<1>. DEFINE rest == SubSeq(q, n + 1, Len(q))
<1>1. /\ rest \in Seq(StepKinds) /\ Len(rest) = Len(q) - n
      /\ \A i \in 1 .. Len(q) - n : rest[i] = q[i + n]
  BY Left
<1>. HIDE DEF rest
<1>2. Len(q) \in Nat /\ n \in Nat /\ \A i \in 1 .. Len(q) : q[i] \in StepKinds
  OBVIOUS
<1>3. Together(q) /\ Visible(q) /\ Ended(q, r)
  BY DEF AppList
<1>0. \A i \in 1 .. Len(rest) : i \in Nat /\ i + n \in 1 .. Len(q) /\ rest[i] = q[i + n]
  BY <1>1, <1>2
<1>4. n = 3 => q[2].op = "flag" /\ q[3].op = "rest"
  BY <1>2, <1>3 DEF Together
<1>5. Together(rest)
  <2>. SUFFICES ASSUME NEW i \in 1 .. Len(rest)
                PROVE  /\ rest[i].op # "dim"
                       /\ rest[i].op = "wake" => /\ i + 2 <= Len(rest)
                                                 /\ rest[i + 1].op = "flag"
                                                 /\ rest[i + 2].op = "rest"
                       /\ rest[i].op = "flag" => /\ i + 1 <= Len(rest)
                                                 /\ rest[i + 1].op = "rest"
                                                 /\ i > 1 => rest[i - 1].op = "wake"
                       /\ rest[i].op = "rest" /\ i > 1 => rest[i - 1].op = "flag"
    BY DEF Together
  <2>1. i + n \in 1 .. Len(q) /\ rest[i] = q[i + n] /\ i \in Nat
    BY <1>0
  <2>0. /\ i + 1 <= Len(rest) => i + 1 \in 1 .. Len(rest) /\ (i + 1) + n = i + n + 1
        /\ i + 2 <= Len(rest) => i + 2 \in 1 .. Len(rest) /\ (i + 2) + n = i + n + 2
        /\ i > 1 => i - 1 \in 1 .. Len(rest) /\ (i - 1) + n = i + n - 1
    BY <1>1, <1>2, <2>1
  <2>2. i + 1 <= Len(rest) => rest[i + 1] = q[i + n + 1]
    <3>1. \A k \in 1 .. Len(rest) : k + n = i + n + 1 => rest[k] = q[i + n + 1]
      BY <1>0
    <3>. QED
      BY <2>0, <3>1
  <2>3. i + 2 <= Len(rest) => rest[i + 2] = q[i + n + 2]
    <3>1. \A k \in 1 .. Len(rest) : k + n = i + n + 2 => rest[k] = q[i + n + 2]
      BY <1>0
    <3>. QED
      BY <2>0, <3>1
  <2>4. i > 1 => rest[i - 1] = q[i + n - 1]
    <3>1. \A k \in 1 .. Len(rest) : k + n = i + n - 1 => rest[k] = q[i + n - 1]
      BY <1>0
    <3>. QED
      BY <2>0, <3>1
  <2>5. /\ q[i + n].op # "dim"
        /\ q[i + n].op = "wake" => /\ i + n + 2 <= Len(q)
                                   /\ q[i + n + 1].op = "flag" /\ q[i + n + 2].op = "rest"
        /\ q[i + n].op = "flag" => /\ i + n + 1 <= Len(q) /\ q[i + n + 1].op = "rest"
                                   /\ q[i + n - 1].op = "wake"
        /\ q[i + n].op = "rest" => q[i + n - 1].op = "flag"
    <3>. DEFINE k == i + n
    <3>1. k \in 1 .. Len(q) /\ k > 1
      BY <1>2, <2>1
    <3>2. /\ k + 1 = i + n + 1 /\ k + 2 = i + n + 2 /\ k - 1 = i + n - 1
      BY <1>2, <2>1
    <3>. HIDE DEF k
    <3>3. /\ q[k].op # "dim"
          /\ q[k].op = "wake" => /\ k + 2 <= Len(q)
                                 /\ q[k + 1].op = "flag" /\ q[k + 2].op = "rest"
          /\ q[k].op = "flag" => /\ k + 1 <= Len(q) /\ q[k + 1].op = "rest"
                                 /\ q[k - 1].op = "wake"
          /\ q[k].op = "rest" => q[k - 1].op = "flag"
      BY <1>3, <3>1 DEF Together
    <3>4. k = i + n
      BY DEF k
    <3>. QED
      BY <3>2, <3>3, <3>4
  <2>6. /\ i + n + 2 <= Len(q) => i + 1 <= Len(rest) /\ i + 2 <= Len(rest)
        /\ i + n + 1 <= Len(q) => i + 1 <= Len(rest)
    BY <1>1, <1>2, <2>1
  <2>. QED
    BY <2>1, <2>2, <2>3, <2>4, <2>5, <2>6
<1>6. \A j \in 1 .. n : Begins(q[j]) \/ Ends(q[j]) => j = 1
  BY <1>2, <1>4 DEF Begins, Ends
<1>7. Visible(rest)
  <2>. SUFFICES ASSUME NEW i \in 1 .. Len(rest), Begins(rest[i])
                PROVE  i = Len(rest) /\ rest[i].scene = "recording"
    BY DEF Visible
  <2>1. i + n \in 1 .. Len(q) /\ rest[i] = q[i + n] /\ i \in Nat
    BY <1>0
  <2>2. i + n = Len(q) /\ q[i + n].scene = "recording"
    BY <1>3, <2>1 DEF Visible
  <2>3. i = Len(rest)
    BY <1>1, <1>2, <2>1, <2>2
  <2>. QED
    BY <2>1, <2>2, <2>3
<1>8. Ended(rest, s)
  <2>. SUFFICES ASSUME NEW i \in 1 .. Len(rest), IdleScreen(rest[i]), s = TRUE
                PROVE  \E j \in 1 .. i - 1 : Ends(rest[j])
    BY DEF Ended
  <2>1. i + n \in 1 .. Len(q) /\ rest[i] = q[i + n] /\ i \in Nat
    BY <1>0
  <2>2. ~Begins(q[1])
    BY <1>2, <1>3, <2>1 DEF Visible
  <2>3. r = TRUE /\ ~Ends(q[1])
    BY <2>2
  <2>4. PICK j \in 1 .. i + n - 1 : Ends(q[j])
    BY <1>3, <2>1, <2>3 DEF Ended
  <2>5. j > n
    BY <1>2, <1>6, <2>3, <2>4
  <2>6. j - n \in 1 .. i - 1 /\ rest[j - n] = q[j]
    BY <1>1, <1>2, <2>1, <2>4, <2>5
  <2>. QED
    BY <2>4, <2>6
<1>9. rest # << >> => \/ rest[1].op = "flag" /\ n = 1 /\ q[1].op = "wake"
                      \/ rest[1].op = "rest" /\ n = 1 /\ q[1].op = "flag"
                      \/ rest[1].op \in {"wake", "off", "draw"}
  <2>. SUFFICES ASSUME rest # << >>
                PROVE  \/ rest[1].op = "flag" /\ n = 1 /\ q[1].op = "wake"
                       \/ rest[1].op = "rest" /\ n = 1 /\ q[1].op = "flag"
                       \/ rest[1].op \in {"wake", "off", "draw"}
    OBVIOUS
  <2>1. n + 1 \in 1 .. Len(q) /\ rest[1] = q[n + 1]
    BY <1>1, <1>2
  <2>2. q[n + 1].op \in {"wake", "flag", "rest", "dim", "off", "draw"}
          /\ q[n + 1].op # "dim"
    BY <1>2, <1>3, <2>1 DEF StepKinds, Together
  <2>3. q[n + 1].op = "flag" => q[n].op = "wake"
    <3>1. n + 1 > 1 /\ (n + 1) - 1 = n
      BY <1>2
    <3>. QED
      BY <1>3, <2>1, <3>1 DEF Together
  <2>4. q[n + 1].op = "rest" => q[n].op = "flag"
    BY <1>2, <1>3, <2>1 DEF Together
  <2>. QED
    BY <1>4, <2>1, <2>2, <2>3, <2>4
<1>10. /\ n = 1 /\ q[1].op = "wake" => rest # << >> /\ rest[1].op = "flag"
       /\ n = 1 /\ q[1].op = "flag" => rest # << >> /\ rest[1].op = "rest"
  <2>. SUFFICES ASSUME n = 1
                PROVE  /\ q[1].op = "wake" => rest # << >> /\ rest[1].op = "flag"
                       /\ q[1].op = "flag" => rest # << >> /\ rest[1].op = "rest"
    OBVIOUS
  <2>1. /\ q[1].op = "wake" => 2 <= Len(q) /\ q[2].op = "flag"
        /\ q[1].op = "flag" => 2 <= Len(q) /\ q[2].op = "rest"
    BY <1>2, <1>3 DEF Together
  <2>2. 2 <= Len(q) => rest # << >> /\ rest[1] = q[2]
    BY <1>1, <1>2
  <2>. QED
    BY <2>1, <2>2
<1>. QED
  BY <1>5, <1>7, <1>8, <1>9, <1>10 DEF AppList, Follows, rest

-----------------------------------------------------------------------------
(* The lists of the handlers, from their parts.                            *)
LEMMA NothingToDo ==
    ASSUME NEW r \in BOOLEAN
    PROVE  HandlerList(<< >>, r, 0) /\ Calm(<< >>)
  BY DEF HandlerList, Whole, AppList, Together, Visible, Ended, Calm

(* A list of one drawing is in order if that drawing is.                    *)
LEMMA OneDrawing ==
    ASSUME NEW d \in StepKinds, d.op = "draw", NEW r \in BOOLEAN,
           Begins(d) => d.scene = "recording", IdleScreen(d) => r = FALSE
    PROVE  HandlerList(<<d>>, r, 1) /\ (~Begins(d) => Calm(<<d>>))
<1>1. <<d>> \in Seq(StepKinds) /\ Len(<<d>>) = 1 /\ <<d>>[1] = d
  OBVIOUS
<1>2. Whole(<<d>>) /\ Together(<<d>>)
  BY <1>1 DEF Whole, Together
<1>3. Visible(<<d>>)
  BY <1>1 DEF Visible
<1>4. Ended(<<d>>, r)
  BY <1>1 DEF Ended
<1>. QED
  BY <1>1, <1>2, <1>3, <1>4 DEF HandlerList, AppList, Calm

(* note_activity: the three steps of lighting the display.                  *)
LEMMA Lighting ==
    ASSUME NEW r \in BOOLEAN
    PROVE  HandlerList(NoteActivity, r, 3) /\ Calm(NoteActivity)
<1>1. /\ NoteActivity \in Seq(StepKinds) /\ Len(NoteActivity) = 3
      /\ NoteActivity[1] = Op("wake") /\ NoteActivity[2] = Op("flag")
      /\ NoteActivity[3] = Op("rest")
  BY OpIs DEF NoteActivity
<1>2. /\ NoteActivity[1].op = "wake" /\ NoteActivity[2].op = "flag"
      /\ NoteActivity[3].op = "rest"
  BY <1>1, OpIs
<1>3. \A i \in 1 .. 3 : ~IdleScreen(NoteActivity[i]) /\ ~Begins(NoteActivity[i])
  <2>. SUFFICES ASSUME NEW i \in 1 .. 3
                PROVE  ~IdleScreen(NoteActivity[i]) /\ ~Begins(NoteActivity[i])
    OBVIOUS
  <2>1. i = 1 \/ i = 2 \/ i = 3
    OBVIOUS
  <2>. QED
    BY <1>1, <2>1, OpIs
<1>4. Together(NoteActivity)
  <2>. SUFFICES ASSUME NEW i \in 1 .. 3
                PROVE  LET q == NoteActivity IN
                       /\ q[i].op # "dim"
                       /\ q[i].op = "wake" => /\ i + 2 <= 3
                                              /\ q[i + 1].op = "flag" /\ q[i + 2].op = "rest"
                       /\ q[i].op = "flag" => /\ i + 1 <= 3 /\ q[i + 1].op = "rest"
                                              /\ i > 1 => q[i - 1].op = "wake"
                       /\ q[i].op = "rest" /\ i > 1 => q[i - 1].op = "flag"
    BY <1>1 DEF Together
  <2>1. i = 1 \/ i = 2 \/ i = 3
    OBVIOUS
  <2>. QED
    BY <1>2, <2>1
<1>5. Whole(NoteActivity)
  BY <1>2 DEF Whole
<1>. QED
  BY <1>1, <1>3, <1>4, <1>5 DEF HandlerList, AppList, Visible, Ended, Calm

(* One list after another: the first begins no recording; if the second    *)
(* relies on it, the first ends the one that runs.                         *)
LEMMA Joined ==
    ASSUME NEW p, NEW q, NEW r \in BOOLEAN, NEW s \in BOOLEAN, NEW n \in Nat, NEW m \in Nat,
           HandlerList(p, r, n), HandlerList(q, s, m), Calm(p),
           s = r \/ \E j \in 1 .. Len(p) : Ends(p[j])
    PROVE  HandlerList(p \o q, r, n + m) /\ (Calm(q) => Calm(p \o q))
<1>. DEFINE w == p \o q
<1>1. /\ p \in Seq(StepKinds) /\ Len(p) <= n /\ Whole(p)
      /\ Together(p) /\ Visible(p) /\ Ended(p, r)
  BY DEF HandlerList, AppList
<1>2. /\ q \in Seq(StepKinds) /\ Len(q) <= m /\ Whole(q)
      /\ Together(q) /\ Visible(q) /\ Ended(q, s)
  BY DEF HandlerList, AppList
<1>3. /\ w \in Seq(StepKinds) /\ Len(w) = Len(p) + Len(q)
      /\ \A i \in 1 .. Len(p) : w[i] = p[i]
      /\ \A i \in 1 .. Len(q) : w[i + Len(p)] = q[i]
  BY <1>1, <1>2
<1>4. Len(p) \in Nat /\ Len(q) \in Nat
  BY <1>1, <1>2
<1>. HIDE DEF w
<1>5. ASSUME NEW i \in 1 .. Len(w), i > Len(p)
      PROVE  i - Len(p) \in 1 .. Len(q) /\ w[i] = q[i - Len(p)]
  BY <1>3, <1>4, <1>5
<1>6. Whole(w)
  <2>1. CASE Len(p) = 0
    <3>1. w # << >> => 1 \in 1 .. Len(q) /\ w[1] = q[1]
      BY <1>2, <1>3, <1>4, <2>1
    <3>. QED
      BY <1>2, <3>1 DEF Whole
  <2>2. CASE Len(p) > 0
    <3>1. 1 \in 1 .. Len(p) /\ w[1] = p[1] /\ p # << >>
      BY <1>1, <1>3, <1>4, <2>2
    <3>. QED
      BY <1>1, <3>1 DEF Whole
  <2>. QED
    BY <1>4, <2>1, <2>2
<1>7. Together(w)
  <2>. SUFFICES ASSUME NEW i \in 1 .. Len(w)
                PROVE  /\ w[i].op # "dim"
                       /\ w[i].op = "wake" => /\ i + 2 <= Len(w)
                                              /\ w[i + 1].op = "flag" /\ w[i + 2].op = "rest"
                       /\ w[i].op = "flag" => /\ i + 1 <= Len(w) /\ w[i + 1].op = "rest"
                                              /\ i > 1 => w[i - 1].op = "wake"
                       /\ w[i].op = "rest" /\ i > 1 => w[i - 1].op = "flag"
    BY DEF Together
  <2>1. CASE i <= Len(p)
    <3>0. i \in 1 .. Len(p)
      BY <1>3, <1>4, <2>1
    <3>1. /\ w[i] = p[i]
          /\ i + 1 <= Len(p) => w[i + 1] = p[i + 1]
          /\ i + 2 <= Len(p) => w[i + 2] = p[i + 2]
          /\ i > 1 => w[i - 1] = p[i - 1]
      <4>1. /\ i + 1 <= Len(p) => i + 1 \in 1 .. Len(p)
            /\ i + 2 <= Len(p) => i + 2 \in 1 .. Len(p)
            /\ i > 1 => i - 1 \in 1 .. Len(p)
        BY <1>4, <3>0
      <4>. QED
        BY <1>3, <3>0, <4>1
    <3>2. /\ p[i].op # "dim"
          /\ p[i].op = "wake" => /\ i + 2 <= Len(p)
                                 /\ p[i + 1].op = "flag" /\ p[i + 2].op = "rest"
          /\ p[i].op = "flag" => /\ i + 1 <= Len(p) /\ p[i + 1].op = "rest"
                                 /\ i > 1 => p[i - 1].op = "wake"
          /\ p[i].op = "rest" /\ i > 1 => p[i - 1].op = "flag"
      BY <1>1, <3>0 DEF Together
    <3>3. /\ i + 1 <= Len(p) => i + 1 <= Len(w)
          /\ i + 2 <= Len(p) => i + 2 <= Len(w) /\ i + 1 <= Len(p)
      BY <1>3, <1>4, <2>1
    <3>. QED
      BY <3>1, <3>2, <3>3
  <2>2. CASE i > Len(p)
    <3>1. PICK k \in 1 .. Len(q) : i = k + Len(p) /\ w[i] = q[k]
      BY <1>4, <1>5, <2>2
    <3>2. /\ k + 1 <= Len(q) => w[i + 1] = q[k + 1]
          /\ k + 2 <= Len(q) => w[i + 2] = q[k + 2]
          /\ k > 1 => w[i - 1] = q[k - 1]
      <4>1. ASSUME k + 1 <= Len(q)
            PROVE  w[i + 1] = q[k + 1]
        <5>1. k + 1 \in 1 .. Len(q) /\ i + 1 = (k + 1) + Len(p)
          BY <1>4, <3>1, <4>1
        <5>. QED
          BY <1>3, <5>1
      <4>2. ASSUME k + 2 <= Len(q)
            PROVE  w[i + 2] = q[k + 2]
        <5>1. k + 2 \in 1 .. Len(q) /\ i + 2 = (k + 2) + Len(p)
          BY <1>4, <3>1, <4>2
        <5>. QED
          BY <1>3, <5>1
      <4>3. ASSUME k > 1
            PROVE  w[i - 1] = q[k - 1]
        <5>1. k - 1 \in 1 .. Len(q) /\ i - 1 = (k - 1) + Len(p)
          BY <1>4, <3>1, <4>3
        <5>. QED
          BY <1>3, <5>1
      <4>. QED
        BY <4>1, <4>2, <4>3
    <3>3. /\ q[k].op # "dim"
          /\ q[k].op = "wake" => /\ k + 2 <= Len(q)
                                 /\ q[k + 1].op = "flag" /\ q[k + 2].op = "rest"
          /\ q[k].op = "flag" => /\ k + 1 <= Len(q) /\ q[k + 1].op = "rest"
                                 /\ k > 1 => q[k - 1].op = "wake"
          /\ q[k].op = "rest" /\ k > 1 => q[k - 1].op = "flag"
      BY <1>2, <3>1 DEF Together
    <3>4. q[k].op \in {"flag", "rest"} => k > 1
      BY <1>2, <3>1 DEF Whole
    <3>5. /\ k + 1 <= Len(q) => i + 1 <= Len(w)
          /\ k + 2 <= Len(q) => i + 2 <= Len(w) /\ k + 1 <= Len(q)
      <4>1. Len(w) - i = Len(q) - k
        BY <1>3, <1>4, <3>1
      <4>. QED
        BY <1>3, <1>4, <3>1, <4>1
    <3>6. w[i].op = "wake" => i + 2 <= Len(w) /\ w[i + 1].op = "flag" /\ w[i + 2].op = "rest"
      BY <3>1, <3>2, <3>3, <3>5
    <3>7. w[i].op = "flag" => i + 1 <= Len(w) /\ w[i + 1].op = "rest" /\ w[i - 1].op = "wake"
      BY <3>1, <3>2, <3>3, <3>4, <3>5
    <3>8. w[i].op = "rest" => w[i - 1].op = "flag"
      BY <3>1, <3>2, <3>3, <3>4
    <3>. QED
      BY <3>1, <3>3, <3>6, <3>7, <3>8
  <2>. QED
    BY <1>3, <1>4, <2>1, <2>2
<1>8. Visible(w)
  <2>. SUFFICES ASSUME NEW i \in 1 .. Len(w), Begins(w[i])
                PROVE  i = Len(w) /\ w[i].scene = "recording"
    BY DEF Visible
  <2>1. i > Len(p)
    BY <1>3, <1>4 DEF Calm
  <2>2. i - Len(p) = Len(q) /\ w[i].scene = "recording"
    BY <1>2, <1>5, <2>1 DEF Visible
  <2>. QED
    BY <1>3, <1>4, <2>2
<1>9. Ended(w, r)
  <2>. SUFFICES ASSUME NEW i \in 1 .. Len(w), IdleScreen(w[i]), r # FALSE
                PROVE  \E j \in 1 .. i - 1 : Ends(w[j])
    BY DEF Ended
  <2>1. CASE i <= Len(p)
    <3>1. i \in 1 .. Len(p) /\ IdleScreen(p[i])
      BY <1>3, <1>4, <2>1
    <3>2. PICK j \in 1 .. i - 1 : Ends(p[j])
      BY <1>1, <3>1 DEF Ended
    <3>. QED
      BY <1>3, <1>4, <2>1, <3>2
  <2>2. CASE i > Len(p) /\ s = r
    <3>1. PICK j \in 1 .. i - Len(p) - 1 : Ends(q[j])
      BY <1>2, <1>5, <2>2 DEF Ended
    <3>2. j + Len(p) \in 1 .. i - 1 /\ j \in 1 .. Len(q)
      BY <1>3, <1>4, <2>2, <3>1
    <3>. QED
      BY <1>3, <3>1, <3>2
  <2>3. CASE i > Len(p) /\ s # r
    <3>1. PICK j \in 1 .. Len(p) : Ends(p[j])
      BY <2>3
    <3>. QED
      BY <1>3, <1>4, <2>3, <3>1
  <2>. QED
    BY <1>3, <1>4, <2>1, <2>2, <2>3
<1>10. Calm(q) => Calm(w)
  <2>. SUFFICES ASSUME Calm(q), NEW i \in 1 .. Len(w)
                PROVE  ~Begins(w[i])
    BY DEF Calm
  <2>1. CASE i <= Len(p)
    BY <1>3, <1>4, <2>1 DEF Calm
  <2>2. CASE i > Len(p)
    BY <1>5, <2>2 DEF Calm
  <2>. QED
    BY <1>3, <1>4, <2>1, <2>2
<1>. QED
  BY <1>1, <1>2, <1>3, <1>4, <1>6, <1>7, <1>8, <1>9, <1>10 DEF HandlerList, AppList, w

(* A bound on the length of a list may be given larger.                     *)
LEMMA Longer ==
    ASSUME NEW q, NEW r, NEW n \in Nat, NEW m \in Nat, n <= m, HandlerList(q, r, n)
    PROVE  HandlerList(q, r, m)
<1>1. q \in Seq(StepKinds) /\ Len(q) <= n
  BY DEF HandlerList
<1>2. Len(q) <= m
  BY <1>1
<1>. QED
  BY <1>1, <1>2 DEF HandlerList

(* Drawing anything but the idle screen, without beginning a recording.    *)
LEMMA OtherDrawing ==
    ASSUME NEW set \in Settings, NEW s \in Scenes \cup {"same"}, s # "idle",
           NEW start \in SUBSET (Views \cup {"dim"}), NEW r \in BOOLEAN,
           "recording" \in DOMAIN set => set["recording"] = FALSE
    PROVE  HandlerList(<<Draw(set, s, start)>>, r, 1) /\ Calm(<<Draw(set, s, start)>>)
<1>. DEFINE d == Draw(set, s, start)
<1>1. d \in StepKinds /\ d.op = "draw" /\ d.set = set /\ d.scene = s
  BY DEF Draw, Drawing, StepKinds
<1>. HIDE DEF d
<1>2. ~Begins(d) /\ ~IdleScreen(d)
  BY <1>1 DEF Begins, IdleScreen
<1>3. HandlerList(<<d>>, r, 1) /\ Calm(<<d>>)
  BY <1>1, <1>2, OneDrawing
<1>. QED
  BY <1>1, <1>3 DEF d

(* The ready screen, where no recording runs.                               *)
LEMMA ReadyList ==
    ASSUME NEW r \in BOOLEAN, r = FALSE
    PROVE  HandlerList(Ready, r, 1) /\ Calm(Ready)
<1>1. [ui |-> "ready"] \in Settings
  BY SettingsAre DEF UiStates
<1>2. "idle" \in Scenes \cup {"same"} /\ {} \in SUBSET (Views \cup {"dim"})
  BY DEF Scenes
<1>. DEFINE d == Draw([ui |-> "ready"], "idle", {})
<1>3. d \in StepKinds /\ d.op = "draw" /\ d.set = [ui |-> "ready"]
  BY <1>1, <1>2 DEF Draw, Drawing, StepKinds
<1>. HIDE DEF d
<1>4. ~Begins(d)
  BY <1>3 DEF Begins
<1>5. HandlerList(<<d>>, r, 1) /\ Calm(<<d>>)
  BY <1>3, <1>4, OneDrawing
<1>. QED
  BY <1>5 DEF Ready, d

(* A screen that says what the application is busy with.                    *)
LEMMA BusyList ==
    ASSUME NEW s \in {"error", "thinking"}, NEW r \in BOOLEAN
    PROVE  HandlerList(Busy(s), r, 1) /\ Calm(Busy(s))
<1>1. [ui |-> "busy"] \in Settings /\ s \in Scenes \cup {"same"} /\ s # "idle"
  BY SettingsAre DEF UiStates, Scenes
<1>2. "recording" \notin DOMAIN [ui |-> "busy"]
  OBVIOUS
<1>. QED
  BY <1>1, <1>2, OtherDrawing DEF Busy

(* A screen shown without assigning anything.                               *)
LEMMA ShowList ==
    ASSUME NEW s \in {"syncing", "update"}, NEW r \in BOOLEAN
    PROVE  HandlerList(<<Show(s)>>, r, 1) /\ Calm(<<Show(s)>>)
<1>1. << >> \in Settings /\ s \in Scenes \cup {"same"} /\ s # "idle"
  BY EmptyIs DEF Scenes
<1>2. "recording" \in DOMAIN << >> => << >>["recording"] = FALSE
  OBVIOUS
<1>3. {} \in SUBSET (Views \cup {"dim"})
  OBVIOUS
<1>. QED
  BY <1>1, <1>2, <1>3, OtherDrawing, Zenon DEF Show

(* The display goes off.                                                   *)
LEMMA SleepList ==
    ASSUME NEW r \in BOOLEAN
    PROVE  HandlerList(<<Op("off")>>, r, 1)
<1>. DEFINE d == Op("off")
<1>1. d \in StepKinds /\ d.op = "off" /\ ~IdleScreen(d) /\ ~Begins(d)
  BY OpIs
<1>. HIDE DEF d
<1>2. <<d>> \in Seq(StepKinds) /\ Len(<<d>>) = 1 /\ \A i \in 1 .. Len(<<d>>) : <<d>>[i] = d
  BY <1>1
<1>3. Together(<<d>>) /\ Whole(<<d>>)
  BY <1>1, <1>2 DEF Together, Whole
<1>4. Visible(<<d>>) /\ Ended(<<d>>, r)
  BY <1>1, <1>2 DEF Visible, Ended
<1>5. HandlerList(<<d>>, r, 1)
  BY <1>2, <1>3, <1>4 DEF HandlerList, AppList
<1>. QED
  BY <1>5 DEF d

(* Ready and the light, where no recording runs.                           *)
LEMMA ReadyLit ==
    ASSUME NEW r \in BOOLEAN, r = FALSE
    PROVE  HandlerList(Ready \o NoteActivity, r, 4) /\ Calm(Ready \o NoteActivity)
<1>1. HandlerList(NoteActivity, r, 3) /\ Calm(NoteActivity)
  BY Lighting
<1>. QED
  BY <1>1, ReadyList, Joined, 1 + 3 = 4

(* After any activity, and a drawing before it or after it.                *)
LEMMA Lit ==
    ASSUME NEW q, NEW r \in BOOLEAN, NEW n \in Nat, HandlerList(q, r, n)
    PROVE  HandlerList(NoteActivity \o q, r, 3 + n)
  BY Lighting, Joined

(* ... and the light after it.                                              *)
LEMMA Lights ==
    ASSUME NEW q, NEW r \in BOOLEAN, NEW n \in Nat, HandlerList(q, r, n), Calm(q)
    PROVE  HandlerList(q \o NoteActivity, r, n + 3) /\ Calm(q \o NoteActivity)
  BY Lighting, Joined

(* Whatever comes of stopping.                                             *)
LEMMA StopList ==
    ASSUME NEW steps \in StopSteps, NEW r \in BOOLEAN
    PROVE  HandlerList(steps, r, 5) /\ Calm(steps)
<1>. DEFINE d == Draw([recording |-> FALSE], "same", {"dim"})
<1>1. PICK rest \in {Busy("error"), Ready \o NoteActivity, << >>} : steps = <<d>> \o rest
  BY DEF StopSteps
<1>2. HandlerList(rest, FALSE, 4) /\ Calm(rest)
  <2>. /\ 0 \in Nat /\ 1 \in Nat /\ 4 \in Nat /\ 0 <= 4 /\ 1 <= 4
       /\ FALSE \in BOOLEAN /\ "error" \in {"error", "thinking"}
    OBVIOUS
  <2>1. CASE rest = Busy("error")
    BY <2>1, BusyList, Longer, Zenon
  <2>2. CASE rest = << >>
    BY <2>2, NothingToDo, Longer, Zenon
  <2>3. CASE rest = Ready \o NoteActivity
    BY <2>3, ReadyLit
  <2>. QED
    BY <1>1, <2>1, <2>2, <2>3
<1>3. /\ [recording |-> FALSE] \in Settings
      /\ "recording" \in DOMAIN [recording |-> FALSE]
      /\ [recording |-> FALSE]["recording"] = FALSE
  BY SettingsAre DEF UiStates
<1>4. HandlerList(<<d>>, r, 1) /\ Calm(<<d>>)
  <2>1. /\ "same" \in Scenes \cup {"same"} /\ "same" # "idle"
        /\ {"dim"} \in SUBSET (Views \cup {"dim"})
    OBVIOUS
  <2>. QED
    BY <1>3, <2>1, OtherDrawing, Zenon
<1>5. Ends(d)
  <2>1. d.op = "draw" /\ d.set = [recording |-> FALSE]
    BY DEF Draw, Drawing
  <2>. QED
    BY <1>3, <2>1 DEF Ends
<1>. HIDE DEF d
<1>6. 1 \in 1 .. Len(<<d>>) /\ Ends(<<d>>[1])
  BY <1>5
<1>7. HandlerList(<<d>> \o rest, r, 1 + 4) /\ Calm(<<d>> \o rest)
  BY <1>2, <1>4, <1>6, Joined
<1>. QED
  BY <1>1, <1>7

(* Whatever the application takes from its queue, its handler's list is in *)
(* order.                                                                  *)
LEMMA EventsAreInOrder ==
    ASSUME ScreenTypes, Events
    PROVE  /\ \E q : HandlerList(q, state.recording, 10) /\ Handle(q)
           /\ sync' \in {"off", "on", "told"}
<1>. DEFINE r == state.recording
            InOrder(q) == HandlerList(q, state.recording, 10)
<1>1. /\ state.recording \in BOOLEAN /\ FALSE \in BOOLEAN
      /\ sync \in {"off", "on", "told"}
  BY DEF ScreenTypes, AppStates
<1>2. /\ 0 \in Nat /\ 1 \in Nat /\ 2 \in Nat /\ 3 \in Nat /\ 4 \in Nat /\ 5 \in Nat
      /\ 8 \in Nat /\ 9 \in Nat /\ 10 \in Nat
      /\ 0 <= 10 /\ 1 <= 10 /\ 3 <= 10 /\ 4 <= 10 /\ 8 <= 10 /\ 10 <= 10 /\ 0 <= 5 /\ 1 <= 5
      /\ 3 + 0 = 3 /\ 3 + 1 = 4 /\ 3 + 5 = 8 /\ 1 + 3 = 4 /\ 4 + 1 = 5 /\ 1 + 5 = 6
  OBVIOUS
<1>3. /\ "error" \in {"error", "thinking"} /\ "thinking" \in {"error", "thinking"}
      /\ "syncing" \in {"syncing", "update"} /\ "update" \in {"syncing", "update"}
  OBVIOUS
<1>4. HandlerList(NoteActivity, r, 3) /\ Calm(NoteActivity)
  BY <1>1, Lighting
<1>5. InOrder(NoteActivity) /\ InOrder(<< >>)
  BY <1>1, <1>2, <1>4, NothingToDo, Longer, Zenon
<1>6. ASSUME NEW d, d \in StepKinds, d.op = "draw", d.scene # "idle",
             Begins(d) => d.scene = "recording"
      PROVE  /\ HandlerList(<<d>>, r, 1) /\ InOrder(<<d>>) /\ InOrder(NoteActivity \o <<d>>)
             /\ ~Begins(d) => Calm(<<d>>)
  <2>1. HandlerList(<<d>>, r, 1) /\ (~Begins(d) => Calm(<<d>>))
    BY <1>1, <1>6, OneDrawing DEF IdleScreen
  <2>2. HandlerList(NoteActivity \o <<d>>, r, 4)
    BY <1>1, <1>2, <2>1, Lit
  <2>. QED
    BY <1>1, <1>2, <2>1, <2>2, Longer, Zenon
<1>7. r = FALSE => /\ HandlerList(Ready, r, 1) /\ InOrder(Ready)
                   /\ InOrder(Ready \o NoteActivity)
  BY <1>1, <1>2, ReadyList, ReadyLit, Longer, Zenon
<1>8. \A s \in {"error", "thinking"} :
         /\ HandlerList(Busy(s), r, 1) /\ InOrder(Busy(s)) /\ InOrder(NoteActivity \o Busy(s))
         /\ Calm(Busy(s))
  <2>. SUFFICES ASSUME NEW s \in {"error", "thinking"}
                PROVE  /\ HandlerList(Busy(s), r, 1) /\ InOrder(Busy(s))
                       /\ InOrder(NoteActivity \o Busy(s)) /\ Calm(Busy(s))
    OBVIOUS
  <2>1. HandlerList(Busy(s), r, 1) /\ Calm(Busy(s))
    BY <1>1, BusyList
  <2>2. HandlerList(NoteActivity \o Busy(s), r, 4)
    BY <1>1, <1>2, <2>1, Lit
  <2>. QED
    BY <1>1, <1>2, <2>1, <2>2, Longer, Zenon
<1>9. \A s \in {"syncing", "update"} :
         /\ HandlerList(<<Show(s)>>, r, 1) /\ InOrder(<<Show(s)>>)
         /\ HandlerList(NoteActivity \o <<Show(s)>>, r, 4)
         /\ InOrder(NoteActivity \o <<Show(s)>>)
  <2>. SUFFICES ASSUME NEW s \in {"syncing", "update"}
                PROVE  /\ HandlerList(<<Show(s)>>, r, 1) /\ InOrder(<<Show(s)>>)
                       /\ HandlerList(NoteActivity \o <<Show(s)>>, r, 4)
                       /\ InOrder(NoteActivity \o <<Show(s)>>)
    OBVIOUS
  <2>1. HandlerList(<<Show(s)>>, r, 1)
    BY <1>1, ShowList
  <2>2. HandlerList(NoteActivity \o <<Show(s)>>, r, 4)
    BY <1>1, <1>2, <2>1, Lit
  <2>. QED
    BY <1>1, <1>2, <2>1, <2>2, Longer, Zenon
<1>10. CASE FrontDown
  <2>1. PICK steps : /\ Handle(NoteActivity \o steps) /\ UNCHANGED sync
                     /\ steps \in StopSteps \cup StartSteps \cup {<< >>}
    BY <1>10 DEF FrontDown
  <2>2. CASE steps \in StopSteps
    <3>1. HandlerList(NoteActivity \o steps, r, 8)
      BY <1>1, <1>2, <2>2, StopList, Lit
    <3>. QED
      BY <1>1, <1>2, <2>1, <3>1, Longer
  <2>3. CASE steps = << >>
    <3>1. HandlerList(NoteActivity \o steps, r, 3)
      BY <1>1, <1>2, <2>3, NothingToDo, Lit
    <3>. QED
      BY <1>1, <1>2, <2>1, <3>1, Longer
  <2>4. CASE steps = Busy("error")
    BY <1>1, <1>3, <1>8, <2>1, <2>4
  <2>5. CASE steps = <<Draw([recording |-> TRUE, ui |-> "recording"], "recording", {"dim"})>>
    <3>. DEFINE d == Draw([recording |-> TRUE, ui |-> "recording"], "recording", {"dim"})
    <3>1. [recording |-> TRUE, ui |-> "recording"] \in Settings
      BY SettingsAre DEF UiStates
    <3>2. d \in StepKinds /\ d.op = "draw" /\ d.scene = "recording"
      BY <3>1 DEF Draw, Drawing, StepKinds, Scenes
    <3>3. InOrder(NoteActivity \o <<d>>)
      BY <1>6, <3>2
    <3>. QED
      BY <1>1, <2>1, <2>5, <3>3
  <2>. QED
    BY <2>1, <2>2, <2>3, <2>4, <2>5 DEF StartSteps
<1>11. CASE Activity
  BY <1>1, <1>5, <1>11 DEF Activity
<1>12. CASE SideLong
  <2>1. PICK start \in {{"capacity"}, {}} :
           Handle(NoteActivity \o <<Draw(<< >>, "capacity", start)>>)
    BY <1>12 DEF SideLong
  <2>. DEFINE d == Draw(<< >>, "capacity", start)
  <2>2. d \in StepKinds /\ d.op = "draw" /\ d.scene = "capacity" /\ d.set = << >>
    BY <2>1, EmptyIs DEF Draw, Drawing, StepKinds, Scenes, Views
  <2>3. ~Begins(d)
    BY <2>2 DEF Begins
  <2>. HIDE DEF d
  <2>4. InOrder(NoteActivity \o <<d>>)
    BY <1>6, <2>2, <2>3
  <2>. QED
    BY <1>1, <1>12, <2>1, <2>4 DEF SideLong, d
<1>13. CASE SideShort
  BY <1>1, <1>3, <1>9, <1>13 DEF SideShort
<1>14. CASE SyncConnected
  BY <1>1, <1>3, <1>9, <1>14 DEF SyncConnected
<1>15. CASE SyncDone
  <2>. DEFINE d == Draw(<< >>, "result", {"result"})
  <2>1. d \in StepKinds /\ d.op = "draw" /\ d.scene = "result" /\ d.set = << >>
    BY EmptyIs DEF Draw, Drawing, StepKinds, Scenes, Views
  <2>2. ~Begins(d)
    BY <2>1 DEF Begins
  <2>. HIDE DEF d
  <2>3. InOrder(<<d>>)
    BY <1>6, <2>1, <2>2
  <2>. QED
    BY <1>15, <2>3 DEF SyncDone, d
<1>16. CASE UiState
  <2>1. CASE Handle(IF state.recording THEN << >> ELSE Ready \o NoteActivity)
    <3>1. CASE r = TRUE
      BY <1>1, <1>5, <1>16, <2>1, <3>1 DEF UiState
    <3>2. CASE r = FALSE
      BY <1>1, <1>7, <1>16, <2>1, <3>2 DEF UiState
    <3>. QED
      BY <1>1, <3>1, <3>2
  <2>2. ASSUME NEW s \in {"same", "recording"}, Handle(<<Draw([ui |-> "recording"], s, {})>>)
        PROVE  \E q : InOrder(q) /\ Handle(q)
    <3>. DEFINE d == Draw([ui |-> "recording"], s, {})
    <3>1. [ui |-> "recording"] \in Settings
      BY SettingsAre DEF UiStates
    <3>2. d \in StepKinds /\ d.op = "draw" /\ d.scene # "idle" /\ d.set = [ui |-> "recording"]
      BY <3>1 DEF Draw, Drawing, StepKinds, Scenes
    <3>3. ~Begins(d)
      BY <3>2 DEF Begins
    <3>. HIDE DEF d
    <3>4. InOrder(<<d>>)
      BY <1>6, <3>2, <3>3
    <3>. QED
      BY <2>2, <3>4 DEF d
  <2>3. CASE Handle(Busy("thinking")) \/ Handle(Busy("error"))
    BY <1>1, <1>3, <1>8, <1>16, <2>3 DEF UiState
  <2>4. (IF state.recording THEN "same" ELSE "recording") \in {"same", "recording"}
    OBVIOUS
  <2>. QED
    BY <1>1, <1>16, <2>1, <2>2, <2>3, <2>4 DEF UiState
<1>17. /\ HandlerList(Current, r, 1) /\ InOrder(Current) /\ InOrder(Current \o NoteActivity)
  <2>1. CASE r = TRUE
    <3>. DEFINE d == Draw([ui |-> "recording"], "recording", {})
    <3>1. [ui |-> "recording"] \in Settings
      BY SettingsAre DEF UiStates
    <3>2. d \in StepKinds /\ d.op = "draw" /\ d.scene # "idle" /\ d.set = [ui |-> "recording"]
      BY <3>1 DEF Draw, Drawing, StepKinds, Scenes
    <3>3. ~Begins(d)
      BY <3>2 DEF Begins
    <3>4. Current = <<d>>
      BY <2>1 DEF Current
    <3>. HIDE DEF d
    <3>5. HandlerList(<<d>>, r, 1) /\ InOrder(<<d>>) /\ Calm(<<d>>)
      BY <1>6, <3>2, <3>3
    <3>6. HandlerList(<<d>> \o NoteActivity, r, 4)
      BY <1>1, <1>2, <3>5, Lights
    <3>. QED
      BY <1>2, <3>4, <3>5, <3>6, Longer
  <2>2. CASE r = FALSE
    <3>1. Current = Ready
      BY <2>2 DEF Current
    <3>. QED
      BY <1>7, <2>2, <3>1
  <2>. QED
    BY <1>1, <2>1, <2>2
<1>18. CASE BleConnected
  BY <1>1, <1>17, <1>18 DEF BleConnected
<1>19. CASE BleDisconnected
  <2>1. CASE r = TRUE
    <3>. DEFINE d == Draw([updating |-> FALSE, ui |-> "recording"], "recording", {})
    <3>1. [updating |-> FALSE, ui |-> "recording"] \in Settings
      BY SettingsAre DEF UiStates
    <3>2. /\ d \in StepKinds /\ d.op = "draw" /\ d.scene # "idle"
          /\ d.set = [updating |-> FALSE, ui |-> "recording"]
      BY <3>1 DEF Draw, Drawing, StepKinds, Scenes
    <3>3. ~Begins(d)
      BY <3>2 DEF Begins
    <3>4. Handle(<<d>>) /\ UNCHANGED sync
      BY <1>19, <2>1 DEF BleDisconnected
    <3>. HIDE DEF d
    <3>5. InOrder(<<d>>)
      BY <1>6, <3>2, <3>3
    <3>. QED
      BY <1>1, <3>4, <3>5
  <2>2. CASE r = FALSE
    <3>. DEFINE d == Draw([updating |-> FALSE, ui |-> "ready"], "idle", {})
    <3>1. [updating |-> FALSE, ui |-> "ready"] \in Settings
      BY SettingsAre DEF UiStates
    <3>2. /\ d \in StepKinds /\ d.op = "draw"
          /\ d.set = [updating |-> FALSE, ui |-> "ready"]
      BY <3>1 DEF Draw, Drawing, StepKinds, Scenes
    <3>3. ~Begins(d)
      BY <3>2 DEF Begins
    <3>4. Handle(<<d>>) /\ UNCHANGED sync
      BY <1>19, <2>2 DEF BleDisconnected
    <3>. HIDE DEF d
    <3>5. HandlerList(<<d>>, r, 1)
      BY <1>1, <2>2, <3>2, <3>3, OneDrawing
    <3>. QED
      BY <1>1, <1>2, <3>4, <3>5, Longer
  <2>. QED
    BY <1>1, <2>1, <2>2
<1>20. CASE AudioError
  <2>. DEFINE d == Draw([recording |-> FALSE, ui |-> "busy"], "error", {"dim"})
  <2>1. [recording |-> FALSE, ui |-> "busy"] \in Settings
    BY SettingsAre DEF UiStates
  <2>2. /\ d \in StepKinds /\ d.op = "draw" /\ d.scene = "error"
        /\ d.set = [recording |-> FALSE, ui |-> "busy"]
    BY <2>1 DEF Draw, Drawing, StepKinds, Scenes
  <2>3. ~Begins(d)
    BY <2>2 DEF Begins
  <2>. HIDE DEF d
  <2>4. InOrder(<<d>>)
    BY <1>6, <2>2, <2>3
  <2>. QED
    BY <1>1, <1>20, <2>4 DEF AudioError, d
<1>21. CASE OtaBegin
  <2>. DEFINE d == Draw([updating |-> TRUE], "same", {})
  <2>1. [updating |-> TRUE] \in Settings
    BY SettingsAre DEF UiStates
  <2>2. d \in StepKinds /\ d.op = "draw" /\ d.scene = "same" /\ d.set = [updating |-> TRUE]
    BY <2>1 DEF Draw, Drawing, StepKinds
  <2>3. ~Begins(d)
    BY <2>2 DEF Begins
  <2>. HIDE DEF d
  <2>4. HandlerList(<<d>>, r, 1) /\ Calm(<<d>>)
    BY <1>6, <2>2, <2>3
  <2>5. PICK stop \in StopSteps \cup {<< >>} :
           Handle(<<d>> \o stop \o NoteActivity \o <<Show("update")>>)
    BY <1>21 DEF OtaBegin, d
  <2>6. HandlerList(stop, r, 5) /\ Calm(stop)
    <3>1. HandlerList(<< >>, r, 5) /\ Calm(<< >>)
      BY <1>1, <1>2, NothingToDo, Longer
    <3>. QED
      BY <1>1, <2>5, <3>1, StopList
  <2>7. HandlerList(<<d>> \o stop, r, 1 + 5) /\ Calm(<<d>> \o stop)
    BY <1>1, <2>4, <2>6, Joined
  <2>8. HandlerList(<<d>> \o stop \o NoteActivity, r, (1 + 5) + 3)
        /\ Calm(<<d>> \o stop \o NoteActivity)
    BY <1>1, <2>7, Lights
  <2>9. HandlerList(<<Show("update")>>, r, 1)
    BY <1>3, <1>9
  <2>10. HandlerList(<<d>> \o stop \o NoteActivity \o <<Show("update")>>, r, ((1 + 5) + 3) + 1)
    BY <1>1, <2>8, <2>9, Joined
  <2>. QED
    BY <1>1, <1>21, <2>5, <2>10 DEF OtaBegin
<1>22. CASE OtaProgress
  <2>. DEFINE d == Draw([updating |-> TRUE], "update", {})
  <2>1. [updating |-> TRUE] \in Settings
    BY SettingsAre DEF UiStates
  <2>2. d \in StepKinds /\ d.op = "draw" /\ d.scene = "update" /\ d.set = [updating |-> TRUE]
    BY <2>1 DEF Draw, Drawing, StepKinds, Scenes
  <2>3. ~Begins(d)
    BY <2>2 DEF Begins
  <2>. HIDE DEF d
  <2>4. InOrder(<<d>>)
    BY <1>6, <2>2, <2>3
  <2>. QED
    BY <1>1, <1>22, <2>4 DEF OtaProgress, d
<1>23. CASE OtaEnd
  <2>. DEFINE d == Drawing([updating |-> FALSE, ui |-> "ready"], "idle", {}, TRUE)
  <2>1. [updating |-> FALSE, ui |-> "ready"] \in Settings
    BY SettingsAre DEF UiStates
  <2>2. /\ d \in StepKinds /\ d.op = "draw" /\ ~IdleScreen(d)
        /\ d.set = [updating |-> FALSE, ui |-> "ready"]
    BY <2>1, BlindDrawIs
  <2>3. ~Begins(d)
    BY <2>2 DEF Begins
  <2>. HIDE DEF d
  <2>4. HandlerList(<<d>>, r, 1) /\ Calm(<<d>>)
    BY <1>1, <2>2, <2>3, OneDrawing
  <2>5. HandlerList(<<d>> \o NoteActivity, r, 1 + 3)
    BY <1>1, <2>4, Lights
  <2>6. InOrder(<<d>> \o NoteActivity)
    BY <1>1, <1>2, <2>5, Longer
  <2>. QED
    BY <1>1, <1>23, <2>6 DEF OtaEnd, d
<1>24. CASE OtaDone
  BY <1>1, <1>3, <1>9, <1>24 DEF OtaDone
<1>25. CASE EnterDeepSleep
  <2>1. PICK steps \in {<< >>, <<Op("off")>>} : Handle(steps) /\ UNCHANGED sync
    BY <1>25 DEF EnterDeepSleep
  <2>2. InOrder(<<Op("off")>>)
    BY <1>1, <1>2, SleepList, Longer
  <2>. QED
    BY <1>1, <1>5, <2>1, <2>2
<1>. QED
  BY <1>10, <1>11, <1>12, <1>13, <1>14, <1>15, <1>16, <1>18, <1>19, <1>20, <1>21, <1>22, <1>23,
     <1>24, <1>25
  DEF Events

-----------------------------------------------------------------------------
(* What the assignments of a drawing step leave of the application.        *)
LEMMA Assigned ==
    ASSUME NEW f \in Settings, NEW a \in AppStates, NEW b,
           b = [x \in DOMAIN a |-> IF x \in DOMAIN f THEN f[x] ELSE a[x]]
    PROVE  /\ b \in AppStates
           /\ b.recording = IF "recording" \in DOMAIN f THEN f["recording"] ELSE a.recording
<1>1. DOMAIN a = {"recording", "updating", "ui"}
  BY DEF AppStates
<1>2. /\ DOMAIN b = {"recording", "updating", "ui"}
      /\ \A x \in {"recording", "updating", "ui"} :
            b[x] = IF x \in DOMAIN f THEN f[x] ELSE a[x]
  BY <1>1
<1>3. /\ "recording" \in DOMAIN f => f["recording"] \in BOOLEAN
      /\ "updating" \in DOMAIN f => f["updating"] \in BOOLEAN
      /\ "ui" \in DOMAIN f => f["ui"] \in UiStates
  <2>1. CASE f = << >>
    BY <2>1
  <2>2. CASE \E r \in BOOLEAN : f = [recording |-> r]
    BY <2>2
  <2>3. CASE \E u \in UiStates : f = [ui |-> u]
    BY <2>3
  <2>4. CASE \E r \in BOOLEAN : f = [updating |-> r]
    BY <2>4
  <2>5. CASE \E r \in BOOLEAN, u \in UiStates : f = [recording |-> r, ui |-> u]
    BY <2>5
  <2>6. CASE \E r \in BOOLEAN, u \in UiStates : f = [updating |-> r, ui |-> u]
    BY <2>6
  <2>. QED
    BY <2>1, <2>2, <2>3, <2>4, <2>5, <2>6 DEF Settings
<1>4. a["recording"] \in BOOLEAN /\ a["updating"] \in BOOLEAN /\ a["ui"] \in UiStates
  BY DEF AppStates, UiStates
<1>5. b["recording"] \in BOOLEAN /\ b["updating"] \in BOOLEAN /\ b["ui"] \in UiStates
  BY <1>2, <1>3, <1>4
<1>6. b = [x \in {"recording", "updating", "ui"} |-> b[x]]
  BY <1>1, <1>2
<1>7. b \in AppStates
  BY <1>5, <1>6 DEF AppStates, UiStates
<1>. QED
  BY <1>2, <1>7

(* The short lists, without their first steps.                              *)
LEMMA ShortLists ==
    ASSUME NEW a, NEW b, NEW c
    PROVE  /\ SubSeq(<<a, b, c>>, 2, 3) = <<b, c>> /\ SubSeq(<<a, b, c>>, 4, 3) = << >>
           /\ SubSeq(<<b, c>>, 2, 2) = <<c>> /\ SubSeq(<<c>>, 2, 1) = << >>
<1>. DEFINE S == {a, b, c}
<1>0. /\ <<a, b, c>> \in Seq(S) /\ <<b, c>> \in Seq(S) /\ <<c>> \in Seq(S)
      /\ Len(<<a, b, c>>) = 3 /\ Len(<<b, c>>) = 2 /\ Len(<<c>>) = 1
  OBVIOUS
<1>1. SubSeq(<<a, b, c>>, 2, 3) = <<b, c>>
  <2>. DEFINE s == SubSeq(<<a, b, c>>, 2, 3)
  <2>1. s \in Seq(S) /\ Len(s) = 2 /\ s[1] = b /\ s[2] = c
    BY <1>0
  <2>2. \A i \in 1 .. Len(s) : s[i] = <<b, c>>[i]
    BY <2>1
  <2>. QED
    BY <1>0, <2>1, <2>2, SeqEqual
<1>2. SubSeq(<<a, b, c>>, 4, 3) = << >>
  OBVIOUS
<1>3. SubSeq(<<b, c>>, 2, 2) = <<c>>
  <2>. DEFINE s == SubSeq(<<b, c>>, 2, 2)
  <2>1. s \in Seq(S) /\ Len(s) = 1 /\ s[1] = c
    BY <1>0
  <2>2. \A i \in 1 .. Len(s) : s[i] = <<c>>[i]
    BY <2>1
  <2>. QED
    BY <1>0, <2>1, <2>2, SeqEqual
<1>4. SubSeq(<<c>>, 2, 1) = << >>
  OBVIOUS
<1>. QED
  BY <1>1, <1>2, <1>3, <1>4

(* The timer task's list, step by step.                                    *)
LEMMA TimerPasses ==
    ASSUME NEW q \in TimerLists, q # << >>
    PROVE  /\ q[1].op \in {"dim", "flag", "rest", "draw"} /\ Head(q) = q[1]
           /\ q[1].op = "dim" => /\ SubSeq(q, 2, Len(q)) = <<Op("flag"), Op("rest")>>
                                 /\ SubSeq(q, 4, Len(q)) = << >>
           /\ q[1].op = "flag" => SubSeq(q, 2, Len(q)) = <<Op("rest")>>
           /\ q[1].op \in {"rest", "draw"} => SubSeq(q, 2, Len(q)) = << >>
           /\ q[1].op = "draw" => q = <<ShowIdleBlindly>>
<1>1. CASE q = Dimming
  <2>0. q = <<Op("dim"), Op("flag"), Op("rest")>>
    BY <1>1 DEF Dimming
  <2>1. Len(q) = 3 /\ q[1] = Op("dim") /\ Head(q) = q[1]
    BY <2>0
  <2>2. SubSeq(q, 2, 3) = <<Op("flag"), Op("rest")>> /\ SubSeq(q, 4, 3) = << >>
    BY <2>0, ShortLists, Zenon
  <2>3. q[1].op = "dim"
    BY <2>1, OpIs
  <2>. QED
    BY <2>1, <2>2, <2>3
<1>2. CASE q = <<Op("flag"), Op("rest")>>
  <2>1. Len(q) = 2 /\ q[1] = Op("flag") /\ Head(q) = q[1]
    BY <1>2
  <2>2. SubSeq(q, 2, 2) = <<Op("rest")>>
    BY <1>2, ShortLists
  <2>3. q[1].op = "flag"
    BY <2>1, OpIs
  <2>. QED
    BY <2>1, <2>2, <2>3
<1>3. CASE q = <<Op("rest")>>
  BY <1>3 DEF Op
<1>4. CASE q = <<ShowIdleBlindly>>
  BY <1>4 DEF ShowIdleBlindly, Drawing
<1>. QED
  BY <1>1, <1>2, <1>3, <1>4 DEF TimerLists

(* What each task may be about to do.                                      *)
LEMMA NextOps ==
    ASSUME Lists
    PROVE  /\ \A t \in Tasks : todo[t] # << >> => Head(todo[t]) = todo[t][1]
           /\ todo["app"] # << >> => todo["app"][1].op \in {"wake", "flag", "rest", "off", "draw"}
           /\ todo["timer"] # << >> => todo["timer"][1].op \in {"dim", "flag", "rest", "draw"}
           /\ \A t \in {"ble", "main"} :
                 todo[t] # << >> => todo[t] = <<ShowIdleBlindly>> /\ todo[t][1].op = "draw"
<1>1. \A t \in Tasks : todo[t] \in Seq(StepKinds)
  BY DEF Lists
<1>2. \A t \in Tasks : todo[t] # << >> => Head(todo[t]) = todo[t][1]
  BY <1>1
<1>3. todo["app"] # << >> => todo["app"][1].op \in {"wake", "flag", "rest", "off", "draw"}
  <2>1. todo["app"] \in Seq(StepKinds) /\ Together(todo["app"])
    BY <1>1 DEF Tasks, Lists, AppList
  <2>2. todo["app"] # << >> => 1 \in 1 .. Len(todo["app"]) /\ todo["app"][1] \in StepKinds
    BY <2>1
  <2>. QED
    BY <2>1, <2>2 DEF Together, StepKinds
<1>4. todo["timer"] # << >> => todo["timer"][1].op \in {"dim", "flag", "rest", "draw"}
  BY TimerPasses DEF Lists
<1>5. ASSUME NEW t \in {"ble", "main"}, todo[t] # << >>
      PROVE  todo[t] = <<ShowIdleBlindly>> /\ todo[t][1].op = "draw"
  <2>1. todo[t] = <<ShowIdleBlindly>>
    BY <1>5 DEF Lists, DrawLists
  <2>. QED
    BY <2>1 DEF ShowIdleBlindly, Drawing
<1>. QED
  BY <1>2, <1>3, <1>4, <1>5

(* A task takes a step of its list, or skips what is not necessary.        *)
LEMMA AppSkips ==
    ASSUME Lists, NEW n \in {1, 3}, Skip("app", n), todo["app"] # << >>,
           n = 3 => todo["app"][1].op = "wake",
           state.recording \in BOOLEAN, state'.recording \in BOOLEAN,
           \/ /\ state'.recording = state.recording
              /\ ~Begins(todo["app"][1]) /\ ~Ends(todo["app"][1])
           \/ state'.recording = TRUE /\ Begins(todo["app"][1])
           \/ state'.recording = FALSE /\ Ends(todo["app"][1])
    PROVE  /\ Lists'
           /\ todo'["timer"] = todo["timer"]
           /\ todo'["app"] # << >> /\ todo'["app"][1].op = "flag" =>
                 n = 1 /\ todo["app"][1].op = "wake"
           /\ todo'["app"] # << >> /\ todo'["app"][1].op = "rest" =>
                 n = 1 /\ todo["app"][1].op = "flag"
           /\ n = 1 /\ todo["app"][1].op = "wake" =>
                 todo'["app"] # << >> /\ todo'["app"][1].op = "flag"
           /\ n = 1 /\ todo["app"][1].op = "flag" =>
                 todo'["app"] # << >> /\ todo'["app"][1].op = "rest"
<1>. DEFINE q == todo["app"]
            rest == SubSeq(q, n + 1, Len(q))
<1>1. todo \in [Tasks -> Seq(StepKinds)] /\ Len(q) <= 10 /\ AppList(q, state.recording)
  BY DEF Lists
<1>2. /\ todo' = [todo EXCEPT !["app"] = rest]
      /\ "app" \in Tasks /\ "timer" \in Tasks /\ "ble" \in Tasks /\ "main" \in Tasks
  BY DEF Skip, Tasks
<1>3. q \in Seq(StepKinds)
  BY <1>1, <1>2
<1>4. n \in 1 .. Len(q)
  <2>1. Together(q) /\ 1 \in 1 .. Len(q) /\ Len(q) \in Nat
    BY <1>1, <1>3 DEF AppList
  <2>2. n = 3 => 3 <= Len(q)
    BY <2>1 DEF Together
  <2>. QED
    BY <2>1, <2>2
<1>5. rest \in Seq(StepKinds) /\ Len(rest) = Len(q) - n
  BY <1>3, <1>4, Left
<1>6. AppList(rest, state'.recording) /\ Follows(q, n, rest)
  <2>1. n = 1 \/ (n = 3 /\ q[1].op = "wake")
    OBVIOUS
  <2>2. \/ state'.recording = state.recording /\ ~Begins(q[1]) /\ ~Ends(q[1])
        \/ state'.recording = TRUE /\ Begins(q[1])
        \/ state'.recording = FALSE /\ Ends(q[1])
    OBVIOUS
  <2>. HIDE DEF q
  <2>. QED
    BY <1>1, <1>3, <1>4, <2>1, <2>2, Passed, Zenon
<1>. HIDE DEF q, rest
<1>7. /\ todo' \in [Tasks -> Seq(StepKinds)]
      /\ todo'["app"] = rest /\ todo'["timer"] = todo["timer"]
      /\ todo'["ble"] = todo["ble"] /\ todo'["main"] = todo["main"]
  BY <1>1, <1>2, <1>5 DEF Tasks
<1>8. Len(rest) <= 10
  BY <1>1, <1>3, <1>4, <1>5
<1>9. Lists'
  BY <1>6, <1>7, <1>8 DEF Lists
<1>. QED
  BY <1>6, <1>7, <1>9 DEF q, Follows

(* The timer task takes a step of its list, or skips it all.                *)
LEMMA TimerSkips ==
    ASSUME Lists, NEW n \in {1, 3}, Skip("timer", n), todo["timer"] # << >>,
           n = 3 => todo["timer"][1].op = "dim",
           state'.recording = state.recording
    PROVE  /\ Lists'
           /\ todo'["app"] = todo["app"]
           /\ todo'["timer"] # << >> =>
                 /\ n = 1 /\ todo'["timer"][1].op \in {"flag", "rest"}
                 /\ todo'["timer"][1].op = "flag" => todo["timer"][1].op = "dim"
                 /\ todo'["timer"][1].op = "rest" => todo["timer"][1].op = "flag"
           /\ n = 1 /\ todo["timer"][1].op = "dim" =>
                 todo'["timer"] # << >> /\ todo'["timer"][1].op = "flag"
           /\ todo["timer"][1].op = "flag" =>
                 todo'["timer"] # << >> /\ todo'["timer"][1].op = "rest"
<1>. DEFINE q == todo["timer"]
            rest == SubSeq(q, n + 1, Len(q))
<1>1. todo \in [Tasks -> Seq(StepKinds)] /\ q \in TimerLists
  BY DEF Lists
<1>2. todo' = [todo EXCEPT !["timer"] = rest]
  BY DEF Skip, Tasks
<1>3. /\ q[1].op \in {"dim", "flag", "rest", "draw"}
      /\ q[1].op = "dim" => rest = IF n = 1 THEN <<Op("flag"), Op("rest")>> ELSE << >>
      /\ q[1].op = "flag" => rest = <<Op("rest")>>
      /\ q[1].op \in {"rest", "draw"} => rest = << >>
  <2>1. CASE n = 1
    <3>1. rest = SubSeq(q, 2, Len(q))
      BY <2>1
    <3>. QED
      BY <1>1, <2>1, <3>1, TimerPasses
  <2>2. CASE n = 3
    <3>1. rest = SubSeq(q, 4, Len(q))
      BY <2>2
    <3>. QED
      BY <1>1, <2>2, <3>1, TimerPasses
  <2>. QED
    BY <2>1, <2>2
<1>. HIDE DEF q, rest
<1>4. /\ rest \in {<<Op("flag"), Op("rest")>>, <<Op("rest")>>, << >>}
      /\ rest = <<Op("flag"), Op("rest")>> => n = 1 /\ q[1].op = "dim"
      /\ rest = <<Op("rest")>> => n = 1 /\ q[1].op = "flag"
  BY <1>3 DEF q
<1>5. /\ rest = <<Op("flag"), Op("rest")>> => rest[1].op = "flag"
      /\ rest = <<Op("rest")>> => rest[1].op = "rest"
      /\ rest \in Seq(StepKinds) /\ rest \in TimerLists
  <2>1. Op("flag").op = "flag" /\ Op("rest").op = "rest"
    BY OpIs
  <2>2. Op("flag") \in StepKinds /\ Op("rest") \in StepKinds
    BY OpIs
  <2>3. rest \in Seq(StepKinds)
    <3>1. /\ <<Op("flag"), Op("rest")>> \in Seq(StepKinds)
          /\ <<Op("rest")>> \in Seq(StepKinds) /\ << >> \in Seq(StepKinds)
      BY <2>2
    <3>. QED
      BY <1>4, <3>1
  <2>4. rest \in TimerLists
    BY <1>4 DEF TimerLists
  <2>. QED
    BY <2>1, <2>3, <2>4
<1>6. /\ todo' \in [Tasks -> Seq(StepKinds)]
      /\ todo'["app"] = todo["app"] /\ todo'["timer"] = rest
      /\ todo'["ble"] = todo["ble"] /\ todo'["main"] = todo["main"]
  BY <1>1, <1>2, <1>5 DEF Tasks
<1>7. Lists'
  BY <1>5, <1>6 DEF Lists
<1>. QED
  BY <1>3, <1>4, <1>5, <1>6, <1>7 DEF q

(* The BLE host and app_main have one step to take.                         *)
LEMMA DrawerSkips ==
    ASSUME Lists, NEW t \in {"ble", "main"}, Skip(t, 1), todo[t] # << >>,
           state'.recording = state.recording
    PROVE  Lists' /\ todo'["app"] = todo["app"] /\ todo'["timer"] = todo["timer"]
<1>1. todo[t] = <<ShowIdleBlindly>> /\ todo \in [Tasks -> Seq(StepKinds)]
  BY NextOps DEF Lists
<1>2. SubSeq(todo[t], 1 + 1, Len(todo[t])) = << >>
  <2>1. Len(todo[t]) = 1 /\ 1 + 1 = 2
    BY <1>1
  <2>2. SubSeq(<<ShowIdleBlindly>>, 2, 1) = << >>
    BY ShortLists
  <2>. QED
    BY <1>1, <2>1, <2>2
<1>3. todo' = [todo EXCEPT ![t] = << >>]
  BY <1>2 DEF Skip
<1>4. /\ todo' \in [Tasks -> Seq(StepKinds)]
      /\ todo'["app"] = todo["app"] /\ todo'["timer"] = todo["timer"]
      /\ \A u \in {"ble", "main"} : todo'[u] = todo[u] \/ todo'[u] = << >>
  BY <1>1, <1>3 DEF Tasks
<1>. QED
  BY <1>4 DEF Lists, DrawLists

-----------------------------------------------------------------------------
(* A step that has nothing to do with the light, or with the picture.      *)
LEMMA SameLight ==
    ASSUME Backlight, Face, UNCHANGED light,
           Is("app", "flag")' <=> Is("app", "flag"), Is("app", "rest")' <=> Is("app", "rest"),
           Is("timer", "dim")' <=> Is("timer", "dim"),
           Is("timer", "flag")' <=> Is("timer", "flag"),
           Is("timer", "rest")' <=> Is("timer", "rest")
    PROVE  Backlight' /\ Face'
<1>1. /\ s_display_dimmed' = s_display_dimmed /\ brightness' = brightness
      /\ s_dimmed' = s_dimmed /\ crossed' = crossed
  BY DEF light
<1>. QED
  BY <1>1, Zenon DEF Backlight, Face, Neither

(* A step that draws nothing and takes no timer of a view away.             *)
LEMMA SamePicture ==
    ASSUME Looks, GivesWay, UNCHANGED picture, state'.recording = state.recording,
           \A v \in Views : v \in armed => v \in armed',
           Is("timer", "draw") => Is("timer", "draw")'
    PROVE  Looks' /\ GivesWay'
<1>1. scene' = scene /\ overdrawn' = overdrawn /\ kept' = kept
  BY DEF picture
<1>. QED
  BY <1>1 DEF Looks, GivesWay

(* Starting timers takes none away.                                        *)
LEMMA TimersStart ==
    ASSUME NEW start \in SUBSET (Views \cup {"dim"}), armed \subseteq Views \cup {"dim"}
    PROVE  /\ Started(start) \subseteq Views \cup {"dim"}
           /\ \A v \in Views : v \in armed \/ v \in start => v \in Started(start)
  BY DEF Started, Views

(* note_activity lights the display, or finds nothing to light.             *)
LEMMA WakeKeeps ==
    ASSUME ScreenInv, NEW t \in Tasks, Wake(t)
    PROVE  ScreenInv'
<1>0. ScreenTypes /\ Lists /\ Backlight /\ Face /\ Looks /\ GivesWay
  BY DEF ScreenInv
<1>1. t = "app" /\ todo["app"] # << >> /\ todo["app"][1].op = "wake"
  BY <1>0, NextOps DEF Wake, Is, Tasks
<1>2. /\ UNCHANGED <<state, sync, s_display_dimmed, s_dimmed, crossed, picture>>
      /\ state'.recording = state.recording /\ state.recording \in BOOLEAN
      /\ ~Begins(todo["app"][1]) /\ ~Ends(todo["app"][1])
  BY <1>0, <1>1 DEF Wake, ScreenTypes, AppStates, Begins, Ends
<1>3. PICK n \in {1, 3} :
         /\ Skip("app", n)
         /\ n = 1 => s_display_dimmed = TRUE /\ brightness' = "full" /\ armed' = armed
         /\ n = 3 => brightness' = brightness /\ armed' = Started({"dim"})
  BY <1>0, <1>1 DEF Wake, ScreenTypes
<1>4. /\ Lists' /\ todo'["timer"] = todo["timer"]
      /\ todo'["app"] # << >> /\ todo'["app"][1].op = "flag" => n = 1
      /\ n = 1 => todo'["app"] # << >> /\ todo'["app"][1].op = "flag"
      /\ todo'["app"] # << >> => todo'["app"][1].op # "rest"
  BY <1>0, <1>1, <1>2, <1>3, AppSkips
<1>5. /\ \A v \in Views : v \in armed => v \in armed'
      /\ armed' \subseteq Views \cup {"dim"}
  BY <1>0, <1>3, TimersStart DEF ScreenTypes
<1>6. /\ Is("timer", "dim")' <=> Is("timer", "dim")
      /\ Is("timer", "flag")' <=> Is("timer", "flag")
      /\ Is("timer", "rest")' <=> Is("timer", "rest")
      /\ Is("timer", "draw")' <=> Is("timer", "draw")
  BY <1>4 DEF Is
<1>7. /\ Is("app", "flag")' <=> n = 1
      /\ ~Is("app", "rest")' /\ ~Is("app", "flag") /\ ~Is("app", "rest")
  BY <1>1, <1>4 DEF Is, Lists, Tasks
<1>8. Looks' /\ GivesWay'
  BY <1>0, <1>2, <1>5, <1>6, SamePicture
<1>9. Face'
  BY <1>0, <1>2, <1>6, <1>7, Zenon DEF Face, Neither
<1>10. Backlight'
  <2>1. CASE n = 1
    <3>1. ~Is("timer", "dim") /\ ~Is("timer", "flag")
      BY <1>0, <1>3, <2>1 DEF Backlight
    <3>. QED
      BY <1>2, <1>3, <1>6, <1>7, <2>1, <3>1, Zenon DEF Backlight
  <2>2. CASE n = 3
    BY <1>0, <1>2, <1>3, <1>6, <1>7, <2>2, Zenon DEF Backlight
  <2>. QED
    BY <2>1, <2>2
<1>11. ScreenTypes'
  BY <1>0, <1>2, <1>3, <1>5 DEF ScreenTypes, picture
<1>. QED
  BY <1>4, <1>8, <1>9, <1>10, <1>11 DEF ScreenInv

(* main.c's flag follows the backlight, of whichever task set it.           *)
LEMMA FlagKeeps ==
    ASSUME ScreenInv, NEW t \in Tasks, Flag(t)
    PROVE  ScreenInv'
<1>0. ScreenTypes /\ Lists /\ Backlight /\ Face /\ Looks /\ GivesWay
  BY DEF ScreenInv
<1>1. t \in {"app", "timer"} /\ todo[t] # << >> /\ todo[t][1].op = "flag" /\ Is(t, "flag")
  BY <1>0, NextOps DEF Flag, Is, Tasks
<1>2. /\ UNCHANGED <<state, sync, brightness, s_dimmed, picture, armed>> /\ Skip(t, 1)
      /\ state'.recording = state.recording /\ state.recording \in BOOLEAN
      /\ ~Begins(todo[t][1]) /\ ~Ends(todo[t][1])
  BY <1>0, <1>1 DEF Flag, ScreenTypes, AppStates, Begins, Ends
<1>3. /\ s_display_dimmed' \in BOOLEAN /\ crossed' \in BOOLEAN
      /\ t = "app" => s_display_dimmed' = FALSE /\ (crossed' = FALSE => ~Is("timer", "rest"))
      /\ t = "timer" => s_display_dimmed' = TRUE /\ (crossed' = FALSE => ~Is("app", "rest"))
  BY <1>1 DEF Flag, Tasks
<1>4. ScreenTypes'
  BY <1>0, <1>2, <1>3 DEF ScreenTypes, picture
<1>5. CASE t = "app"
  <2>1. /\ Lists' /\ todo'["timer"] = todo["timer"]
        /\ todo'["app"] # << >> /\ todo'["app"][1].op = "rest"
    <3>1. /\ Skip("app", 1) /\ todo["app"] # << >> /\ todo["app"][1].op = "flag"
          /\ ~Begins(todo["app"][1]) /\ ~Ends(todo["app"][1])
      BY <1>1, <1>2, <1>5
    <3>2. state'.recording \in BOOLEAN /\ 1 \in {1, 3} /\ 1 # 3
      BY <1>2
    <3>. QED
      BY <1>0, <1>2, <3>1, <3>2, AppSkips
  <2>2. /\ Is("timer", "dim")' <=> Is("timer", "dim")
        /\ Is("timer", "flag")' <=> Is("timer", "flag")
        /\ Is("timer", "rest")' <=> Is("timer", "rest")
        /\ Is("timer", "draw")' <=> Is("timer", "draw")
    BY <2>1 DEF Is
  <2>3. Is("app", "rest")' /\ ~Is("app", "flag")'
    BY <2>1 DEF Is, Lists, Tasks
  <2>4. s_display_dimmed = TRUE /\ brightness = "full" /\ brightness' = "full"
    BY <1>0, <1>1, <1>2, <1>5 DEF Backlight
  <2>5. ~Is("timer", "dim") /\ ~Is("timer", "flag")
    BY <1>0, <2>4 DEF Backlight
  <2>6. Backlight'
    BY <1>3, <1>5, <2>2, <2>3, <2>4, <2>5, Zenon DEF Backlight
  <2>7. Face'
    BY <1>3, <1>5, <2>2, <2>3, Zenon DEF Face, Neither
  <2>8. Looks' /\ GivesWay'
    BY <1>0, <1>2, <2>2, SamePicture
  <2>. QED
    BY <1>4, <2>1, <2>6, <2>7, <2>8 DEF ScreenInv
<1>6. CASE t = "timer"
  <2>1. /\ Lists' /\ todo'["app"] = todo["app"]
        /\ todo'["timer"] # << >> /\ todo'["timer"][1].op = "rest"
    BY <1>0, <1>1, <1>2, <1>6, TimerSkips
  <2>2. /\ Is("app", "flag")' <=> Is("app", "flag")
        /\ Is("app", "rest")' <=> Is("app", "rest")
    BY <2>1 DEF Is
  <2>3. Is("timer", "rest")' /\ ~Is("timer", "flag")' /\ ~Is("timer", "dim")'
    BY <2>1 DEF Is, Lists, Tasks
  <2>4. s_display_dimmed = FALSE /\ brightness' \in {"dim", "off"}
    BY <1>0, <1>1, <1>2, <1>6 DEF Backlight, ScreenTypes
  <2>5. ~Is("app", "flag") /\ ~Is("timer", "draw")
    BY <1>0, <1>1, <1>6, <2>4 DEF Backlight, Is, Lists, Tasks
  <2>6. Backlight'
    BY <1>3, <1>6, <2>2, <2>3, <2>4, <2>5, Zenon DEF Backlight
  <2>7. Face'
    BY <1>3, <1>6, <2>2, <2>3, Zenon DEF Face, Neither
  <2>8. Looks' /\ GivesWay'
    BY <1>0, <1>2, <2>5, SamePicture
  <2>. QED
    BY <1>4, <2>1, <2>6, <2>7, <2>8 DEF ScreenInv
<1>. QED
  BY <1>1, <1>5, <1>6

(* The sleeping face comes or goes.                                         *)
LEMMA RestKeeps ==
    ASSUME ScreenInv, NEW t \in Tasks, Rest(t)
    PROVE  ScreenInv'
<1>0. ScreenTypes /\ Lists /\ Backlight /\ Face /\ Looks /\ GivesWay
  BY DEF ScreenInv
<1>1. t \in {"app", "timer"} /\ todo[t] # << >> /\ todo[t][1].op = "rest" /\ Is(t, "rest")
  BY <1>0, NextOps DEF Rest, Is, Tasks
<1>2. /\ UNCHANGED <<state, sync, s_display_dimmed, brightness, crossed, picture>> /\ Skip(t, 1)
      /\ state'.recording = state.recording /\ state.recording \in BOOLEAN
      /\ ~Begins(todo[t][1]) /\ ~Ends(todo[t][1])
  BY <1>0, <1>1 DEF Rest, ScreenTypes, AppStates, Begins, Ends
<1>3. /\ s_dimmed' \in BOOLEAN
      /\ t = "app" => s_dimmed' = FALSE
      /\ t = "timer" => s_dimmed' = TRUE
  BY <1>1 DEF Rest
<1>4. /\ \A v \in Views : v \in armed => v \in armed'
      /\ armed' \subseteq Views \cup {"dim"}
  <2>1. PICK start \in SUBSET (Views \cup {"dim"}) : armed' = Started(start)
    BY DEF Rest
  <2>. QED
    BY <1>0, <2>1, TimersStart DEF ScreenTypes
<1>5. ScreenTypes'
  BY <1>0, <1>2, <1>3, <1>4 DEF ScreenTypes, picture
<1>6. CASE t = "app"
  <2>1. /\ Lists' /\ todo'["timer"] = todo["timer"]
        /\ todo'["app"] # << >> => todo'["app"][1].op \notin {"flag", "rest"}
    <3>1. /\ Skip("app", 1) /\ todo["app"] # << >> /\ todo["app"][1].op = "rest"
          /\ ~Begins(todo["app"][1]) /\ ~Ends(todo["app"][1])
      BY <1>1, <1>2, <1>6
    <3>2. state'.recording \in BOOLEAN /\ 1 \in {1, 3} /\ 1 # 3
      BY <1>2
    <3>. QED
      BY <1>0, <1>2, <3>1, <3>2, AppSkips
  <2>2. /\ Is("timer", "dim")' <=> Is("timer", "dim")
        /\ Is("timer", "flag")' <=> Is("timer", "flag")
        /\ Is("timer", "rest")' <=> Is("timer", "rest")
        /\ Is("timer", "draw")' <=> Is("timer", "draw")
    BY <2>1 DEF Is
  <2>3. ~Is("app", "rest")' /\ ~Is("app", "flag")' /\ ~Is("app", "flag")
    BY <1>1, <1>6, <2>1 DEF Is, Lists, Tasks
  <2>4. Backlight'
    BY <1>0, <1>2, <2>2, <2>3, Zenon DEF Backlight
  <2>5. crossed = FALSE => s_display_dimmed = FALSE /\ ~Is("timer", "rest")
    BY <1>0, <1>1, <1>6 DEF Face
  <2>6. Face'
    BY <1>2, <1>3, <1>6, <2>2, <2>3, <2>5, Zenon DEF Face, Neither
  <2>7. Looks' /\ GivesWay'
    BY <1>0, <1>2, <1>4, <2>2, SamePicture
  <2>. QED
    BY <1>5, <2>1, <2>4, <2>6, <2>7 DEF ScreenInv
<1>7. CASE t = "timer"
  <2>1. Lists' /\ todo'["app"] = todo["app"] /\ todo'["timer"] = << >>
    BY <1>0, <1>1, <1>2, <1>7, TimerSkips
  <2>2. /\ Is("app", "flag")' <=> Is("app", "flag")
        /\ Is("app", "rest")' <=> Is("app", "rest")
    BY <2>1 DEF Is
  <2>3. /\ ~Is("timer", "rest")' /\ ~Is("timer", "flag")' /\ ~Is("timer", "dim")'
        /\ ~Is("timer", "flag") /\ ~Is("timer", "draw")
    BY <1>1, <1>7, <2>1 DEF Is, Lists, Tasks
  <2>4. Backlight'
    BY <1>0, <1>2, <2>2, <2>3, Zenon DEF Backlight
  <2>5. crossed = FALSE => s_display_dimmed = TRUE /\ ~Is("app", "rest")
    BY <1>0, <1>1, <1>7 DEF Face
  <2>6. Face'
    BY <1>2, <1>3, <1>7, <2>2, <2>3, <2>5, Zenon DEF Face, Neither
  <2>7. Looks' /\ GivesWay'
    BY <1>0, <1>2, <1>4, <2>3, SamePicture
  <2>. QED
    BY <1>5, <2>1, <2>4, <2>6, <2>7 DEF ScreenInv
<1>. QED
  BY <1>1, <1>6, <1>7

(* The timer dims the display, or the call fails.                           *)
LEMMA DimKeeps ==
    ASSUME ScreenInv, NEW t \in Tasks, Dim(t)
    PROVE  ScreenInv'
<1>0. ScreenTypes /\ Lists /\ Backlight /\ Face /\ Looks /\ GivesWay
  BY DEF ScreenInv
<1>1. t = "timer" /\ todo[t] # << >> /\ todo[t][1].op = "dim" /\ Is("timer", "dim")
  BY <1>0, NextOps DEF Dim, Is, Tasks
<1>2. /\ UNCHANGED <<state, sync, s_display_dimmed, s_dimmed, crossed, picture, armed>>
      /\ state'.recording = state.recording
  BY DEF Dim
<1>3. PICK n \in {1, 3} :
         /\ Skip("timer", n)
         /\ n = 1 => brightness' = "dim"
         /\ n = 3 => brightness' = brightness
  BY <1>1 DEF Dim
<1>4. /\ Lists' /\ todo'["app"] = todo["app"]
      /\ n = 1 => todo'["timer"] # << >> /\ todo'["timer"][1].op = "flag"
      /\ n = 3 => todo'["timer"] = << >>
  BY <1>0, <1>1, <1>2, <1>3, TimerSkips
<1>5. /\ Is("app", "flag")' <=> Is("app", "flag")
      /\ Is("app", "rest")' <=> Is("app", "rest")
  BY <1>4 DEF Is
<1>6. /\ ~Is("timer", "rest")' /\ ~Is("timer", "dim")'
      /\ Is("timer", "flag")' <=> n = 1
      /\ ~Is("timer", "rest") /\ ~Is("timer", "flag") /\ ~Is("timer", "draw")
  BY <1>1, <1>4 DEF Is, Lists, Tasks
<1>7. s_display_dimmed = FALSE /\ brightness # "dim" /\ ~Is("app", "flag")
  BY <1>0, <1>1 DEF Backlight
<1>8. Backlight'
  <2>1. CASE n = 1
    <3>1. brightness' = "dim" /\ "dim" # "full"
      BY <1>3, <2>1
    <3>. QED
      BY <1>2, <1>5, <1>6, <1>7, <2>1, <3>1, Zenon DEF Backlight
  <2>2. CASE n = 3
    <3>1. ~Is("timer", "flag")' /\ brightness' # "dim"
      BY <1>3, <1>6, <1>7, <2>2
    <3>. QED
      BY <1>2, <1>5, <1>6, <1>7, <3>1, Zenon DEF Backlight
  <2>. QED
    BY <2>1, <2>2
<1>9. Face'
  BY <1>0, <1>2, <1>5, <1>6, Zenon DEF Face, Neither
<1>10. Looks' /\ GivesWay'
  BY <1>0, <1>2, <1>6, SamePicture
<1>11. ScreenTypes'
  BY <1>0, <1>2, <1>3 DEF ScreenTypes, picture
<1>. QED
  BY <1>4, <1>8, <1>9, <1>10, <1>11 DEF ScreenInv

(* The backlight goes off for a sleep: whatever the timer is doing to it.   *)
LEMMA OffKeeps ==
    ASSUME ScreenInv, NEW t \in Tasks, Off(t)
    PROVE  ScreenInv'
<1>0. ScreenTypes /\ Lists /\ Backlight /\ Face /\ Looks /\ GivesWay
  BY DEF ScreenInv
<1>1. t = "app" /\ todo["app"] # << >> /\ todo["app"][1].op = "off"
  BY <1>0, NextOps DEF Off, Is, Tasks
<1>2. /\ UNCHANGED <<state, sync, s_display_dimmed, s_dimmed, crossed, picture, armed>>
      /\ Skip("app", 1)
      /\ state'.recording = state.recording /\ state.recording \in BOOLEAN
      /\ ~Begins(todo["app"][1]) /\ ~Ends(todo["app"][1])
  BY <1>0, <1>1 DEF Off, ScreenTypes, AppStates, Begins, Ends
<1>3. brightness' = "off" \/ brightness' = brightness
  BY DEF Off
<1>4. /\ Lists' /\ todo'["timer"] = todo["timer"]
      /\ todo'["app"] # << >> => todo'["app"][1].op \notin {"flag", "rest"}
  <2>1. 1 \in {1, 3} /\ 1 # 3 /\ state'.recording \in BOOLEAN
    BY <1>2
  <2>. QED
    BY <1>0, <1>1, <1>2, <2>1, AppSkips
<1>5. /\ Is("timer", "dim")' <=> Is("timer", "dim")
      /\ Is("timer", "flag")' <=> Is("timer", "flag")
      /\ Is("timer", "rest")' <=> Is("timer", "rest")
      /\ Is("timer", "draw")' <=> Is("timer", "draw")
  BY <1>4 DEF Is
<1>6. /\ ~Is("app", "flag") /\ ~Is("app", "rest")
      /\ ~Is("app", "flag")' /\ ~Is("app", "rest")'
  BY <1>1, <1>4 DEF Is, Lists, Tasks
<1>7. Backlight'
  <2>1. "off" # "dim" /\ "off" # "full"
    OBVIOUS
  <2>. QED
    BY <1>0, <1>2, <1>3, <1>5, <1>6, <2>1, Zenon DEF Backlight
<1>8. Face'
  BY <1>0, <1>2, <1>5, <1>6, Zenon DEF Face, Neither
<1>9. Looks' /\ GivesWay'
  BY <1>0, <1>2, <1>5, SamePicture
<1>10. ScreenTypes'
  BY <1>0, <1>2, <1>3 DEF ScreenTypes, picture
<1>. QED
  BY <1>4, <1>7, <1>8, <1>9, <1>10 DEF ScreenInv

(* A task draws: what it assigns, starts and shows.                         *)
LEMMA DrawnKeeps ==
    ASSUME ScreenInv, NEW t \in Tasks, Drawn(t)
    PROVE  ScreenInv'
<1>0. ScreenTypes /\ Lists /\ Backlight /\ Face /\ Looks /\ GivesWay
  BY DEF ScreenInv
<1>. DEFINE step == todo[t][1]
<1>1. /\ todo[t] \in Seq(StepKinds) /\ todo[t] # << >> /\ Head(todo[t]) = step
      /\ step \in StepKinds /\ step.op = "draw" /\ Is(t, "draw")
  <2>1. todo[t] \in Seq(StepKinds) /\ todo[t] # << >>
    BY <1>0 DEF Lists, Drawn, Is
  <2>2. Head(todo[t]) = step
    BY <1>0, <2>1, NextOps
  <2>. QED
    BY <2>1, <2>2 DEF Drawn, Is
<1>2. /\ UNCHANGED <<sync, light>> /\ Skip(t, 1)
      /\ state' = [f \in DOMAIN state |->
                     IF f \in DOMAIN step.set THEN step.set[f] ELSE state[f]]
      /\ armed' = Started(step.start)
      /\ scene' = IF step.scene = "same" THEN scene ELSE step.scene
      /\ overdrawn' = (state'.recording /\ (IF step.scene = "same" THEN overdrawn ELSE step.blind))
      /\ kept' = IF step.scene = "same" THEN kept ELSE scene' \in Views \ step.start
  BY <1>1, Zenon DEF Drawn
<1>3. /\ step.set \in Settings /\ step.start \in SUBSET (Views \cup {"dim"})
      /\ step.scene \in Scenes \cup {"same"} /\ step.blind \in BOOLEAN
  BY <1>1 DEF StepKinds
<1>4. t # "app" => step = ShowIdleBlindly
  <2>1. CASE t = "timer"
    <3>1. todo[t] \in TimerLists
      BY <1>0, <2>1 DEF Lists
    <3>. QED
      BY <1>1, <3>1, TimerPasses
  <2>2. CASE t \in {"ble", "main"}
    <3>1. todo[t] = <<ShowIdleBlindly>>
      BY <1>0, <1>1, <2>2, NextOps
    <3>. QED
      BY <3>1
  <2>3. t = "app" \/ t = "timer" \/ t \in {"ble", "main"}
    BY DEF Tasks
  <2>. QED
    BY <2>1, <2>2, <2>3
<1>5. /\ ShowIdleBlindly.set = << >> /\ ShowIdleBlindly.scene = "idle"
      /\ ~IdleScreen(ShowIdleBlindly) /\ ~Begins(ShowIdleBlindly) /\ ~Ends(ShowIdleBlindly)
  BY DEF ShowIdleBlindly, Drawing, IdleScreen, Begins, Ends
<1>6. t = "app" => /\ Begins(step) => step.scene = "recording"
                   /\ IdleScreen(step) => state.recording = FALSE
  <2>. SUFFICES ASSUME t = "app"
                PROVE  /\ Begins(step) => step.scene = "recording"
                       /\ IdleScreen(step) => state.recording = FALSE
    OBVIOUS
  <2>1. Visible(todo["app"]) /\ Ended(todo["app"], state.recording)
    BY <1>0 DEF Lists, AppList
  <2>2. 1 \in 1 .. Len(todo["app"]) /\ step = todo["app"][1]
    BY <1>1
  <2>3. Begins(step) => step.scene = "recording"
    BY <2>1, <2>2 DEF Visible
  <2>4. IdleScreen(step) => state.recording = FALSE
    BY <2>1, <2>2 DEF Ended
  <2>. QED
    BY <2>3, <2>4
<1>7. /\ Begins(step) => step.scene = "recording"
      /\ IdleScreen(step) => state.recording = FALSE
  BY <1>4, <1>5, <1>6
<1>. HIDE DEF step
<1>8. /\ state' \in AppStates
      /\ state'.recording = IF "recording" \in DOMAIN step.set THEN step.set["recording"]
                                                               ELSE state.recording
  BY <1>0, <1>2, <1>3, Assigned DEF ScreenTypes
<1>9. state.recording \in BOOLEAN /\ state'.recording \in BOOLEAN
  BY <1>0, <1>8 DEF ScreenTypes, AppStates
<1>10. \/ state'.recording = state.recording /\ ~Begins(step) /\ ~Ends(step)
       \/ state'.recording = TRUE /\ Begins(step)
       \/ state'.recording = FALSE /\ Ends(step)
  <2>1. CASE "recording" \in DOMAIN step.set
    BY <1>1, <1>8, <1>9, <2>1 DEF Begins, Ends
  <2>2. CASE "recording" \notin DOMAIN step.set
    BY <1>8, <2>2 DEF Begins, Ends
  <2>. QED
    BY <2>1, <2>2
<1>11. t # "app" => state'.recording = state.recording
  BY <1>4, <1>5, <1>8
<1>12. /\ Lists'
       /\ Is("app", "flag")' <=> Is("app", "flag")
       /\ Is("app", "rest")' <=> Is("app", "rest")
       /\ Is("timer", "dim")' <=> Is("timer", "dim")
       /\ Is("timer", "flag")' <=> Is("timer", "flag")
       /\ Is("timer", "rest")' <=> Is("timer", "rest")
       /\ t # "timer" => (Is("timer", "draw")' <=> Is("timer", "draw"))
  <2>1. CASE t = "app"
    <3>1. /\ Lists' /\ todo'["timer"] = todo["timer"]
          /\ todo'["app"] # << >> => todo'["app"][1].op \notin {"flag", "rest"}
      <4>0. step = todo["app"][1]
        BY <1>1, <2>1
      <4>1. /\ Skip("app", 1) /\ todo["app"] # << >> /\ todo["app"][1].op = "draw"
            /\ 1 \in {1, 3} /\ 1 # 3 /\ step = todo["app"][1]
        BY <1>1, <1>2, <2>1, <4>0
      <4>2. \/ /\ state'.recording = state.recording
               /\ ~Begins(todo["app"][1]) /\ ~Ends(todo["app"][1])
            \/ state'.recording = TRUE /\ Begins(todo["app"][1])
            \/ state'.recording = FALSE /\ Ends(todo["app"][1])
        BY <1>10, <4>1
      <4>. QED
        BY <1>0, <1>9, <4>1, <4>2, AppSkips
    <3>2. /\ ~Is("app", "rest")' /\ ~Is("app", "flag")'
          /\ ~Is("app", "rest") /\ ~Is("app", "flag")
      BY <1>1, <2>1, <3>1 DEF Is, Lists, Tasks
    <3>. QED
      BY <3>1, <3>2 DEF Is
  <2>2. CASE t = "timer"
    <3>1. Lists' /\ todo'["app"] = todo["app"] /\ todo'["timer"] = << >>
      <4>1. /\ Skip("timer", 1) /\ todo["timer"] # << >> /\ todo["timer"][1].op = "draw"
            /\ 1 \in {1, 3} /\ 1 # 3
        BY <1>1, <1>2, <2>2 DEF step
      <4>. QED
        BY <1>0, <1>11, <2>2, <4>1, TimerSkips
    <3>2. /\ ~Is("timer", "dim") /\ ~Is("timer", "flag") /\ ~Is("timer", "rest")
          /\ ~Is("timer", "dim")' /\ ~Is("timer", "flag")' /\ ~Is("timer", "rest")'
      BY <1>1, <2>2, <3>1 DEF Is
    <3>. QED
      BY <2>2, <3>1, <3>2 DEF Is
  <2>3. CASE t \in {"ble", "main"}
    <3>1. Lists' /\ todo'["app"] = todo["app"] /\ todo'["timer"] = todo["timer"]
      BY <1>0, <1>1, <1>2, <1>11, <2>3, DrawerSkips
    <3>. QED
      BY <3>1 DEF Is
  <2>. QED
    BY <2>1, <2>2, <2>3 DEF Tasks
<1>13. Backlight' /\ Face'
  BY <1>0, <1>2, <1>12, SameLight
<1>14. Looks'
  <2>1. ASSUME state'.recording = TRUE, scene' = "idle"
        PROVE  overdrawn' = TRUE
    <3>1. ~Begins(step)
      BY <1>2, <1>7, <2>1
    <3>2. state.recording = TRUE
      BY <1>10, <2>1, <3>1
    <3>3. CASE step.scene = "same"
      <4>1. scene = "idle" /\ overdrawn = TRUE
        BY <1>0, <1>2, <2>1, <3>2, <3>3 DEF Looks
      <4>. QED
        BY <1>2, <2>1, <3>3, <4>1
    <3>4. CASE step.scene = "idle"
      <4>1. ~IdleScreen(step)
        BY <1>7, <3>2
      <4>2. step.blind = TRUE
        BY <1>1, <1>3, <3>4, <4>1 DEF IdleScreen, step
      <4>. QED
        BY <1>2, <2>1, <3>4, <4>2
    <3>. QED
      BY <1>2, <2>1, <3>3, <3>4
  <2>. QED
    BY <2>1 DEF Looks
<1>15. /\ \A v \in Views : v \in armed \/ v \in step.start => v \in armed'
       /\ armed' \subseteq Views \cup {"dim"}
  BY <1>0, <1>2, <1>3, TimersStart DEF ScreenTypes
<1>16. GivesWay'
  <2>1. ASSUME scene' \in Views
        PROVE  scene' \in armed' \/ kept' = TRUE \/ Is("timer", "draw")'
    <3>1. CASE step.scene = "same"
      <4>1. t # "timer"
        BY <1>4, <1>5, <3>1
      <4>2. scene' = scene /\ kept' = kept
        BY <1>2, <3>1
      <4>. QED
        BY <1>0, <1>12, <1>15, <2>1, <4>1, <4>2 DEF GivesWay
    <3>2. CASE step.scene # "same"
      BY <1>2, <1>15, <2>1, <3>2
    <3>. QED
      BY <3>1, <3>2
  <2>. QED
    BY <2>1 DEF GivesWay
<1>17. ScreenTypes'
  <2>1. /\ s_display_dimmed' = s_display_dimmed /\ brightness' = brightness
        /\ s_dimmed' = s_dimmed /\ crossed' = crossed
    BY <1>2 DEF light
  <2>2. scene' \in Scenes /\ overdrawn' \in BOOLEAN /\ kept' \in BOOLEAN
    <3>1. scene' \in Scenes
      BY <1>0, <1>2, <1>3 DEF ScreenTypes
    <3>2. overdrawn' \in BOOLEAN
      BY <1>2
    <3>3. kept' \in BOOLEAN
      <4>1. CASE step.scene = "same"
        BY <1>0, <1>2, <4>1 DEF ScreenTypes
      <4>2. CASE step.scene # "same"
        BY <1>2, <4>2
      <4>. QED
        BY <4>1, <4>2
    <3>. QED
      BY <3>1, <3>2, <3>3
  <2>. QED
    BY <1>0, <1>2, <1>8, <1>15, <2>1, <2>2 DEF ScreenTypes
<1>. QED
  BY <1>12, <1>13, <1>14, <1>16, <1>17 DEF ScreenInv

(* The application takes an event.                                         *)
LEMMA HandleKeeps ==
    ASSUME ScreenInv, NEW q, HandlerList(q, state.recording, 10), Handle(q),
           sync' \in {"off", "on", "told"}
    PROVE  ScreenInv'
<1>0. ScreenTypes /\ Lists /\ Backlight /\ Face /\ Looks /\ GivesWay
  BY DEF ScreenInv
<1>1. /\ q \in Seq(StepKinds) /\ Len(q) <= 10 /\ AppList(q, state.recording)
      /\ q # << >> => q[1].op \notin {"flag", "rest"}
  BY DEF HandlerList, Whole
<1>2. /\ todo["app"] = << >> /\ todo' = [todo EXCEPT !["app"] = q]
      /\ UNCHANGED <<state, light, picture, armed>>
  BY DEF Handle, Begin
<1>3. /\ todo' \in [Tasks -> Seq(StepKinds)]
      /\ todo'["app"] = q /\ todo'["timer"] = todo["timer"]
      /\ todo'["ble"] = todo["ble"] /\ todo'["main"] = todo["main"]
  BY <1>0, <1>1, <1>2 DEF Lists, Tasks
<1>4. Lists'
  BY <1>0, <1>1, <1>2, <1>3 DEF Lists
<1>5. /\ Is("timer", "dim")' <=> Is("timer", "dim")
      /\ Is("timer", "flag")' <=> Is("timer", "flag")
      /\ Is("timer", "rest")' <=> Is("timer", "rest")
      /\ Is("timer", "draw")' <=> Is("timer", "draw")
  BY <1>3 DEF Is
<1>6. /\ ~Is("app", "flag") /\ ~Is("app", "rest")
      /\ ~Is("app", "flag")' /\ ~Is("app", "rest")'
  BY <1>1, <1>2, <1>3 DEF Is
<1>7. Backlight' /\ Face'
  BY <1>0, <1>2, <1>5, <1>6, SameLight
<1>8. Looks' /\ GivesWay'
  BY <1>0, <1>2, <1>5, SamePicture
<1>9. ScreenTypes'
  BY <1>0, <1>2 DEF ScreenTypes, light, picture
<1>. QED
  BY <1>4, <1>7, <1>8, <1>9 DEF ScreenInv

(* A timer fires.                                                          *)
LEMMA TimerBegins ==
    ASSUME Lists, NEW q \in TimerLists, Begin("timer", q), UNCHANGED state
    PROVE  /\ Lists' /\ todo'["app"] = todo["app"] /\ todo'["timer"] = q
           /\ todo["timer"] = << >>
<1>1. q \in Seq(StepKinds)
  <2>1. /\ Op("dim") \in StepKinds /\ Op("flag") \in StepKinds /\ Op("rest") \in StepKinds
    BY OpIs
  <2>2. ShowIdleBlindly \in StepKinds
    BY EmptyIs, BlindDrawIs DEF ShowIdleBlindly
  <2>3. /\ Dimming \in Seq(StepKinds) /\ <<Op("flag"), Op("rest")>> \in Seq(StepKinds)
        /\ <<Op("rest")>> \in Seq(StepKinds) /\ <<ShowIdleBlindly>> \in Seq(StepKinds)
        /\ << >> \in Seq(StepKinds)
    BY <2>1, <2>2 DEF Dimming
  <2>. QED
    BY <2>3 DEF TimerLists
<1>2. /\ todo' \in [Tasks -> Seq(StepKinds)]
      /\ todo'["app"] = todo["app"] /\ todo'["timer"] = q
      /\ todo'["ble"] = todo["ble"] /\ todo'["main"] = todo["main"]
  BY <1>1 DEF Lists, Tasks, Begin
<1>. QED
  BY <1>2 DEF Lists, Begin

(* The dim timer fires.                                                     *)
LEMMA DimFiresKeeps ==
    ASSUME ScreenInv, DimFires
    PROVE  ScreenInv'
<1>0. ScreenTypes /\ Lists /\ Backlight /\ Face /\ Looks /\ GivesWay
  BY DEF ScreenInv
<1>1. PICK q \in {<< >>, Dimming} :
         Begin("timer", q) /\ (q = Dimming => s_display_dimmed = FALSE)
  BY <1>0 DEF DimFires, Dimming, ScreenTypes
<1>2. armed' = armed \ {"dim"} /\ UNCHANGED <<state, sync, light, picture>>
  BY DEF DimFires
<1>3. /\ Lists' /\ todo'["app"] = todo["app"] /\ todo'["timer"] = q
      /\ todo["timer"] = << >>
  BY <1>0, <1>1, <1>2, TimerBegins DEF TimerLists
<1>4. /\ Is("app", "flag")' <=> Is("app", "flag")
      /\ Is("app", "rest")' <=> Is("app", "rest")
  BY <1>3 DEF Is
<1>5. /\ ~Is("timer", "dim") /\ ~Is("timer", "flag") /\ ~Is("timer", "rest")
      /\ ~Is("timer", "draw")
  BY <1>3 DEF Is
<1>6. /\ Is("timer", "dim")' => q = Dimming
      /\ ~Is("timer", "flag")' /\ ~Is("timer", "rest")'
  <2>1. CASE q = << >>
    BY <1>3, <2>1 DEF Is
  <2>2. CASE q = Dimming
    <3>1. Head(q) = Op("dim")
      BY <2>2 DEF Dimming
    <3>2. Head(q).op = "dim"
      BY <3>1, OpIs
    <3>. QED
      BY <1>3, <2>2, <3>2 DEF Is
  <2>. QED
    BY <2>1, <2>2
<1>7. /\ s_display_dimmed' = s_display_dimmed /\ brightness' = brightness
      /\ s_dimmed' = s_dimmed /\ crossed' = crossed
  BY <1>2 DEF light
<1>8. q = Dimming => s_display_dimmed = FALSE /\ brightness # "dim"
  <2>. SUFFICES ASSUME q = Dimming
                PROVE  s_display_dimmed = FALSE /\ brightness # "dim"
    OBVIOUS
  <2>1. s_display_dimmed = FALSE
    BY <1>1
  <2>2. ~Is("app", "flag")
    BY <1>0, <2>1 DEF Backlight
  <2>3. brightness # "dim"
    BY <1>0, <1>5, <2>1, <2>2 DEF Backlight
  <2>. QED
    BY <2>1, <2>3
<1>9. Backlight'
  BY <1>0, <1>4, <1>5, <1>6, <1>7, <1>8, Zenon DEF Backlight
<1>10. Face'
  BY <1>0, <1>4, <1>5, <1>6, <1>7, Zenon DEF Face, Neither
<1>11. Looks' /\ GivesWay'
  <2>1. \A v \in Views : v \in armed => v \in armed'
    BY <1>2 DEF Views
  <2>. QED
    BY <1>0, <1>2, <1>5, <2>1, SamePicture
<1>12. ScreenTypes'
  BY <1>0, <1>2, <1>7 DEF ScreenTypes, picture
<1>. QED
  BY <1>3, <1>9, <1>10, <1>11, <1>12 DEF ScreenInv

(* The timer of a view fires.                                               *)
LEMMA ViewFiresKeeps ==
    ASSUME ScreenInv, NEW v \in Views, ViewFires(v)
    PROVE  ScreenInv'
<1>0. ScreenTypes /\ Lists /\ Backlight /\ Face /\ Looks /\ GivesWay
  BY DEF ScreenInv
<1>1. state.recording \in BOOLEAN /\ state.updating \in BOOLEAN
  BY <1>0 DEF ScreenTypes, AppStates
<1>2. /\ armed' = armed \ {v} /\ UNCHANGED <<state, sync, light, scene, overdrawn>>
      /\ kept' = (kept \/ (scene = v /\ (state.recording \/ state.updating)))
  BY DEF ViewFires
<1>3. PICK q \in {<< >>, <<ShowIdleBlindly>>} :
         /\ Begin("timer", q)
         /\ q = << >> => state.recording \/ state.updating
  <2>1. CASE state.recording \/ state.updating
    BY <2>1 DEF ViewFires
  <2>2. CASE ~(state.recording \/ state.updating)
    <3>1. (~state.recording) = TRUE
      BY <1>1, <2>2
    <3>2. ShowIdle = ShowIdleBlindly
      BY <3>1 DEF ShowIdle, ShowIdleBlindly
    <3>3. Begin("timer", <<ShowIdleBlindly>>)
      BY <2>2, <3>2 DEF ViewFires
    <3>4. <<ShowIdleBlindly>> # << >>
      OBVIOUS
    <3>. QED
      BY <3>3, <3>4
  <2>. QED
    BY <2>1, <2>2
<1>4. /\ Lists' /\ todo'["app"] = todo["app"] /\ todo'["timer"] = q
      /\ todo["timer"] = << >>
  BY <1>0, <1>2, <1>3, TimerBegins DEF TimerLists
<1>5. /\ Is("app", "flag")' <=> Is("app", "flag")
      /\ Is("app", "rest")' <=> Is("app", "rest")
  BY <1>4 DEF Is
<1>6. /\ ~Is("timer", "dim") /\ ~Is("timer", "flag") /\ ~Is("timer", "rest")
      /\ ~Is("timer", "draw")
  BY <1>4 DEF Is
<1>7. /\ ~Is("timer", "dim")' /\ ~Is("timer", "flag")' /\ ~Is("timer", "rest")'
      /\ q # << >> => Is("timer", "draw")'
  <2>1. ShowIdleBlindly.op = "draw"
    BY DEF ShowIdleBlindly, Drawing
  <2>2. q # << >> => Head(q).op = "draw"
    BY <2>1
  <2>. QED
    BY <1>4, <2>2 DEF Is
<1>8. Backlight' /\ Face'
  BY <1>0, <1>2, <1>5, <1>6, <1>7, SameLight
<1>9. Looks'
  BY <1>0, <1>2 DEF Looks
<1>10. GivesWay'
  <2>1. ASSUME scene' \in Views
        PROVE  scene' \in armed' \/ kept' = TRUE \/ Is("timer", "draw")'
    <3>1. CASE scene = v
      BY <1>2, <1>3, <1>7, <3>1
    <3>2. CASE scene # v
      <4>1. scene \in armed \/ kept = TRUE
        BY <1>0, <1>2, <1>6, <2>1 DEF GivesWay
      <4>. QED
        BY <1>2, <3>2, <4>1
    <3>. QED
      BY <3>1, <3>2
  <2>. QED
    BY <2>1 DEF GivesWay
<1>11. ScreenTypes'
  <2>1. kept' \in BOOLEAN
    BY <1>2
  <2>. QED
    BY <1>0, <1>2, <2>1 DEF ScreenTypes, light
<1>. QED
  BY <1>4, <1>8, <1>9, <1>10, <1>11 DEF ScreenInv

(* The host changes the interaction mode.                                   *)
LEMMA ModeKeeps ==
    ASSUME ScreenInv, ModeChanges
    PROVE  ScreenInv'
<1>0. ScreenTypes /\ Lists /\ Backlight /\ Face /\ Looks /\ GivesWay
  BY DEF ScreenInv
<1>1. /\ state.recording = FALSE /\ Begin("ble", <<ShowIdle>>)
      /\ UNCHANGED <<state, sync, light, picture, armed>>
  BY <1>0 DEF ModeChanges, ScreenTypes, AppStates
<1>2. ShowIdle = ShowIdleBlindly
  <2>1. (~state.recording) = TRUE
    BY <1>1
  <2>. QED
    BY <2>1 DEF ShowIdle, ShowIdleBlindly
<1>3. todo' = [todo EXCEPT !["ble"] = <<ShowIdleBlindly>>]
  BY <1>1, <1>2 DEF Begin
<1>4. <<ShowIdleBlindly>> \in Seq(StepKinds)
  <2>1. ShowIdleBlindly \in StepKinds
    BY EmptyIs, BlindDrawIs DEF ShowIdleBlindly
  <2>. QED
    BY <2>1
<1>5. /\ todo' \in [Tasks -> Seq(StepKinds)]
      /\ todo'["app"] = todo["app"] /\ todo'["timer"] = todo["timer"]
      /\ todo'["ble"] \in DrawLists /\ todo'["main"] = todo["main"]
  BY <1>0, <1>3, <1>4 DEF Lists, Tasks, DrawLists
<1>6. Lists'
  BY <1>0, <1>1, <1>5 DEF Lists
<1>7. Backlight' /\ Face'
  BY <1>0, <1>1, <1>5, SameLight DEF Is
<1>8. Looks' /\ GivesWay'
  BY <1>0, <1>1, <1>5, SamePicture DEF Is
<1>9. ScreenTypes'
  BY <1>0, <1>1 DEF ScreenTypes, light, picture
<1>. QED
  BY <1>6, <1>7, <1>8, <1>9 DEF ScreenInv

(* Nothing but sync changes, or nothing at all.                            *)
LEMMA RestOfSteps ==
    ASSUME ScreenInv, UNCHANGED <<todo, state, light, picture, armed>>,
           sync' \in {"off", "on", "told"}
    PROVE  ScreenInv'
<1>0. ScreenTypes /\ Lists /\ Backlight /\ Face /\ Looks /\ GivesWay
  BY DEF ScreenInv
<1>1. Lists'
  BY <1>0 DEF Lists
<1>2. Backlight' /\ Face'
  BY <1>0, SameLight DEF Is
<1>3. Looks' /\ GivesWay'
  BY <1>0, SamePicture DEF Is
<1>4. ScreenTypes'
  BY <1>0 DEF ScreenTypes, light, picture
<1>. QED
  BY <1>1, <1>2, <1>3, <1>4 DEF ScreenInv

(* The screen at boot.                                                      *)
LEMMA ScreenStarts == ScreenInit => ScreenInv
<1>. SUFFICES ASSUME ScreenInit
              PROVE  ScreenInv
  OBVIOUS
<1>1. ScreenTypes
  BY DEF ScreenInit, ScreenTypes, AppStates, Scenes
<1>2. <<ShowIdleBlindly>> \in Seq(StepKinds)
  <2>1. ShowIdleBlindly \in StepKinds
    BY EmptyIs, BlindDrawIs DEF ShowIdleBlindly
  <2>. QED
    BY <2>1
<1>3. /\ todo \in [Tasks -> Seq(StepKinds)]
      /\ todo["app"] = << >> /\ todo["timer"] = << >> /\ todo["ble"] = << >>
      /\ todo["main"] = <<ShowIdleBlindly>>
  BY <1>2 DEF ScreenInit, Tasks
<1>4. AppList(<< >>, state.recording)
  BY DEF AppList, Together, Visible, Ended
<1>5. Lists
  BY <1>3, <1>4 DEF Lists, TimerLists, DrawLists
<1>6. /\ ~Is("app", "flag") /\ ~Is("app", "rest") /\ ~Is("timer", "dim")
      /\ ~Is("timer", "flag") /\ ~Is("timer", "rest")
  BY <1>3 DEF Is
<1>7. /\ s_display_dimmed = FALSE /\ brightness = "full" /\ s_dimmed = FALSE
      /\ scene = "boot" /\ "full" # "dim"
  BY DEF ScreenInit
<1>8. Backlight
  BY <1>6, <1>7, Zenon DEF Backlight
<1>9. Face
  BY <1>6, <1>7, Zenon DEF Face, Neither
<1>10. Looks /\ GivesWay
  BY <1>7 DEF Looks, GivesWay, Views
<1>. QED
  BY <1>1, <1>5, <1>8, <1>9, <1>10 DEF ScreenInv

(* The inductive invariant: the types, the order of the lists, the light   *)
(* and the face between their steps, and the two of the picture.           *)
THEOREM ScreenInvariance == ScreenSpec => []ScreenInv
<1>1. ScreenInit => ScreenInv
  BY ScreenStarts
<1>2. ScreenInv /\ [ScreenNext]_screenVars => ScreenInv'
  <2>. SUFFICES ASSUME ScreenInv, [ScreenNext]_screenVars
                PROVE  ScreenInv'
    OBVIOUS
  <2>0. sync \in {"off", "on", "told"} /\ ScreenTypes
    BY DEF ScreenInv, ScreenTypes
  <2>1. CASE \E t \in Tasks : Step(t)
    BY <2>1, WakeKeeps, FlagKeeps, RestKeeps, DrawnKeeps, DimKeeps, OffKeeps DEF Step
  <2>2. CASE DimFires
    BY <2>2, DimFiresKeeps
  <2>3. CASE \E v \in Views : ViewFires(v)
    BY <2>3, ViewFiresKeeps
  <2>4. CASE ModeChanges
    BY <2>4, ModeKeeps
  <2>5. CASE SyncStops
    BY <2>5, RestOfSteps DEF SyncStops
  <2>6. CASE Events
    BY <2>0, <2>6, EventsAreInOrder, HandleKeeps
  <2>7. CASE UNCHANGED screenVars
    BY <2>0, <2>7, RestOfSteps DEF screenVars, light, picture
  <2>. QED
    BY <2>1, <2>2, <2>3, <2>4, <2>5, <2>6, <2>7 DEF ScreenNext
<1>. QED
  BY <1>1, <1>2, PTL DEF ScreenSpec

(* The screen's state keeps its types, and no task ever has more than ten  *)
(* steps before it.                                                        *)
THEOREM ScreenTypesCorrect == ScreenSpec => []ScreenTypeOK
<1>1. ScreenInv => ScreenTypeOK
  <2>. SUFFICES ASSUME ScreenInv
                PROVE  ScreenTypeOK
    OBVIOUS
  <2>1. ScreenTypes /\ Lists
    BY DEF ScreenInv
  <2>2. \A t \in Tasks : Len(todo[t]) <= 10
    <3>1. Len(todo["app"]) <= 10
      BY <2>1 DEF Lists
    <3>2. /\ Len(<< >>) <= 10 /\ Len(<<ShowIdleBlindly>>) <= 10 /\ Len(<<Op("rest")>>) <= 10
          /\ Len(<<Op("flag"), Op("rest")>>) <= 10 /\ Len(Dimming) <= 10
      BY DEF Dimming
    <3>3. /\ Len(todo["timer"]) <= 10 /\ Len(todo["ble"]) <= 10 /\ Len(todo["main"]) <= 10
      BY <2>1, <3>2, Zenon DEF Lists, TimerLists, DrawLists
    <3>. QED
      BY <3>1, <3>3 DEF Tasks
  <2>. QED
    BY <2>1, <2>2 DEF ScreenTypeOK, ScreenTypes
<1>. QED
  BY <1>1, ScreenInvariance, PTL

(* LightIsKnown: note_activity, display_dim_timer_cb and a deep sleep that *)
(* is given up, interleaved at every read and write, leave the flag true   *)
(* of a backlight that is on.                                              *)
THEOREM TheLightIsKnown == ScreenSpec => []LightIsKnown
<1>1. ScreenInv => LightIsKnown
  <2>. SUFFICES ASSUME ScreenInv, AllDone
                PROVE  /\ brightness # "off" => (s_display_dimmed <=> brightness = "dim")
                       /\ ~crossed => (s_dimmed <=> s_display_dimmed)
    BY DEF LightIsKnown
  <2>0. ScreenTypes /\ Lists /\ Backlight /\ Face
    BY DEF ScreenInv
  <2>1. /\ ~Is("app", "flag") /\ ~Is("timer", "flag")
        /\ ~Is("app", "rest") /\ ~Is("timer", "rest")
    BY DEF AllDone, Is, Tasks
  <2>2. brightness = "off" \/ (s_display_dimmed = TRUE <=> brightness = "dim")
    BY <2>0, <2>1 DEF Backlight
  <2>3. crossed = FALSE => s_dimmed = s_display_dimmed
    BY <2>0, <2>1 DEF Face, Neither
  <2>4. s_display_dimmed \in BOOLEAN /\ crossed \in BOOLEAN /\ s_dimmed \in BOOLEAN
    BY <2>0 DEF ScreenTypes
  <2>. QED
    BY <2>2, <2>3, <2>4
<1>. QED
  BY <1>1, ScreenInvariance, PTL

(* NotIdleWhileRecording: no handler draws the idle screen over a          *)
(* recording; only who had looked before it began, or does not look, may.  *)
THEOREM RecordingIsSeen == ScreenSpec => []NotIdleWhileRecording
<1>1. ScreenInv => NotIdleWhileRecording
  <2>. SUFFICES ASSUME ScreenInv, AllDone /\ state.recording
                PROVE  scene # "idle" \/ overdrawn
    BY DEF NotIdleWhileRecording
  <2>1. ScreenTypes /\ Looks
    BY DEF ScreenInv
  <2>2. state.recording = TRUE
    BY <2>1 DEF ScreenTypes, AppStates
  <2>. QED
    BY <2>1, <2>2 DEF Looks
<1>. QED
  BY <1>1, ScreenInvariance, PTL

(* ViewsGiveWay: a view on the screen has its timer armed, unless it was   *)
(* shown without one or a recording or an update owned the screen.         *)
THEOREM ViewsAreTakenBack == ScreenSpec => []ViewsGiveWay
<1>1. ScreenInv => ViewsGiveWay
  <2>. SUFFICES ASSUME ScreenInv, AllDone /\ scene \in Views
                PROVE  scene \in armed \/ kept
    BY DEF ViewsGiveWay
  <2>1. GivesWay
    BY DEF ScreenInv
  <2>2. ~Is("timer", "draw")
    BY DEF AllDone, Is, Tasks
  <2>. QED
    BY <2>1, <2>2 DEF GivesWay
<1>. QED
  BY <1>1, ScreenInvariance, PTL
=============================================================================
