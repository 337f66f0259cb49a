------------------------------- MODULE Power -------------------------------
(***************************************************************************)
(* What the device knows of its power supply: the PMIC of                  *)
(* components/stick_s3_board/stick_s3_board.c, its interrupt line, the     *)
(* battery refresh and the way into deep sleep (main/main.c).              *)
(*                                                                         *)
(* The PMIC raises a flag when the supply is plugged or unplugged and      *)
(* holds the line low until the flag is cleared; the end of charging       *)
(* raises none.  Every transfer on the I2C bus is a step and may fail.     *)
(* Recordings and updates keep the device busy; what else may refuse deep  *)
(* sleep is AppControl's matter.                                           *)
(***************************************************************************)
EXTENDS Integers, Sequences

CONSTANTS Candidates, \* number of ports and wirings init_i2c tries
          Wired,      \* those on which the PMIC answers
          EventDepth, \* length of s_app_event_queue
          MaxPlugs,   \* bound: changes of the supply
          MaxKeys,    \* bound: keys pressed
          MaxFaults   \* bound: transfers and calls that fail

ASSUME PowerAssumption ==
    /\ Candidates \in Nat \ {0} /\ Wired \subseteq 1 .. Candidates
    /\ EventDepth \in Nat \ {0}
    /\ MaxPlugs \in Nat /\ MaxKeys \in Nat /\ MaxFaults \in Nat

VARIABLES
    usb, charging,           \* the supply
    flags, irq_on, l3b,      \* PMIC: IRQ_STATUS2, the line is configured, display and audio on
    bus,                     \* s_i2c_bus, s_pmic_dev: the candidate in use, 0 for none
    int, timers,             \* the GPIO interrupt is enabled, the refresh timer runs
    events,                  \* s_app_event_queue
    pc,                      \* what the task is about to do
    seen, got,               \* flags read, values read
    known,                   \* s_battery_charging, s_usb_powered
    busy, sleep_timer,       \* s_recording \/ s_ota_updating, the timer is armed
    plugs, keys, faults,
    missed,                  \* history: the last update read nothing
    excused,                 \* history: no answer to, or no truth left in, the fresh check
    lost                     \* history: the sleep event found the queue full

supply == <<usb, charging, plugs>>
pmic == <<flags, irq_on, l3b, bus>>
app == <<known, busy, sleep_timer>>
history == <<missed, excused, lost>>
vars == <<usb, charging, plugs, flags, irq_on, l3b, bus, int, timers, events, pc, seen, got,
          known, busy, sleep_timer, keys, faults, missed, excused, lost>>

Reads == [charging : BOOLEAN, usb : BOOLEAN]
Nothing == [charging |-> FALSE, usb |-> FALSE]
External(k) == k.charging \/ k.usb      \* is_external_powered
Steps == {"setup", "config", "clear", "write", "level", "charging", "usb", "line", "loop",
          "fresh charging", "fresh usb", "wake", "go", "asleep"}

(* A start of the device, on the supply there is.                          *)
Init ==
    /\ usb \in BOOLEAN /\ charging = usb /\ plugs = 0
    /\ flags = {} /\ irq_on = FALSE /\ l3b = FALSE
    /\ bus = 0 /\ int = FALSE /\ timers = FALSE /\ events = << >>
    /\ pc = "setup" /\ seen = {} /\ got = Nothing
    /\ known = Nothing /\ busy = FALSE /\ sleep_timer = TRUE
    /\ keys = 0 /\ faults = 0
    /\ missed = TRUE /\ excused = FALSE /\ lost = FALSE

-----------------------------------------------------------------------------
(* The supply.                                                             *)
Checked == pc \in {"wake", "go", "asleep"}

Plug ==
    /\ plugs < MaxPlugs /\ plugs' = plugs + 1
    /\ usb' = ~usb /\ charging' = ~usb
    /\ flags' = flags \cup {IF usb THEN "remove" ELSE "insert"}
    /\ excused' = (excused \/ (Checked /\ ~usb))
    /\ UNCHANGED <<irq_on, l3b, bus, int, timers, events, pc, seen, got, app, keys, faults,
                   missed, lost>>

Charged ==
    /\ charging /\ charging' = FALSE
    /\ UNCHANGED <<usb, plugs, pmic, int, timers, events, pc, seen, got, app, keys, faults, history>>

-----------------------------------------------------------------------------
(* Events.                                                                 *)
Post(e) == events' = IF Len(events) < EventDepth THEN Append(events, e) ELSE events

(* pmic_irq_isr: the line is low.  Only the handler of the event enables   *)
(* the interrupt again, so that a full queue leaves it disabled            *)
Isr ==
    /\ int /\ irq_on /\ flags # {} /\ pc # "asleep"
    /\ int' = FALSE /\ Post("irq")
    /\ UNCHANGED <<supply, pmic, timers, pc, seen, got, app, keys, faults, history>>

(* battery_refresh_timer_cb; one that finds the queue full is gone         *)
Refresh ==
    /\ timers /\ pc # "asleep" /\ Len(events) < EventDepth
    /\ Post("refresh")
    /\ UNCHANGED <<supply, pmic, int, timers, pc, seen, got, app, keys, faults, history>>

(* deep_sleep_timer_cb                                                     *)
SleepTimer ==
    /\ sleep_timer /\ pc # "asleep"
    /\ sleep_timer' = FALSE /\ Post("sleep")
    /\ lost' = (lost \/ Len(events) = EventDepth)
    /\ UNCHANGED <<supply, pmic, int, timers, pc, seen, got, known, busy, keys, faults,
                   missed, excused>>

Key ==
    /\ keys < MaxKeys /\ keys' = keys + 1
    /\ pc # "asleep" /\ Post("key")
    /\ UNCHANGED <<supply, pmic, int, timers, pc, seen, got, app, faults, history>>

-----------------------------------------------------------------------------
(* Transfers and calls: each is answered or fails.                         *)
Goto(step) == pc' = step
Answered == bus \in Wired /\ UNCHANGED faults
Faulty == faults < MaxFaults /\ faults' = faults + 1
Fails == IF bus \in Wired THEN Faulty ELSE UNCHANGED faults
Outside == UNCHANGED <<supply, timers, keys>>

(* init_i2c: the candidates one after the other, until the PMIC answers;   *)
(* when none does, the last one stays                                      *)
Probe ==
    /\ pc = "setup" /\ bus' = bus + 1
    /\ \/ bus' \in Wired /\ Goto("config") /\ UNCHANGED faults
       \/ /\ IF bus' \in Wired THEN Faulty ELSE UNCHANGED faults
          /\ Goto(IF bus' = Candidates THEN "clear" ELSE "setup")
    /\ UNCHANGED <<flags, irq_on, l3b, int, events, seen, got, app, history>> /\ Outside

(* init_pmic: display and audio on, flags cleared, the line configured;    *)
(* a write that fails is passed over                                       *)
Configure ==
    /\ pc = "config" /\ Goto("clear")
    /\ flags' \in {flags, {}} /\ l3b' \in {l3b, TRUE} /\ irq_on' \in {irq_on, TRUE}
    /\ IF flags' = {} /\ l3b' /\ irq_on' THEN UNCHANGED faults ELSE Faulty
    /\ UNCHANGED <<bus, int, events, seen, got, app, history>> /\ Outside

-----------------------------------------------------------------------------
(* update_battery_status: the flags are cleared first, then the state is   *)
(* read, so that a change in between raises the line again.                *)
Reading == UNCHANGED <<irq_on, l3b, bus, events, lost>> /\ Outside

(* Mutant: without a flag there is nothing to read.                        *)
ClearReadOnlyFlagged ==
    /\ pc = "clear"
    /\ \/ Answered /\ seen' = flags /\ Goto(IF flags = {} THEN "line" ELSE "write")
       \/ Fails /\ UNCHANGED seen /\ Goto("level")
    /\ UNCHANGED <<flags, int, got, app, missed, excused>> /\ Reading

(* pmic_clear_irq_reg                                                      *)
ClearRead ==
    /\ pc = "clear"
    /\ \/ Answered /\ seen' = flags /\ Goto("write")
       \/ Fails /\ UNCHANGED seen /\ Goto("level")
    /\ UNCHANGED <<flags, int, got, app, missed, excused>> /\ Reading

(* the flags read are written 0, the others 1; without any, all 0          *)
ClearWrite ==
    /\ pc = "write" /\ Goto("level")
    /\ \/ Answered /\ flags' = IF seen = {} THEN {} ELSE flags \ seen
       \/ Fails /\ UNCHANGED flags
    /\ UNCHANGED <<int, seen, got, app, missed, excused>> /\ Reading

(* a transfer that fails, or no voltage: nothing of it is used             *)
Level ==
    /\ pc = "level"
    /\ \/ Answered /\ Goto("charging") /\ UNCHANGED missed
       \/ Fails /\ Goto("line") /\ missed' = TRUE
    /\ UNCHANGED <<flags, int, seen, got, app, excused>> /\ Reading

Charging ==
    /\ pc = "charging"
    /\ \/ Answered /\ got' = [got EXCEPT !.charging = charging] /\ Goto("usb") /\ UNCHANGED missed
       \/ Fails /\ UNCHANGED got /\ Goto("line") /\ missed' = TRUE
    /\ UNCHANGED <<flags, int, seen, app, excused>> /\ Reading

(* Mutant: the timer is left as it is.                                     *)
UpdateKnownOnly ==
    /\ known' = [got EXCEPT !.usb = usb]
    /\ UNCHANGED sleep_timer

(* the assignments, and restart_deep_sleep_timer when they change anything *)
Update ==
    /\ known' = [got EXCEPT !.usb = usb]
    /\ sleep_timer' = IF known' # known THEN ~busy /\ ~External(known') ELSE sleep_timer

Usb ==
    /\ pc = "usb" /\ Goto("line")
    /\ \/ Answered /\ Update /\ missed' = FALSE
       \/ Fails /\ UNCHANGED <<known, sleep_timer>> /\ missed' = TRUE
    /\ UNCHANGED <<flags, int, seen, got, busy, excused>> /\ Reading

(* Mutant: the flags are cleared once more.                                *)
UpdatedClears ==
    /\ pc = "line" /\ Goto("loop")
    /\ timers' = TRUE /\ int' = (int \/ ~timers)
    /\ flags' = {}
    /\ UNCHANGED <<supply, keys, irq_on, l3b, bus, events, seen, got, app, faults, history>>

(* back to the queue; app_main starts the refresh timer and the interrupt  *)
(* after its own update                                                    *)
Updated ==
    /\ pc = "line" /\ Goto("loop")
    /\ timers' = TRUE /\ int' = (int \/ ~timers)
    /\ UNCHANGED <<supply, keys, pmic, events, seen, got, app, faults, history>>

-----------------------------------------------------------------------------
(* The application task.                                                   *)
Take(e) ==
    /\ pc = "loop" /\ events # << >> /\ Head(events) = e
    /\ events' = Tail(events)
    /\ UNCHANGED <<pmic, seen, got, known, faults, missed, lost>> /\ Outside

(* restart_deep_sleep_timer                                                *)
RestartTimer == sleep_timer' = (~busy' /\ ~External(known))

(* APP_EVENT_POWER_IRQ: the interrupt is enabled before the flag is gone   *)
PowerIrq ==
    Take("irq") /\ int' = TRUE /\ Goto("clear") /\ UNCHANGED <<busy, sleep_timer, excused>>

BatteryRefresh ==
    Take("refresh") /\ Goto("clear") /\ UNCHANGED <<int, busy, sleep_timer, excused>>

(* a key: activity, and a recording may begin or end                       *)
KeyTaken ==
    /\ Take("key") /\ Goto("loop")
    /\ busy' \in BOOLEAN /\ RestartTimer
    /\ UNCHANGED <<int, excused>>

(* enter_deep_sleep is refused                                             *)
StayAwake ==
    /\ Take("sleep") /\ Goto("loop")
    /\ UNCHANGED <<int, busy, excused>> /\ RestartTimer

(* Mutant: what is known is good enough.                                   *)
TrySleepAsKnown ==
    /\ Take("sleep") /\ ~busy /\ ~External(known)
    /\ Goto("wake") /\ excused' = FALSE
    /\ UNCHANGED <<int, busy, sleep_timer>>

TrySleep ==
    /\ Take("sleep") /\ ~busy /\ ~External(known)
    /\ Goto("fresh charging") /\ excused' = FALSE
    /\ UNCHANGED <<int, busy, sleep_timer>>

(* the fresh check; when it fails, the battery is taken for granted        *)
FreshCharging ==
    /\ pc = "fresh charging"
    /\ \/ Answered /\ got' = [got EXCEPT !.charging = charging] /\ Goto("fresh usb") /\ UNCHANGED excused
       \/ Fails /\ UNCHANGED got /\ Goto("wake") /\ excused' = TRUE
    /\ UNCHANGED <<flags, int, seen, app, missed>> /\ Reading

FreshUsb ==
    /\ pc = "fresh usb"
    /\ \/ /\ Answered /\ UNCHANGED <<busy, excused>>
          /\ LET fresh == [got EXCEPT !.usb = usb]
             IN  IF External(fresh) THEN known' = fresh /\ sleep_timer' = FALSE /\ Goto("loop")
                                    ELSE UNCHANGED <<known, sleep_timer>> /\ Goto("wake")
       \/ Fails /\ Goto("wake") /\ excused' = TRUE /\ UNCHANGED app
    /\ UNCHANGED <<flags, int, seen, got, missed>> /\ Reading

(* the front key is down; otherwise display and audio are switched off     *)
Prepare ==
    /\ pc = "wake" /\ UNCHANGED <<busy, known, flags, irq_on, bus, int, events, seen, got, history>>
    /\ \/ Goto("loop") /\ RestartTimer /\ UNCHANGED <<l3b, faults>>
       \/ Goto("go") /\ UNCHANGED sleep_timer
          /\ \/ Answered /\ l3b' = FALSE
             \/ Fails /\ UNCHANGED l3b
    /\ Outside

(* no wake-up source, or the key went down: nothing is switched on again   *)
SleepFails ==
    /\ pc = "go" /\ Goto("loop")
    /\ UNCHANGED busy /\ RestartTimer
    /\ UNCHANGED <<pmic, int, events, seen, got, known, faults, history>> /\ Outside

(* esp_deep_sleep_start                                                    *)
Sleep ==
    /\ pc = "go" /\ Goto("asleep")
    /\ UNCHANGED <<pmic, int, events, seen, got, app, faults, history>> /\ Outside

(* the front key: the program starts from the beginning                    *)
WakeUp ==
    /\ pc = "asleep" /\ keys < MaxKeys /\ keys' = keys + 1
    /\ pc' = "setup" /\ bus' = 0 /\ int' = FALSE /\ timers' = FALSE /\ events' = << >>
    /\ seen' = {} /\ got' = Nothing
    /\ known' = Nothing /\ busy' = FALSE /\ sleep_timer' = TRUE
    /\ missed' = TRUE /\ excused' = FALSE /\ lost' = FALSE
    /\ UNCHANGED <<supply, flags, irq_on, l3b, faults>>

Task == \/ Probe \/ Configure
        \/ ClearRead \/ ClearWrite \/ Level \/ Charging \/ Usb \/ Updated
        \/ PowerIrq \/ BatteryRefresh \/ KeyTaken \/ StayAwake \/ TrySleep
        \/ FreshCharging \/ FreshUsb \/ Prepare \/ SleepFails \/ Sleep

Next == Plug \/ Charged \/ Isr \/ Refresh \/ SleepTimer \/ Key \/ Task \/ WakeUp

(* The task is never blocked for good, and the periodic timer finds room   *)
(* in the queue once in a while: a handler takes far less than its 10 s.   *)
Fairness == WF_vars(Task) /\ SF_vars(Refresh)

Spec == Init /\ [][Next]_vars /\ Fairness

-----------------------------------------------------------------------------
Queued(e) == \E i \in 1 .. Len(events) : events[i] = e

TypeOK ==
    /\ {usb, charging, irq_on, l3b, int, timers, busy, sleep_timer, missed, excused, lost} \subseteq BOOLEAN
    /\ flags \subseteq {"insert", "remove"} /\ seen \subseteq {"insert", "remove"}
    /\ bus \in 0 .. Candidates /\ pc \in Steps
    /\ events \in Seq({"irq", "refresh", "sleep", "key"}) /\ Len(events) <= EventDepth
    /\ known \in Reads /\ got \in Reads
    /\ plugs \in 0 .. MaxPlugs /\ keys \in 0 .. MaxKeys /\ faults \in 0 .. MaxFaults

(* A quiet line means that the supply is known: between two events, when   *)
(* no flag is raised and the last update could read, the application has   *)
(* the supply right, wherever between its reads the cable was pulled.      *)
PowerIsKnown ==
    pc = "loop" /\ irq_on /\ flags = {} /\ ~missed => known.usb = usb

(* The refresh makes up for everything the interrupt misses (an event that *)
(* found the queue full, which leaves it disabled for good, a transfer     *)
(* that failed after the flag was cleared): once the supply stays as it is *)
(* the application learns it, as long as the PMIC was found at all.        *)
PowerIsLearnt == <>[](known = [charging |-> charging, usb |-> usb] \/ pc = "asleep" \/ bus \notin Wired)

(* No deep sleep on external power, however old what the application knows *)
(* is: unless the fresh check got no answer or the cable came after it.    *)
SleepsOnBattery == pc = "asleep" /\ usb => excused

(* A device on battery goes to sleep: when it is idle and believes to be   *)
(* on battery, the timer is armed or its event on the way, whatever order  *)
(* the supply, the recordings and the checks come in.                      *)
IdleDeviceSleeps ==
    pc = "loop" /\ ~busy /\ ~External(known) => sleep_timer \/ Queued("sleep") \/ lost
=============================================================================
