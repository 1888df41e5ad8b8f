------------------------------ MODULE Readings ------------------------------
(***************************************************************************)
(* What ubar measures (tools/ubar/src/data.c): the clock, the processor,   *)
(* the temperature, the memory, the battery, the displays, the lock keys   *)
(* and the network, each with what it keeps from one reading to the next   *)
(* and what it answers to "has it changed", on which the main loop draws.  *)
(* When the main loop takes a reading is in Ubar, how it draws in          *)
(* BarScreen.                                                              *)
(*                                                                         *)
(* The readings have nothing in common: a behaviour is about one of them.  *)
(* Counters of the kernel are kept relative to the last reading; they are  *)
(* unsigned and wrap at Wrap, 2^64 in the code.  No interface's name       *)
(* contains that of another one.                                           *)
(***************************************************************************)
EXTENDS Integers, Sequences

CONSTANTS
  ThermalZones, \* thermal zones, 6 in the code
  Hour,       \* minutes in an hour
  Load,       \* bound on the time and the traffic between two readings
  Wrap,       \* where counters wrap
  None

VARIABLE meter

Keyboards == {1, 2}         \* in the order of readdir
Iface == {"wifi", "cable"}  \* in the order of readdir: the wifi first
Battery == [pct : 0..1, charging : BOOLEAN]

Times == 0..(2 * Hour - 1)
Networks ==
  [up : SUBSET Iface, ssid : {"A", "B"}, rx : [Iface -> 0..Load],
   roamed : BOOLEAN, read : [of : Iface \cup {None}, rx : 0..Load]]   \* history

(* What there is to measure. *)
Worlds ==
  [ clock       |-> [now : Times, passed : 0..Hour],
    cpu         |-> [busy : 0..Load, idle : -1..Load],
    temperature |-> [1..ThermalZones -> 0..2],\* 0: not readable
    memory      |-> 0..Load,                  \* in use, of Load
    battery     |-> [1..2 -> Battery \cup {None}],
    hdmi        |-> [1..2 -> BOOLEAN],
    locks       |-> [Keyboards -> BOOLEAN],
    network     |-> Networks ]
Kinds == DOMAIN Worlds

Fresh(kind, world, kept, shown) ==
  [kind |-> kind, world |-> world, kept |-> kept, shown |-> shown,
   seen |-> world, undrawn |-> FALSE, need_redraw |-> TRUE]

----------------------------------------------------------------------------
(* A reading: what is kept, what is shown, and whether it has changed.     *)
(* seen and undrawn are history: what was there to see, and whether other  *)
(* values are shown than were drawn.                                       *)

Reading(m, kept, shown, changed) ==
  [m EXCEPT !.kept = kept, !.shown = shown, !.seen = m.world,
            !.undrawn = @ \/ shown # m.shown, !.need_redraw = @ \/ changed]

(* The same minute is not looked at further.  passed counts from the last  *)
(* reading that was.                                                       *)
data_update_clock(m) ==
  LET minute == m.world.now % Hour
      r == Reading(m, [m.kept EXCEPT !.prev_minute = minute], m.world.now, TRUE)
  IN IF ~ m.kept.time_detailed /\ m.kept.prev_minute = minute
     THEN Reading(m, m.kept, m.shown, FALSE)
     ELSE [r EXCEPT !.world.passed = 0]

(* iowait, which is counted as idle, may go back. *)
data_update_cpu(m) ==
  LET d_idle == m.world.idle % Wrap
      d_total == (m.world.busy + m.world.idle) % Wrap
      pct == IF d_total = 0 THEN 0
             ELSE (((d_total - d_idle) % Wrap) * 100) \div d_total
      r == Reading(m, None, pct, pct # m.shown)
  IN [r EXCEPT !.world = [busy |-> 0, idle |-> 0]]

Readable(world) == {z \in DOMAIN world : world[z] > 0}

CachedZone_blind(m) == m.kept # None
CachedZone(m) == m.kept # None /\ m.kept \in Readable(m.world)

(* The zone found last, or else the first that can be read. *)
data_update_temp(m) ==
  LET first == CHOOSE z \in Readable(m.world) : \A y \in Readable(m.world) : z <= y
  IN IF CachedZone(m)
     THEN Reading(m, m.kept, m.world[m.kept], m.world[m.kept] # m.shown)
     ELSE IF Readable(m.world) = {} THEN Reading(m, None, m.shown, FALSE)
     ELSE Reading(m, first, m.world[first], TRUE)

data_update_memory(m) ==
  LET pct == (m.world * 100) \div Load
  IN Reading(m, None, [pct |-> pct, used |-> m.world],
             m.shown # [pct |-> pct, used |-> m.world])

data_update_battery_hardware(m) ==
  LET bats == SelectSeq(m.world, LAMBDA b : b # None)
      b == IF bats = <<>> THEN [pct |-> 0, charging |-> FALSE] ELSE Head(bats)
  IN Reading(m, None, b, b # m.shown)

data_update_hdmi_hardware(m) ==
  LET on == \E c \in DOMAIN m.world : m.world[c]
  IN Reading(m, None, on, on # m.shown)

(* The last keyboard in the directory decides. *)
data_update_locks_hardware(m) ==
  LET last == CHOOSE k \in Keyboards : \A l \in Keyboards : l <= k
  IN Reading(m, None, m.world[last], m.world[last] # m.shown)

----------------------------------------------------------------------------
(* The network. *)

(* The first interface that is up. *)
Active(world) ==
  IF "wifi" \in world.up THEN "wifi" ELSE IF world.up # {} THEN "cable" ELSE None

Default(i) == IF i = "wifi" THEN "WiFi" ELSE "Ethernet"

(* The name is asked for when the interface is another one than before;    *)
(* found: nmcli or iwctl knew it.                                          *)
Renamed(m, i, found) ==
  IF m.kept.iface = i THEN m.kept
  ELSE [m.kept EXCEPT !.iface = i,
          !.name = IF i = "wifi" /\ found THEN m.world.ssid ELSE Default(i)]

Seen(i, ssid, roamed, bytes) ==
  [active |-> i, ssid |-> IF i = "wifi" THEN ssid ELSE None, roamed |-> roamed,
   bytes |-> bytes]

(* What the interface received since the last reading of any interface. *)
Speed(m, i) == (m.world.rx[i] - m.kept.prev_rx) % Wrap

data_sync_network(m, found) ==
  LET i == Active(m.world)
      kept == Renamed(m, i, found)
      offline == [name |-> "Offline", speed |-> 0, of |-> None]
      rx == m.world.rx[i]
      online == [name |-> kept.name, speed |-> Speed(m, i), of |-> m.world.read.of]
      read == Reading(m, [kept EXCEPT !.prev_rx = rx], online, TRUE)
  IN IF i = None
     THEN [Reading(m, m.kept, offline, TRUE) EXCEPT !.seen = Seen(None, None, FALSE, 0)]
     ELSE [read EXCEPT !.world.roamed = @ /\ m.kept.iface = i,
                       !.world.read = [of |-> i, rx |-> rx],
                       !.seen = Seen(i, m.world.ssid, @.roamed /\ m.kept.iface = i,
                                     rx - m.world.read.rx)]

----------------------------------------------------------------------------
(* data_init_fast takes all readings but that of the network. *)
Init ==
  \/ \E t \in Times :
       meter = data_update_clock(
         Fresh("clock", [now |-> t, passed |-> 0],
               [prev_minute |-> -1, time_detailed |-> FALSE], None))
  \/ \E w \in Worlds.cpu : meter = data_update_cpu(Fresh("cpu", w, None, 0))
  \/ \E w \in Worlds.temperature :
       meter = data_update_temp(Fresh("temperature", w, None, 0))
  \/ \E w \in Worlds.memory :
       meter = data_update_memory(Fresh("memory", w, None, [pct |-> 0, used |-> 0]))
  \/ \E w \in Worlds.battery :
       meter = data_update_battery_hardware(
                 Fresh("battery", w, None, [pct |-> 0, charging |-> FALSE]))
  \/ \E w \in Worlds.hdmi : meter = data_update_hdmi_hardware(Fresh("hdmi", w, None, FALSE))
  \/ \E w \in Worlds.locks : meter = data_update_locks_hardware(Fresh("locks", w, None, FALSE))
  \/ \E up \in SUBSET Iface :
       meter = Fresh("network",
                     [up |-> up, ssid |-> "A", rx |-> [i \in Iface |-> 0],
                      roamed |-> FALSE, read |-> [of |-> None, rx |-> 0]],
                     [iface |-> None, name |-> None, prev_rx |-> 0],
                     [name |-> None, speed |-> 0, of |-> None])

(* data_update_slow_timer, data_update_all_timer, data_sync_display and    *)
(* data_sync_network call these.                                           *)
Refresh(found) ==
  meter' = CASE meter.kind = "clock" -> data_update_clock(meter)
             [] meter.kind = "cpu" -> data_update_cpu(meter)
             [] meter.kind = "temperature" -> data_update_temp(meter)
             [] meter.kind = "memory" -> data_update_memory(meter)
             [] meter.kind = "battery" -> data_update_battery_hardware(meter)
             [] meter.kind = "hdmi" -> data_update_hdmi_hardware(meter)
             [] meter.kind = "locks" -> data_update_locks_hardware(meter)
             [] meter.kind = "network" -> data_sync_network(meter, found)

(* A click on the time shows it in the other form, at once. *)
ClickTime ==
  /\ meter.kind = "clock"
  /\ meter' = [data_update_clock(
                 [meter EXCEPT !.kept.time_detailed = ~ @, !.kept.prev_minute = -1])
               EXCEPT !.need_redraw = TRUE]

Draw ==
  /\ meter.need_redraw
  /\ meter' = [meter EXCEPT !.undrawn = FALSE, !.need_redraw = FALSE]

(* The clock runs, or jumps after a suspend. *)
TimePasses(d) ==
  /\ meter.kind = "clock"
  /\ meter' = [meter EXCEPT !.world.now = (@ + d) % (2 * Hour),
                            !.world.passed = IF @ + d > Hour THEN Hour ELSE @ + d]

(* Of the kinds whose world may become any other. *)
Change ==
  /\ meter.kind \in Kinds \ {"clock", "network"}
  /\ \E w \in Worlds[meter.kind] \ {meter.world} : meter' = [meter EXCEPT !.world = w]

UpOrDown(i) ==
  /\ meter.kind = "network"
  /\ meter' = [meter EXCEPT !.world.up = IF i \in @ THEN @ \ {i} ELSE @ \cup {i}]

Roam ==
  /\ meter.kind = "network"
  /\ meter' = [meter EXCEPT !.world.ssid = IF @ = "A" THEN "B" ELSE "A",
                            !.world.roamed = TRUE]

Traffic(i) ==
  /\ meter.kind = "network" /\ meter.world.rx[i] < Load
  /\ meter' = [meter EXCEPT !.world.rx[i] = @ + 1]

Next ==
  \/ \E found \in BOOLEAN : Refresh(found)
  \/ ClickTime \/ Draw \/ Roam \/ Change
  \/ \E d \in 1..Hour : TimePasses(d)
  \/ \E i \in Iface : UpOrDown(i) \/ Traffic(i)

Spec == Init /\ [][Next]_meter

----------------------------------------------------------------------------
(* Type invariant: the readings keep to what there is to measure.          *)
TypeOK ==
  /\ meter.kind \in Kinds /\ meter.world \in Worlds[meter.kind]
  /\ meter.need_redraw \in BOOLEAN

(* The time shown is that of the last reading, data_update_clock.          *)
ClockRight(m) == m.seen.passed < Hour => m.shown = m.seen.now

(* The share of the time that was not idle, data_update_cpu.               *)
CpuRight(m) ==
  LET busy == m.seen.busy  idle == m.seen.idle
  IN idle >= 0 =>
       m.shown = IF busy + idle = 0 THEN 0 ELSE (busy * 100) \div (busy + idle)

(* That of a zone that can be read, data_update_temp.                      *)
TemperatureRight(m) ==
  LET zones == Readable(m.seen)
  IN zones # {} => \E z \in zones : m.shown = m.seen[z]

(* What all keyboards say, data_update_locks_hardware.                     *)
LocksRight(m) ==
  \A on \in BOOLEAN :
    (\A k \in Keyboards : m.seen[k] = on) => m.shown = on

(* The interface in use, its network and traffic, data_sync_network.       *)
NetworkRight(m) ==
  LET seen == m.seen  shown == m.shown
  IN shown.name # None =>
       /\ (seen.active = None) = (shown.name = "Offline")
       /\ seen.active = "cable" => shown.name = "Ethernet"
       /\ seen.active = "wifi" /\ ~ seen.roamed => shown.name \in {"WiFi", seen.ssid}
       /\ seen.active # None /\ seen.active = shown.of => shown.speed = seen.bytes

(* What m shows is right, and drawn or about to be.                        *)
Current(m) ==
  /\ m.kind = "clock" => ClockRight(m)
  /\ m.kind = "cpu" => CpuRight(m)
  /\ m.kind = "temperature" => TemperatureRight(m)
  /\ m.kind = "locks" => LocksRight(m)
  /\ m.kind = "network" => NetworkRight(m)
  /\ m.undrawn => m.need_redraw

(* However what is measured changes between two readings, the values shown *)
(* are those of the last reading and not left over from one before it, and *)
(* values that differ from the ones drawn are about to be drawn.  Excused: *)
(* a clock that moves by an hour between two ticks, iowait that went back, *)
(* keyboards that disagree on a lock, temperatures none of which can be    *)
(* read any more, a wifi that has changed its network, also between going  *)
(* offline and coming back, while no other interface was in use (the name  *)
(* is kept with the interface), and the traffic of another interface than  *)
(* before.  An interface that is plugged in again keeps its counters here. *)
ReadingsAreCurrent == Current(meter)
=============================================================================
