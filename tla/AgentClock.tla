---------------------------- MODULE AgentClock -----------------------------
(***************************************************************************)
(* The clock that mqtt-agent-task.c gives to coreMQTT.                     *)
(*                                                                         *)
(* coreMQTT subtracts two results of prvGetTimeMs() to see how long it has *)
(* waited, for acknowledgments, pings and the rest of a packet.  The tick  *)
(* count and all the arithmetic are of 32 bits and wrap, the tick count at *)
(* 1000 Hz after 49 days: the difference must be the time that has passed  *)
(* all the same, whenever the program was started and however often the    *)
(* count has wrapped.                                                      *)
(***************************************************************************)
EXTENDS Integers

Modulus == 4294967296      \* 2^32

\* mqttexampleMILLISECONDS_PER_TICK
CONSTANT MillisecondsPerTick

\* xTaskGetTickCount() after so many ticks.
xTaskGetTickCount(ticks) == ticks % Modulus

\* The entry time is what the function itself returned at the start of the
\* task, when ulGlobalEntryTimeMs was still 0.
prvGetTimeMs(ticks, ulGlobalEntryTimeMs) ==
    (((xTaskGetTickCount(ticks) * MillisecondsPerTick) % Modulus) - ulGlobalEntryTimeMs) % Modulus

\* calculateElapsedTime() of coreMQTT.
Elapsed(later, start) == (later - start) % Modulus
=============================================================================
