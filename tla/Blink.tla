-------------------------------- MODULE Blink --------------------------------
(***************************************************************************)
(* The test program of firmware/sandbox (blink.c): it waits for an input   *)
(* pin, then switches an output pin on and off, each time for a period of  *)
(* the cycle counter, which it reads in two halves while it runs.          *)
(***************************************************************************)
EXTENDS Naturals

CONSTANTS Half,       (* values of one half of the counter, 2^32           *)
          BLINK_PERIOD, NUM_BLINKS,
          Speed       (* bound: cycles between two steps of the program    *)

ASSUME PeriodAssumption == /\ Half \in Nat \ {0} /\ BLINK_PERIOD \in Nat /\ NUM_BLINKS \in Nat
                           /\ Speed \in Nat /\ BLINK_PERIOD + Speed < Half

VARIABLES place,              (* where the program is                      *)
          input, oe, out,     (* pin 0; pin 1: enabled, level              *)
          cycles,             (* the counter; it starts anywhere           *)
          low,                (* the half that has been read               *)
          begin, i,
          entered,            (* history: cycles when wait began to read,  *)
          torn                (* and a carry fell between two halves       *)

blinkVars == <<place, input, oe, out, cycles, low, begin, i, entered, torn>>

Cycles == 0 .. (Half * Half) - 1
Elapsed(from, to) == (to + (Half * Half) - from) % (Half * Half)
Time == \E n \in 1 .. Speed : cycles' = (cycles + n) % (Half * Half)

(* rdcycle, rdcycleh: the halves are of two different moments.             *)
TickLow == low                       (* high shifted out of 32 bits     *)
Tick == (Half * (cycles \div Half)) + low

Configured == /\ place = "start" /\ place' = "poll" /\ oe' = FALSE /\ out' = 0
              /\ UNCHANGED <<input, low, begin, i, entered, torn>>

PollPin == /\ place = "poll"
           /\ IF input THEN place' = "on" /\ oe' = TRUE ELSE UNCHANGED <<place, oe>>
           /\ UNCHANGED <<input, out, low, begin, i, entered, torn>>

SwitchOn  == /\ place = "on"
             /\ IF i < NUM_BLINKS THEN out' = 1 /\ place' = "low0" ELSE place' = "end" /\ UNCHANGED out
             /\ UNCHANGED <<input, oe, low, begin, i, entered, torn>>

SwitchOff == /\ place = "waited"
             /\ out' = 0 /\ place' = IF out = 1 THEN "low0" ELSE "on"
             /\ i' = IF out = 1 THEN i ELSE i + 1
             /\ UNCHANGED <<input, oe, low, begin, entered, torn>>

(* wait: the counter is read once before the loop and once in every turn.  *)
ReadLow ==
    /\ place \in {"low0", "low"} /\ low' = cycles % Half
    /\ IF place = "low0" THEN place' = "high0" /\ entered' = cycles /\ torn' = FALSE
                         ELSE place' = "high" /\ UNCHANGED <<entered, torn>>
    /\ UNCHANGED <<input, oe, out, begin, i>>

Torn == torn \/ cycles % Half < low
ReadBegin ==
    /\ place = "high0" /\ place' = "low" /\ begin' = Tick /\ torn' = Torn
    /\ UNCHANGED <<input, oe, out, low, i, entered>>

ReadAgain ==
    /\ place = "high" /\ torn' = Torn
    /\ place' = IF Elapsed(begin, Tick) < BLINK_PERIOD THEN "low" ELSE "waited"
    /\ UNCHANGED <<input, oe, out, low, begin, i, entered>>

Pin == /\ ~ input /\ input' = TRUE
       /\ UNCHANGED <<place, oe, out, low, begin, i, entered, torn>>

BlinkInit == /\ place = "start" /\ input = FALSE /\ oe = FALSE /\ out = 0
             /\ cycles \in Cycles /\ low = 0 /\ begin = 0 /\ i = 0 /\ entered = 0 /\ torn = FALSE

Blinks == /\ \/ Configured \/ PollPin \/ SwitchOn \/ SwitchOff
             \/ ReadLow \/ ReadBegin \/ ReadAgain \/ Pin
          /\ Time

------------------------------------------------------------------------------
(* A level is held for the period, unless the counter carried between the  *)
(* reads of its two halves.                                                *)
LevelIsHeld == place = "waited" /\ ~ torn => Elapsed(entered, cycles) >= BLINK_PERIOD
=============================================================================
