--------------------------- MODULE FirmwareProofs ----------------------------
(***************************************************************************)
(* The firmware: the level of the blinking pin for every width of the      *)
(* counter, period and speed of the processor, and the boot loader for     *)
(* every image.                                                            *)
(***************************************************************************)
EXTENDS Firmware, TLAPS

(***************************************************************************)
(* Arithmetic of the counter.  Its two halves are a quotient and a         *)
(* remainder, and it wraps at Full.                                        *)
(***************************************************************************)
Full == Half * Half

LEMMA FullFacts ==
    /\ Full \in Nat /\ Full >= Half /\ Half \in Nat /\ Half >= 1
    /\ BLINK_PERIOD \in Nat /\ Speed \in Nat /\ Speed < Half
    /\ BLINK_PERIOD > 0 => BLINK_PERIOD + 4 * Speed < Full
<1>1. /\ Half \in Nat /\ Half >= 1 /\ BLINK_PERIOD \in Nat /\ Speed \in Nat
      /\ BLINK_PERIOD + Speed < Half
  BY PeriodAssumption
<1>2. \A h \in Nat : h >= 1 => h * h \in Nat /\ h * h >= h
  OBVIOUS
<1>3. \A h \in Int : h * h >= 4 * h - 4
  <2>1. \A d \in Int : d * d >= 0
    OBVIOUS
  <2> TAKE h \in Int
  <2>2. (h - 2) * (h - 2) = h * h - 4 * h + 4
    OBVIOUS
  <2>3. (h - 2) * (h - 2) >= 0 /\ h * h \in Int
    BY <2>1
  <2> QED
    BY <2>2, <2>3
<1>4. Full >= 4 * Half - 4 /\ Full \in Nat /\ Full >= Half
  BY <1>1, <1>2, <1>3 DEF Full
<1>5. BLINK_PERIOD > 0 => BLINK_PERIOD + 4 * Speed <= 4 * Half - 7
  BY <1>1
<1> QED
  BY <1>1, <1>4, <1>5

(* Quotient and remainder are unique.                                      *)
LEMMA DivMod ==
    ASSUME NEW h \in Nat, h >= 1, NEW q \in Int, NEW r \in 0 .. h - 1
    PROVE  (h * q + r) \div h = q /\ (h * q + r) % h = r
<1> DEFINE a == h * q + r
           p == a \div h
           s == a % h
<1>1. a \in Int /\ p \in Int /\ s \in 0 .. h - 1 /\ a = h * p + s
  OBVIOUS
<1> HIDE DEF p, s
<1>2. h * p - h * q = r - s
  BY <1>1
<1>3. h * (p - q) = r - s /\ r - s < h /\ r - s > -h
  BY <1>1, <1>2
<1>4. \A d \in Int : d >= 1 => h * d >= h
  OBVIOUS
<1>5. \A d \in Int : d <= -1 => h * d <= -h
  OBVIOUS
<1>6. p - q = 0
  BY <1>1, <1>3, <1>4, <1>5
<1> QED
  BY <1>1, <1>6 DEF p, s

(* One wrap.                                                               *)
LEMMA WrapOnce ==
    ASSUME NEW n \in Nat, n >= 1, NEW x \in 0 .. (2 * n) - 1
    PROVE  x % n = IF x < n THEN x ELSE x - n
<1>1. CASE x < n
  <2>1. x = n * 0 + x
    OBVIOUS
  <2> QED
    BY <1>1, <2>1, DivMod
<1>2. CASE x >= n
  <2>1. x = n * 1 + (x - n) /\ x - n \in 0 .. n - 1
    BY <1>2
  <2> QED
    BY <1>2, <2>1, DivMod
<1> QED
  BY <1>1, <1>2

Later(c, n) == (c + n) % Full

LEMMA CyclesFacts == Cycles = 0 .. Full - 1 /\ 0 \in Cycles
  BY FullFacts DEF Cycles, Full

(* The counter after less than two turns.                                  *)
LEMMA LaterIs ==
    ASSUME NEW c \in Nat, NEW n \in Nat, c + n < 2 * Full
    PROVE  Later(c, n) = IF c + n < Full THEN c + n ELSE c + n - Full
<1>1. Full \in Nat /\ Full >= 1
  BY FullFacts
<1> DEFINE x == c + n
<1>2. x \in 0 .. (2 * Full) - 1
  BY <1>1
<1> HIDE DEF x
<1>3. x % Full = IF x < Full THEN x ELSE x - Full
  BY <1>1, <1>2, WrapOnce
<1>4. Later(c, n) = x % Full
  BY DEF Later, x
<1> QED
  BY <1>1, <1>3, <1>4 DEF x

(* Moving on twice is moving on once by the sum, and the time that passed  *)
(* can be read off while it is less than a turn of the counter.            *)
LEMMA LaterFacts ==
    ASSUME NEW c \in Cycles, NEW m \in Nat, NEW n \in Nat, m + n < Full
    PROVE  /\ Later(c, m) \in Cycles
           /\ Later(Later(c, m), n) = Later(c, m + n)
           /\ Elapsed(c, Later(c, m)) = m
<1>1. Full \in Nat /\ Full >= 1 /\ c \in 0 .. Full - 1 /\ c \in Nat
  BY FullFacts, CyclesFacts
<1>2. Later(c, m) = IF c + m < Full THEN c + m ELSE c + m - Full
  BY <1>1, LaterIs
<1>3. Later(c, m + n) = IF c + (m + n) < Full THEN c + (m + n) ELSE c + (m + n) - Full
  <2>1. m + n \in Nat /\ c + (m + n) < 2 * Full
    BY <1>1
  <2> QED
    BY <1>1, <2>1, LaterIs
<1>4. Later(c, m) \in 0 .. Full - 1 /\ Later(c, m) \in Nat
  BY <1>1, <1>2
<1>5. Later(Later(c, m), n) = IF Later(c, m) + n < Full THEN Later(c, m) + n
                              ELSE Later(c, m) + n - Full
  <2>1. Later(c, m) + n < 2 * Full
    BY <1>1, <1>4
  <2> QED
    BY <1>4, <2>1, LaterIs
<1>6. Later(Later(c, m), n) = Later(c, m + n)
  BY <1>1, <1>2, <1>3, <1>5
<1>7. Elapsed(c, Later(c, m)) = m
  <2> DEFINE d == Later(c, m) + Full - c
  <2>1. Elapsed(c, Later(c, m)) = Later(d, 0)
    <3>1. d + 0 = d
      BY <1>1, <1>4
    <3> QED
      BY <3>1 DEF Elapsed, Later, Full
  <2>2. d \in Nat /\ d + 0 < 2 * Full /\ d = IF c + m < Full THEN m + Full ELSE m
    BY <1>1, <1>2, <1>4
  <2> HIDE DEF d
  <2>3. Later(d, 0) = IF d + 0 < Full THEN d + 0 ELSE d + 0 - Full
    BY <2>2, LaterIs
  <2> QED
    BY <1>1, <2>1, <2>2, <2>3
<1> QED
  BY <1>4, <1>6, <1>7, CyclesFacts

(* The two halves read at two moments are the counter at the first one,    *)
(* when the low half did not carry in between.                             *)
LEMMA NoCarry ==
    ASSUME NEW c \in Cycles, NEW n \in 0 .. Half - 1,
           Later(c, n) % Half >= c % Half
    PROVE  (Half * (Later(c, n) \div Half)) + (c % Half) = c
<1> DEFINE q == c \div Half
           r == c % Half
<1>0. Half \in Nat /\ Half >= 1 /\ Full \in Nat /\ Full >= 1 /\ c \in 0 .. Full - 1
  BY FullFacts, CyclesFacts
<1>1. q \in Int /\ r \in 0 .. Half - 1 /\ c = Half * q + r
  BY <1>0
<1> HIDE DEF q, r
<1>2. Later(c, n) = IF c + n < Full THEN c + n ELSE c + n - Full
  <2>1. c \in Nat /\ n \in Nat /\ c + n < 2 * Full
    BY <1>0, FullFacts
  <2> QED
    BY <2>1, LaterIs
<1>3. ~(r + n >= Half)
  <2> SUFFICES ASSUME r + n >= Half PROVE FALSE
    OBVIOUS
  <2>1. r + n - Half \in 0 .. Half - 1 /\ r + n - Half < r
    BY <1>0, <1>1
  <2>2. c + n = Half * (q + 1) + (r + n - Half)
    BY <1>0, <1>1
  <2>3. c + n - Full = Half * (q + 1 - Half) + (r + n - Half)
    BY <1>0, <1>1, <2>2 DEF Full
  <2>4. q + 1 \in Int /\ q + 1 - Half \in Int
    BY <1>0, <1>1
  <2>5. (c + n) % Half = r + n - Half
    <3>1. (Half * (q + 1) + (r + n - Half)) % Half = r + n - Half
      BY <1>0, <2>1, <2>4, DivMod
    <3> QED
      BY <2>2, <3>1
  <2>6. (c + n - Full) % Half = r + n - Half
    <3>1. (Half * (q + 1 - Half) + (r + n - Half)) % Half = r + n - Half
      BY <1>0, <2>1, <2>4, DivMod
    <3> QED
      BY <2>3, <3>1
  <2>7. Later(c, n) % Half < r
    BY <1>2, <2>1, <2>5, <2>6
  <2>8. Later(c, n) % Half \in Int
    BY <1>0, <1>1, <1>2, <2>5, <2>6
  <2> QED
    BY <1>1, <2>7, <2>8 DEF r
<1>4. r + n \in 0 .. Half - 1 /\ c + n = Half * q + (r + n)
  BY <1>0, <1>1, <1>3
<1>5. c + n < Full
  <2>1. q <= Half - 1
    <3> SUFFICES ASSUME q >= Half PROVE FALSE
      BY <1>0, <1>1
    <3>1. Half * q >= Full
      <4>1. q - Half \in Nat
        BY <1>0, <1>1
      <4>2. Half * (q - Half) >= 0
        BY <1>0, <4>1
      <4>3. Half * (q - Half) = Half * q - Full
        BY <1>0, <1>1 DEF Full
      <4> QED
        BY <1>0, <1>1, <4>2, <4>3
    <3> QED
      BY <1>0, <1>1, <3>1
  <2>2. Half * q <= Full - Half
    <3>1. Half - 1 - q \in Nat
      BY <1>0, <1>1, <2>1
    <3>2. Half * (Half - 1 - q) >= 0
      BY <1>0, <3>1
    <3>3. Half * (Half - 1 - q) = Full - Half - Half * q
      BY <1>0, <1>1 DEF Full
    <3> QED
      BY <1>0, <1>1, <3>2, <3>3
  <2> QED
    BY <1>0, <1>1, <1>4, <2>2
<1>6. Later(c, n) \div Half = q
  <2>1. (Half * q + (r + n)) \div Half = q
    BY <1>0, <1>1, <1>4, DivMod
  <2> QED
    BY <1>2, <1>4, <1>5, <2>1
<1> QED
  BY <1>1, <1>6 DEF r
-----------------------------------------------------------------------------
(***************************************************************************)
(* A wait of the program: where it is, how long ago it began.  The bounds  *)
(* on the time that passed keep it below a turn of the counter.            *)
(***************************************************************************)
Places == {"start", "poll", "on", "low0", "high0", "low", "high", "waited", "end"}

WaitSoFar ==
    /\ place = "high0" => /\ low = entered % Half
                          /\ \E n \in 0 .. Speed : cycles = Later(entered, n)
    /\ place \in {"low", "high", "waited"} => begin = entered
    /\ place = "low" => \E e \in 0 .. BLINK_PERIOD + 2 * Speed : cycles = Later(entered, e)
    /\ place = "high" => \E e \in 0 .. BLINK_PERIOD + 2 * Speed, n \in 0 .. Speed :
                            /\ low = Later(entered, e) % Half
                            /\ cycles = Later(entered, e + n)
    /\ place = "waited" => \E e \in BLINK_PERIOD .. BLINK_PERIOD + 4 * Speed :
                              cycles = Later(entered, e)

BlinkInv ==
    /\ cycles \in Cycles /\ entered \in Cycles /\ torn \in BOOLEAN
    /\ place \in Places /\ input \in BOOLEAN
    /\ place \notin {"start", "poll"} => input
    /\ BLINK_PERIOD > 0 /\ ~torn => WaitSoFar

LEMMA BlinkInvInit == BlinkInit => BlinkInv
  BY CyclesFacts DEF BlinkInit, BlinkInv, WaitSoFar, Places

LEMMA TimeFacts ==
    ASSUME BlinkInv, Time
    PROVE  /\ cycles' \in Cycles
           /\ \E n \in 1 .. Speed : n \in Nat /\ n < Half /\ cycles' = Later(cycles, n)
<1>1. PICK n \in 1 .. Speed : cycles' = Later(cycles, n)
  BY DEF Time, Later, Full
<1>2. n \in Nat /\ n < Half /\ n < Full /\ n + 0 < Full
  BY FullFacts
<1>3. cycles' \in Cycles
  BY <1>1, <1>2, LaterFacts DEF BlinkInv
<1> QED
  BY <1>1, <1>2, <1>3

LEMMA BlinkInvStep == BlinkInv /\ Blinks => BlinkInv'
<1> SUFFICES ASSUME BlinkInv, Blinks PROVE BlinkInv'
  OBVIOUS
<1>0. /\ cycles \in Cycles /\ entered \in Cycles /\ Time
      /\ 0 \in Cycles
  BY CyclesFacts DEF BlinkInv, Blinks
<1>1. PICK n \in 1 .. Speed : n \in Nat /\ n < Half /\ cycles' = Later(cycles, n)
  BY <1>0, TimeFacts
<1>2. cycles' \in Cycles
  BY <1>0, TimeFacts
<1> SUFFICES /\ entered' \in Cycles /\ torn' \in BOOLEAN
             /\ place' \in Places /\ input' \in BOOLEAN
             /\ place' \notin {"start", "poll"} => input'
             /\ BLINK_PERIOD > 0 /\ ~torn' => WaitSoFar'
  BY <1>2 DEF BlinkInv
<1>3. CASE Configured \/ PollPin \/ SwitchOn \/ SwitchOff \/ Pin
  <2>1. place' \in {"start", "poll", "on", "low0", "end"}
    BY <1>3 DEF Configured, PollPin, SwitchOn, SwitchOff, Pin, BlinkInv, Places
  <2>2. WaitSoFar'
    BY <2>1 DEF WaitSoFar
  <2>3. entered' = entered /\ torn' = torn /\ input' \in BOOLEAN
    BY <1>3 DEF Configured, PollPin, SwitchOn, SwitchOff, Pin, BlinkInv
  <2>4. place' \notin {"start", "poll"} => input'
    BY <1>3 DEF Configured, PollPin, SwitchOn, SwitchOff, Pin, BlinkInv
  <2> QED
    BY <2>1, <2>2, <2>3, <2>4 DEF BlinkInv, Places
<1>4. CASE ReadLow /\ place = "low0"
  <2>1. place' = "high0" /\ entered' = cycles /\ ~torn' /\ torn' \in BOOLEAN
        /\ low' = cycles % Half /\ input' = input
    BY <1>4 DEF ReadLow
  <2>2. WaitSoFar'
    <3>1. n \in 0 .. Speed /\ cycles' = Later(entered', n)
      BY <1>1, <2>1
    <3> QED
      BY <2>1, <3>1 DEF WaitSoFar
  <2> QED
    BY <1>0, <1>4, <2>1, <2>2 DEF BlinkInv, Places
<1>5. CASE ReadLow /\ place = "low"
  <2>1. place' = "high" /\ entered' = entered /\ torn' = torn /\ begin' = begin
        /\ low' = cycles % Half /\ input' = input
    BY <1>5 DEF ReadLow
  <2>2. ASSUME BLINK_PERIOD > 0, ~torn PROVE WaitSoFar'
    <3>1. PICK e \in 0 .. BLINK_PERIOD + 2 * Speed : cycles = Later(entered, e)
      BY <1>5, <2>2 DEF BlinkInv, WaitSoFar
    <3>2. e \in Nat /\ e + n < Full
      BY <1>1, <2>2, FullFacts
    <3>3. cycles' = Later(entered, e + n) /\ n \in 0 .. Speed
      BY <1>0, <1>1, <3>1, <3>2, LaterFacts
    <3>4. begin = entered
      BY <1>5, <2>2 DEF BlinkInv, WaitSoFar
    <3> QED
      BY <2>1, <3>1, <3>3, <3>4 DEF WaitSoFar
  <2> QED
    BY <1>0, <1>5, <2>1, <2>2 DEF BlinkInv, Places
<1>6. CASE ReadBegin
  <2>1. place = "high0" /\ place' = "low" /\ entered' = entered /\ input' = input
        /\ torn' = (torn \/ cycles % Half < low) /\ begin' = Tick
    BY <1>6 DEF ReadBegin, Torn
  <2>2. ASSUME BLINK_PERIOD > 0, ~torn' PROVE WaitSoFar'
    <3>1. low = entered % Half /\ ~torn
      BY <2>1, <2>2 DEF BlinkInv, WaitSoFar
    <3>2. PICK m \in 0 .. Speed : cycles = Later(entered, m)
      BY <2>1, <2>2 DEF BlinkInv, WaitSoFar
    <3>3. m \in Nat /\ m \in 0 .. Half - 1 /\ m + n < Full
      BY <1>1, <2>2, FullFacts
    <3>4. cycles' = Later(entered, m + n) /\ m + n \in 0 .. BLINK_PERIOD + 2 * Speed
      BY <1>0, <1>1, <3>2, <3>3, FullFacts, LaterFacts
    <3>5. begin' = entered
      <4>1. cycles % Half \in Int /\ entered % Half \in Int
        BY <1>0, CyclesFacts, FullFacts
      <4>3. ~(cycles % Half < entered % Half)
        BY <2>1, <2>2, <3>1
      <4>2. Later(entered, m) % Half >= entered % Half
        <5>1. \A x, y \in Int : ~(x < y) => x >= y
          OBVIOUS
        <5>2. cycles % Half >= entered % Half
          BY <4>1, <4>3, <5>1
        <5> QED
          BY <3>2, <5>2
      <4> QED
        BY <1>0, <2>1, <3>1, <3>2, <3>3, <4>2, NoCarry DEF Tick
    <3> QED
      BY <2>1, <3>4, <3>5 DEF WaitSoFar
  <2> QED
    BY <1>0, <2>1, <2>2 DEF BlinkInv, Places
<1>7. CASE ReadAgain
  <2>1. place = "high" /\ entered' = entered /\ input' = input /\ begin' = begin
        /\ torn' = (torn \/ cycles % Half < low)
        /\ place' = IF Elapsed(begin, Tick) < BLINK_PERIOD THEN "low" ELSE "waited"
    BY <1>7 DEF ReadAgain, Torn
  <2>2. ASSUME BLINK_PERIOD > 0, ~torn' PROVE WaitSoFar'
    <3>1. begin = entered /\ ~torn
      BY <2>1, <2>2 DEF BlinkInv, WaitSoFar
    <3>2. PICK e \in 0 .. BLINK_PERIOD + 2 * Speed, m \in 0 .. Speed :
              /\ low = Later(entered, e) % Half
              /\ cycles = Later(entered, e + m)
      BY <2>1, <2>2 DEF BlinkInv, WaitSoFar
    <3>3. /\ e \in Nat /\ m \in Nat /\ m \in 0 .. Half - 1 /\ e + m \in Nat
          /\ e + m < Full /\ (e + m) + n < Full
      BY <1>1, <2>2, FullFacts
    <3>4. /\ cycles' = Later(entered, (e + m) + n)
          /\ Later(entered, e) \in Cycles
          /\ cycles = Later(Later(entered, e), m)
          /\ Elapsed(entered, Later(entered, e)) = e
      BY <1>0, <1>1, <3>2, <3>3, LaterFacts
    <3>5. Tick = Later(entered, e)
      <4>1. cycles % Half \in Int /\ Later(entered, e) % Half \in Int
        BY <1>0, <3>4, CyclesFacts, FullFacts
      <4>3. ~(cycles % Half < Later(entered, e) % Half)
        BY <2>1, <2>2, <3>2
      <4>2. Later(Later(entered, e), m) % Half >= Later(entered, e) % Half
        <5>1. \A x, y \in Int : ~(x < y) => x >= y
          OBVIOUS
        <5>2. cycles % Half >= Later(entered, e) % Half
          BY <4>1, <4>3, <5>1
        <5> QED
          BY <3>4, <5>2
      <4> QED
        BY <3>2, <3>3, <3>4, <4>2, NoCarry DEF Tick
    <3>6. Elapsed(begin, Tick) = e
      BY <3>1, <3>4, <3>5
    <3>7. CASE e < BLINK_PERIOD
      <4>1. (e + m) + n \in 0 .. BLINK_PERIOD + 2 * Speed
        BY <1>1, <3>7, FullFacts
      <4>2. place' = "low"
        BY <2>1, <3>6, <3>7
      <4> QED
        BY <2>1, <3>1, <3>4, <4>1, <4>2 DEF WaitSoFar
    <3>8. CASE ~(e < BLINK_PERIOD)
      <4>1. (e + m) + n \in BLINK_PERIOD .. BLINK_PERIOD + 4 * Speed
        BY <1>1, <3>8, FullFacts
      <4>2. place' = "waited"
        BY <2>1, <3>6, <3>8
      <4> QED
        BY <2>1, <3>1, <3>4, <4>1, <4>2 DEF WaitSoFar
    <3> QED
      BY <3>7, <3>8
  <2>3. torn' \in BOOLEAN /\ place' \in Places
    BY <2>1 DEF Places
  <2> QED
    BY <1>0, <2>1, <2>2, <2>3 DEF BlinkInv
<1> QED
  BY <1>3, <1>4, <1>5, <1>6, <1>7 DEF Blinks, ReadLow

LEMMA BlinkInvImplies == BlinkInv => LevelIsHeld
<1> SUFFICES ASSUME BlinkInv, place = "waited", ~torn
             PROVE  Elapsed(entered, cycles) >= BLINK_PERIOD
  BY DEF LevelIsHeld
<1>1. CASE BLINK_PERIOD > 0
  <2>1. PICK e \in BLINK_PERIOD .. BLINK_PERIOD + 4 * Speed : cycles = Later(entered, e)
    BY <1>1 DEF BlinkInv, WaitSoFar
  <2>2. e \in Nat /\ e + 0 < Full /\ e >= BLINK_PERIOD
    BY <1>1, FullFacts
  <2>3. Elapsed(entered, cycles) = e
    BY <2>1, <2>2, LaterFacts DEF BlinkInv
  <2> QED
    BY <2>2, <2>3
<1>2. CASE BLINK_PERIOD = 0
  <2>1. Elapsed(entered, cycles) \in Nat
    <3>1. entered \in 0 .. Full - 1 /\ cycles \in 0 .. Full - 1 /\ Full \in Nat /\ Full >= 1
      BY CyclesFacts, FullFacts DEF BlinkInv
    <3>2. (cycles + Full - entered) % Full \in Nat
      BY <3>1
    <3> QED
      BY <3>2 DEF Elapsed, Full
  <2> QED
    BY <1>2, <2>1
<1> QED
  BY <1>1, <1>2, FullFacts

(* Each level of the pin lasts the period, for every width of the counter, *)
(* wherever it starts, unless a carry fell between two halves.             *)
THEOREM LevelsAreHeld == Spec => []LevelIsHeld
<1>1. Init => BlinkInv
  BY BlinkInvInit DEF Init
<1>2. BlinkInv /\ [Next]_vars => BlinkInv'
  <2> SUFFICES ASSUME BlinkInv, [Next]_vars PROVE BlinkInv'
    OBVIOUS
  <2>1. CASE Run
    BY <2>1, BlinkInvStep DEF Run
  <2>2. CASE UNCHANGED blinkVars
    BY <2>2 DEF blinkVars, BlinkInv, WaitSoFar
  <2> QED
    BY <2>1, <2>2 DEF Next, vars
<1> QED
  BY <1>1, <1>2, BlinkInvImplies, PTL DEF Spec
-----------------------------------------------------------------------------
(***************************************************************************)
(* The boot loader, until a transaction ends with the slave selected.      *)
(*                                                                         *)
(* The flash follows the driver: it has no command between transactions,   *)
(* takes the first word of a transfer as one, and answers with the second. *)
(***************************************************************************)
Instruction == data[1] = [cmd |-> READ, word |-> Address \div 4]
WordWanted  == (Address \div 4) % Len(flash)
WordAnswered == data[0].word = flash[WordWanted + 1]

Selection ==
    /\ go = tip
    /\ tip => at \in {"poll", "release"} /\ ss
    /\ at \notin {"go", "poll", "release"} => ~ss
    /\ at = "go" => ss /\ mode = "idle"
    /\ ~ss => mode = "idle"

Transaction ==
    job # "ident" =>
        /\ at \in {"command", "select", "go"} => char_len = 64
        /\ at \in {"select", "go"} => Instruction
        /\ at \in {"poll", "release"} /\ tip =>
               \/ left = 2 /\ mode = "idle" /\ Instruction
               \/ left = 1 /\ mode = READ /\ addr = WordWanted
        /\ at \in {"poll", "release"} /\ ~tip => WordAnswered
        /\ at = "answer" => WordAnswered

(* The words copied are those that follow the size, and not too many.      *)
CopiedSoFar == ram = [n \in RamWords |-> IF 4 * n < received THEN flash[n + 2] ELSE 0]
Copied ==
    /\ CopiedSoFar /\ \E k \in Nat : received = 4 * k
    /\ job # "word" => received = 0 /\ at # "jump"
    /\ job = "word" => size = flash[1] /\ received < size + 4
    /\ job = "word" /\ at # "jump" => received < size
    /\ at = "jump" => received >= size

(* The four words of the data register.                                    *)
IsWords(d) == d = [n \in 0 .. 3 |-> d[n]]

BootInv ==
    /\ flash \in Images /\ missed \in BOOLEAN
    /\ ~missed => /\ tip \in BOOLEAN /\ ss \in BOOLEAN
                  /\ job \in {"ident", "size", "word"}
                  /\ IsWords(data) /\ left \in Int /\ char_len \in {0, 64}
                  /\ Selection /\ Transaction /\ (Whole => Copied)

LEMMA BootInvInit == BootInit => BootInv
<1> SUFFICES ASSUME BootInit PROVE BootInv
  OBVIOUS
<1>1. IsWords(data)
  BY DEF BootInit, IsWords
<1>2. Selection /\ Transaction
  BY DEF BootInit, Selection, Transaction
<1>3. Copied
  <2>1. received = 0 /\ job = "ident" /\ at = "init" /\ ram = [n \in RamWords |-> 0]
    BY DEF BootInit
  <2>2. \A n \in RamWords : n \in Nat
    BY DEF RamWords
  <2>3. CopiedSoFar
    BY <2>1, <2>2 DEF CopiedSoFar
  <2> QED
    BY <2>1, <2>3 DEF Copied
<1>4. left \in Int /\ char_len \in {0, 64}
  BY DEF BootInit
<1>5. /\ flash \in Images /\ missed \in BOOLEAN /\ tip \in BOOLEAN /\ ss \in BOOLEAN
      /\ job \in {"ident", "size", "word"}
  BY DEF BootInit
<1> QED
  BY <1>1, <1>2, <1>3, <1>4, <1>5 DEF BootInv

(* A step that leaves main's variables alone copies nothing.               *)
LEMMA NothingCopied ==
    ASSUME Whole => Copied, UNCHANGED mainVars, UNCHANGED flash, at # "jump", at' # "jump"
    PROVE  (Whole => Copied)'
<1>1. CopiedSoFar' <=> CopiedSoFar
  BY DEF CopiedSoFar, mainVars
<1> QED
  BY <1>1 DEF Copied, Whole, mainVars

(* The flash has the word that is wanted while the copy is not complete.   *)
LEMMA WordIsThere ==
    ASSUME BootInv, ~missed, Whole, at # "jump"
    PROVE  /\ flash \in Seq(Nat) /\ Len(flash) \in Nat /\ Len(flash) >= 1 /\ flash[1] \in Nat
           /\ job = "size" => WordWanted = 0
           /\ job = "word" => /\ WordWanted = (received \div 4) + 1
                              /\ \E k \in Nat : /\ received = 4 * k /\ received \div 4 = k
                                                /\ k \in RamWords /\ received + 4 < SizeSpan
<1>1. flash \in Seq(Nat) /\ flash # <<>> /\ flash[1] <= 4 * (Len(flash) - 1) /\ 4 * Len(flash) <= AddrSpan
  <2>1. flash \in Seq(0 .. SizeSpan - 1) /\ flash # <<>>
    BY ImageAssumption DEF BootInv
  <2>2. flash \in Seq(Nat)
    BY <2>1, SpanAssumption
  <2> QED
    BY <2>1, <2>2 DEF Whole
<1>2. Len(flash) \in Nat /\ Len(flash) >= 1 /\ flash[1] \in Nat
  BY <1>1
<1>3. \A x \in Nat, y \in Nat \ {0} : x < y => x % y = x
  <2> SUFFICES ASSUME NEW x \in Nat, NEW y \in Nat \ {0}, x < y PROVE x % y = x
    OBVIOUS
  <2>1. x \in 0 .. (2 * y) - 1 /\ y >= 1
    OBVIOUS
  <2> QED
    BY <2>1, WrapOnce
<1>4. job = "size" => WordWanted = 0
  <2> SUFFICES ASSUME job = "size" PROVE WordWanted = 0
    OBVIOUS
  <2>1. Address = 0
    BY <1>3, SpanAssumption DEF Address
  <2>2. 0 % Len(flash) = 0
    BY <1>2, <1>3
  <2> QED
    BY <2>1, <2>2 DEF WordWanted
<1>5. ASSUME job = "word"
      PROVE  /\ WordWanted = (received \div 4) + 1
             /\ \E k \in Nat : /\ received = 4 * k /\ received \div 4 = k
                               /\ k \in RamWords /\ received + 4 < SizeSpan
  <2>1. PICK k \in Nat : received = 4 * k /\ 4 * k < flash[1]
    BY <1>5 DEF BootInv, Copied
  <2> DEFINE l == Len(flash)
             z == flash[1]
  <2>2. /\ l \in Nat /\ l >= 1 /\ z \in Nat /\ z <= 4 * (l - 1) /\ 4 * l <= AddrSpan
        /\ received = 4 * k /\ 4 * k < z
    BY <1>1, <1>2, <2>1
  <2> HIDE DEF l, z
  <2>3. k + 1 < l /\ 4 + received < AddrSpan /\ received + 4 < SizeSpan /\ 4 + received = 4 * (k + 1)
    BY <2>2, SpanAssumption
  <2>4. Address = 4 * (k + 1)
    <3>1. (4 + received) % AddrSpan = 4 + received
      BY <1>3, <2>2, <2>3, SpanAssumption
    <3> QED
      BY <1>5, <2>3, <3>1 DEF Address
  <2>5. received \div 4 = k /\ Address \div 4 = k + 1
    BY <2>2, <2>4
  <2>6. (k + 1) % l = k + 1
    BY <1>3, <2>2, <2>3
  <2>7. k \in RamWords
    <3>1. k <= (SizeSpan \div 4) - 1
      BY <2>2, <2>3, SpanAssumption
    <3> QED
      BY <3>1, SpanAssumption DEF RamWords
  <2> QED
    BY <2>2, <2>3, <2>5, <2>6, <2>7 DEF WordWanted, l
<1> QED
  BY <1>1, <1>2, <1>4, <1>5

(* The controller: the flash takes the instruction, then gives the word.   *)
LEMMA ShiftStep ==
    ASSUME BootInv, Shift, missed' = FALSE
    PROVE  BootInv'
<1>0. /\ ~missed /\ tip /\ at' = at /\ ss' = ss /\ flash' = flash
      /\ UNCHANGED mainVars /\ char_len' = char_len
      /\ left' = left - 1 /\ tip' = (left > 1) /\ go' = (left > 1)
      /\ data' = [data EXCEPT ![left - 1] = [cmd |-> "none", word |-> Answer]]
      /\ mode' = IF ss /\ mode = "idle" THEN data[left - 1].cmd ELSE mode
      /\ addr' = IF mode = READ THEN (addr + 1) % Len(flash)
                 ELSE IF ss /\ mode = "idle" THEN data[left - 1].word % Len(flash) ELSE addr
  BY DEF Shift, GoAfter
<1>1. Selection /\ Transaction /\ (Whole => Copied) /\ ss /\ at \in {"poll", "release"}
  BY <1>0 DEF BootInv, Selection
<1>2. Selection'
  BY <1>0, <1>1 DEF Selection
<1>3. (Whole => Copied)'
  BY <1>0, <1>1, NothingCopied
<1>4. Transaction'
  <2> SUFFICES ASSUME job # "ident"
               PROVE  /\ tip' => left' = 1 /\ mode' = READ /\ addr' = WordWanted'
                      /\ ~tip' => WordAnswered'
    BY <1>0, <1>1 DEF Transaction, mainVars
  <2>0. WordWanted' = WordWanted
    BY <1>0 DEF WordWanted, Address, mainVars
  <2>1. CASE left = 2 /\ mode = "idle" /\ Instruction
    <3>1. tip' /\ left' = 1
      <4>1. left > 1 /\ left - 1 = 1
        BY <2>1
      <4> QED
        BY <1>0, <4>1, Zenon
    <3>2. data[left - 1] = [cmd |-> READ, word |-> Address \div 4]
      BY <2>1 DEF Instruction
    <3>3. mode' = READ
      BY <1>0, <1>1, <2>1, <3>2
    <3>4. addr' = WordWanted
      <4>1. mode # READ
        BY <2>1 DEF READ
      <4> QED
        BY <1>0, <1>1, <2>1, <3>2, <4>1 DEF WordWanted
    <3> QED
      BY <2>0, <3>1, <3>3, <3>4
  <2>2. CASE left = 1 /\ mode = READ /\ addr = WordWanted
    <3>1. ~tip'
      <4>1. ~(left > 1)
        BY <2>2
      <4> QED
        BY <1>0, <4>1, Zenon
    <3>2. Answer = flash[WordWanted + 1]
      BY <1>1, <2>2 DEF Answer, READ, RDID
    <3>3. data'[0] = [cmd |-> "none", word |-> Answer]
      <4>1. IsWords(data)
        BY <1>0 DEF BootInv
      <4> QED
        BY <1>0, <2>2, <4>1 DEF IsWords
    <3>4. WordAnswered'
      BY <1>0, <2>0, <3>2, <3>3 DEF WordAnswered
    <3> QED
      BY <3>1, <3>4
  <2> QED
    BY <1>0, <1>1, <2>1, <2>2 DEF Transaction
<1>5. IsWords(data') /\ tip' \in BOOLEAN /\ left' \in Int
  <2>1. IsWords(data)
    BY <1>0 DEF BootInv
  <2>2. IsWords(data')
    BY <1>0, <2>1 DEF IsWords
  <2>3. left \in Int /\ left - 1 \in Int /\ (left > 1) \in BOOLEAN
    BY <1>0 DEF BootInv
  <2> QED
    BY <1>0, <2>2, <2>3
<1> QED
  BY <1>0, <1>2, <1>3, <1>4, <1>5 DEF BootInv, mainVars

(* The driver up to GO: the slave is selected with the instruction in the  *)
(* word that is sent first.                                                *)
LEMMA PrepareStep ==
    ASSUME BootInv, missed' = FALSE, Clear \/ WaitIdle \/ Configure \/ Command \/ Select \/ Go
    PROVE  BootInv'
<1>0. /\ ~missed /\ UNCHANGED mainVars /\ flash' = flash /\ addr' = addr
      /\ at \in {"init", "wait", "config", "command", "select", "go"}
      /\ Selection /\ Transaction /\ (Whole => Copied)
  BY DEF Clear, WaitIdle, Configure, Command, Select, Go, Driver, Rest, flashVars, BootInv
<1>1. ~tip /\ ~go
  BY <1>0 DEF Selection, BootInv
<1>2. ASSUME at' \in {"wait", "config", "command", "select", "go", "poll"},
             Selection', Transaction',
             tip' \in BOOLEAN, ss' \in BOOLEAN, IsWords(data'),
             left' \in Int, char_len' \in {0, 64}
      PROVE  BootInv'
  <2>1. (Whole => Copied)'
    BY <1>0, <1>2, NothingCopied
  <2> QED
    BY <1>0, <1>2, <2>1 DEF BootInv, mainVars
<1>8. left \in Int /\ char_len \in {0, 64} /\ tip \in BOOLEAN /\ ss \in BOOLEAN /\ IsWords(data)
  BY <1>0 DEF BootInv
<1>3. CASE Clear \/ WaitIdle
  <2>1. /\ left' = left /\ char_len' \in {0, 64}
    BY <1>3, <1>8 DEF Clear, WaitIdle, ctrlVars
  <2>5. /\ at' \in {"wait", "config"} /\ ss' = ss /\ tip' = tip /\ data' = data /\ mode' = mode
        /\ ~go'
    BY <1>1, <1>3 DEF Clear, WaitIdle, Driver, Rest, ctrlVars, flashVars
  <2>2. at \notin {"go", "poll", "release"}
    BY <1>3 DEF Clear, WaitIdle, Driver
  <2>3. Selection'
    <3>1. tip' = FALSE /\ go' = FALSE
      BY <1>1, <1>3, <1>8 DEF Clear, WaitIdle, ctrlVars, Selection, BootInv
    <3> QED
      BY <1>0, <1>1, <2>5, <2>2, <3>1 DEF Selection, BootInv
  <2>4. Transaction'
    BY <2>5 DEF Transaction
  <2> QED
    BY <1>2, <1>8, <2>1, <2>3, <2>4, <2>5
<1>4. CASE Configure
  <2>1. /\ at = "config" /\ at' = "command" /\ ss' = ss /\ tip' = tip /\ data' = data
        /\ mode' = mode /\ go' = go /\ job' = job
        /\ job # "ident" => char_len' = 64
        /\ left' = left /\ char_len' \in {0, 64}
    BY <1>1, <1>4, <1>8 DEF Configure, Driver, Rest, flashVars, mainVars
  <2>2. Selection'
    BY <1>0, <1>1, <2>1 DEF Selection
  <2>3. Transaction'
    BY <2>1 DEF Transaction
  <2> QED
    BY <1>2, <1>8, <2>1, <2>2, <2>3
<1>5. CASE Command
  <2>1. /\ at = "command" /\ at' = (IF job = "ident" \/ Fitting THEN "select" ELSE "_exit")
        /\ ss' = ss /\ tip' = tip /\ mode' = mode /\ go' = go /\ job' = job
        /\ received' = received /\ char_len' = char_len /\ left' = left
    BY <1>5 DEF Command, Driver, Rest, flashVars, mainVars
  <2>2. job # "ident" => char_len = 64
    BY <1>0, <2>1 DEF Transaction
  <2>3. at' = "select" /\ (job = "ident" \/ Fitting)
    <3>1. 64 >= 32 /\ 64 % 32 = 0
      OBVIOUS
    <3>2. job = "ident" \/ Fitting
      BY <2>2, <3>1 DEF Fitting
    <3> QED
      BY <2>1, <3>2
  <2>4. IsWords(data)
    BY <1>0 DEF BootInv
  <2>5. IsWords(data')
    BY <1>5, <2>4 DEF Command, IsWords
  <2>6. job # "ident" => Instruction'
    <3> SUFFICES ASSUME job # "ident" PROVE data'[1] = [cmd |-> READ, word |-> Address' \div 4]
      BY DEF Instruction
    <3>1. data' = [data EXCEPT ![(64 \div 32) - 1] = [cmd |-> READ, word |-> Address \div 4]]
      BY <1>1, <1>5, <2>2, <2>3 DEF Command
    <3>2. (64 \div 32) - 1 = 1
      OBVIOUS
    <3>3. Address' = Address
      BY <2>1 DEF Address
    <3> QED
      BY <2>4, <3>1, <3>2, <3>3 DEF IsWords
  <2>7. Selection'
    BY <1>0, <1>1, <2>1, <2>3 DEF Selection
  <2>8. Transaction'
    BY <2>1, <2>2, <2>3, <2>6 DEF Transaction
  <2> QED
    BY <1>2, <1>8, <2>1, <2>3, <2>5, <2>7, <2>8
<1>6. CASE Select
  <2>1. /\ at = "select" /\ at' = "go" /\ ss' /\ ss' \in BOOLEAN /\ mode' = mode
        /\ tip' = tip /\ data' = data /\ go' = go /\ char_len' = char_len /\ left' = left
    BY <1>1, <1>6 DEF Select, Driver, WriteSS
  <2>2. mode = "idle"
    BY <1>0, <2>1 DEF Selection
  <2>3. Selection'
    BY <1>0, <1>1, <2>1, <2>2 DEF Selection
  <2>4. Transaction'
    BY <1>0, <2>1 DEF Transaction, Instruction, Address, mainVars
  <2> QED
    BY <1>2, <1>8, <2>1, <2>3, <2>4
<1>7. CASE Go
  <2>1. /\ at = "go" /\ at' = "poll" /\ ss' = ss /\ mode' = mode /\ tip' /\ go'
        /\ tip' \in BOOLEAN /\ go' = tip' /\ data' = data /\ left' = Units /\ char_len' = char_len
    BY <1>1, <1>7 DEF Go, Driver, Rest, flashVars
  <2>2. Selection'
    BY <1>0, <2>1 DEF Selection
  <2>5. Units \in Int
    BY <1>8 DEF Units
  <2>3. job # "ident" => Units = 2
    BY <1>0, <2>1 DEF Transaction, Units
  <2>4. Transaction'
    BY <1>0, <2>1, <2>3 DEF Transaction, Selection, Instruction, Address, mainVars
  <2> QED
    BY <1>2, <1>8, <2>1, <2>2, <2>4, <2>5
<1> QED
  BY <1>3, <1>4, <1>5, <1>6, <1>7

(* The polling loop, and what main does with the answer.                   *)
LEMMA FinishStep ==
    ASSUME BootInv, missed' = FALSE, Poll \/ Release \/ Identified \/ Sized \/ Stored
    PROVE  BootInv'
<1>0. /\ ~missed /\ flash' = flash /\ addr' = addr /\ data' = data /\ tip' = tip /\ go' = go
      /\ left' = left /\ char_len' = char_len
      /\ at \in {"poll", "release", "answer"}
      /\ Selection /\ Transaction /\ (Whole => Copied)
      /\ IsWords(data) /\ tip \in BOOLEAN /\ ss \in BOOLEAN
      /\ left \in Int /\ char_len \in {0, 64}
      /\ flash \in Images /\ job \in {"ident", "size", "word"}
  BY DEF Poll, Release, Identified, Sized, Stored, Driver, ctrlVars, flashVars, BootInv
<1>1. CASE Poll
  <2>1. /\ at = "poll" /\ at' = (IF go THEN "release" ELSE "answer") /\ UNCHANGED mainVars
        /\ ss' = ss /\ mode' = mode /\ ~(~go /\ ss)
    BY <1>1 DEF Poll, ctrlVars, flashVars
  <2>2. Selection'
    BY <1>0, <2>1 DEF Selection
  <2>3. Transaction'
    BY <1>0, <2>1 DEF Transaction, Selection, Instruction, WordAnswered, WordWanted, Address,
                      mainVars
  <2>4. (Whole => Copied)'
    BY <1>0, <2>1, NothingCopied
  <2> QED
    BY <1>0, <2>1, <2>2, <2>3, <2>4 DEF BootInv, mainVars
<1>2. CASE Release
  <2>1. /\ at = "release" /\ at' = "poll" /\ UNCHANGED mainVars
        /\ ss' = (IF tip THEN ss ELSE FALSE)
        /\ mode' = (IF tip THEN mode ELSE "idle")
    BY <1>2 DEF Release, Driver, WriteSS
  <2>2. Selection'
    BY <1>0, <2>1 DEF Selection
  <2>3. Transaction'
    BY <1>0, <2>1 DEF Transaction, Selection, Instruction, WordAnswered, WordWanted, Address,
                      mainVars
  <2>4. (Whole => Copied)'
    BY <1>0, <2>1, NothingCopied
  <2> QED
    BY <1>0, <2>1, <2>2, <2>3, <2>4 DEF BootInv, mainVars
<1>3. CASE Identified
  <2>1. /\ at = "answer" /\ at' = "init" /\ job = "ident" /\ job' = "size"
        /\ UNCHANGED <<size, received, ram, ss, mode>>
    BY <1>3 DEF Identified, Driver, ctrlVars, flashVars
  <2>2. Selection'
    BY <1>0, <2>1 DEF Selection
  <2>3. Transaction'
    BY <2>1 DEF Transaction
  <2>4. (Whole => Copied)'
    <3>1. CopiedSoFar' <=> CopiedSoFar
      BY <1>0, <2>1 DEF CopiedSoFar
    <3> QED
      BY <1>0, <2>1, <3>1 DEF Copied, Whole
  <2> QED
    BY <1>0, <2>1, <2>2, <2>3, <2>4 DEF BootInv
<1>4. CASE Sized
  <2>1. /\ at = "answer" /\ job = "size" /\ job' = "word" /\ size' = data[0].word
        /\ at' = IF 0 < data[0].word THEN "init" ELSE "jump"
        /\ UNCHANGED <<received, ram, ss, mode>>
    BY <1>4 DEF Sized, NextWord, ctrlVars, flashVars
  <2>3. Selection'
    BY <1>0, <2>1 DEF Selection
  <2>4. Transaction'
    BY <2>1 DEF Transaction
  <2>5. (Whole => Copied)'
    <3> SUFFICES ASSUME Whole PROVE Copied'
      BY <1>0 DEF Whole
    <3>1. size' = flash[1] /\ flash[1] \in Nat
      <4>1. WordAnswered /\ WordWanted = 0 /\ flash[1] \in Nat
        BY <1>0, <2>1, WordIsThere DEF Transaction
      <4>2. data[0].word = flash[0 + 1]
        BY <4>1 DEF WordAnswered
      <4> QED
        BY <2>1, <4>1, <4>2
    <3>2. Copied /\ received = 0 /\ received' = 0
      BY <1>0, <2>1 DEF Copied
    <3>3. CopiedSoFar'
      BY <1>0, <2>1, <3>2 DEF Copied, CopiedSoFar
    <3>4. IF at' = "jump" THEN 0 >= size' ELSE 0 < size'
      BY <2>1, <3>1
    <3>5. (\E k \in Nat : received = 4 * k)' /\ 0 < size' + 4
      BY <3>1, <3>2
    <3> QED
      BY <1>0, <2>1, <3>1, <3>2, <3>3, <3>4, <3>5 DEF Copied
  <2> QED
    BY <1>0, <2>1, <2>3, <2>4, <2>5 DEF BootInv
<1>5. CASE Stored
  <2>1. /\ at = "answer" /\ job = "word" /\ job' = job /\ size' = size
        /\ ram' = [ram EXCEPT ![received \div 4] = data[0].word]
        /\ received' = (received + 4) % SizeSpan
        /\ at' = IF received' < size THEN "init" ELSE "jump"
        /\ UNCHANGED <<ss, mode>>
    BY <1>5 DEF Stored, NextWord, ctrlVars, flashVars
  <2>3. Selection'
    BY <1>0, <2>1 DEF Selection
  <2>4. Transaction'
    BY <2>1 DEF Transaction
  <2>5. (Whole => Copied)'
    <3> SUFFICES ASSUME Whole PROVE Copied'
      BY <1>0 DEF Whole
    <3>1. WordAnswered /\ Copied
      BY <1>0, <2>1 DEF Transaction
    <3>2. PICK k \in Nat : /\ received = 4 * k /\ received \div 4 = k
                          /\ k \in RamWords /\ received + 4 < SizeSpan
      BY <1>0, <2>1, WordIsThere
    <3>3. data[0].word = flash[k + 2] /\ flash[1] \in Nat
      <4>1. WordWanted = k + 1 /\ flash[1] \in Nat
        BY <1>0, <2>1, <3>2, WordIsThere
      <4>2. WordWanted + 1 = k + 2
        BY <4>1
      <4> QED
        BY <3>1, <4>1, <4>2 DEF WordAnswered
    <3>4. received' = 4 * (k + 1)
      <4> DEFINE r == received + 4
      <4>1. r \in Nat /\ r < SizeSpan /\ SizeSpan \in Nat /\ r = 4 * (k + 1)
        BY <3>2, SpanAssumption
      <4>2. r \in 0 .. (2 * SizeSpan) - 1 /\ SizeSpan >= 1
        BY <4>1
      <4> HIDE DEF r
      <4>3. r % SizeSpan = r
        BY <4>1, <4>2, WrapOnce
      <4> QED
        BY <2>1, <4>1, <4>3 DEF r
    <3>5. CopiedSoFar'
      <4>1. ram = [n \in RamWords |-> IF 4 * n < received THEN flash[n + 2] ELSE 0]
        BY <3>1 DEF Copied, CopiedSoFar
      <4>2. ram' = [n \in RamWords |-> IF n = k THEN flash[k + 2] ELSE ram[n]]
        BY <2>1, <3>2, <3>3, <4>1
      <4>3. ASSUME NEW n \in RamWords
            PROVE  ram'[n] = IF 4 * n < received' THEN flash[n + 2] ELSE 0
        <5>1. n \in Nat
          BY DEF RamWords
        <5>2. 4 * n < received' <=> n = k \/ 4 * n < received
          BY <3>2, <3>4, <5>1
        <5> QED
          BY <4>1, <4>2, <5>2
      <4> QED
        BY <1>0, <4>2, <4>3 DEF CopiedSoFar
    <3>6. size = flash[1] /\ received < size
      BY <2>1, <3>1 DEF Copied
    <3>7. received' < size + 4 /\ IF at' = "jump" THEN received' >= size ELSE received' < size
      BY <2>1, <3>2, <3>3, <3>4, <3>6
    <3>8. k + 1 \in Nat
      OBVIOUS
    <3> QED
      BY <1>0, <2>1, <3>4, <3>5, <3>6, <3>7, <3>8 DEF Copied
  <2> QED
    BY <1>0, <2>1, <2>3, <2>4, <2>5 DEF BootInv
<1> QED
  BY <1>1, <1>2, <1>3, <1>4, <1>5

LEMMA BootInvStep == BootInv /\ (Boots \/ Shift) => BootInv'
<1> SUFFICES ASSUME BootInv, Boots \/ Shift PROVE BootInv'
  OBVIOUS
<1>0. missed' \in BOOLEAN
  BY DEF Boots, Shift, Clear, WaitIdle, Configure, Command, Select, Go, Poll, Release,
     Identified, Sized, Stored, Rest, BootInv
<1>1. CASE missed' = FALSE
  BY <1>1, ShiftStep, PrepareStep, FinishStep DEF Boots
<1>2. CASE missed' = TRUE
  <2>1. flash' = flash
    BY DEF Boots, Shift, Clear, WaitIdle, Configure, Command, Select, Go, Poll, Release,
       Identified, Sized, Stored, Rest, flashVars, BootInv
  <2> QED
    BY <1>2, <2>1 DEF BootInv
<1> QED
  BY <1>0, <1>1, <1>2

LEMMA BootInvNext == BootInv /\ [Next]_vars => BootInv'
<1> SUFFICES ASSUME BootInv, [Next]_vars PROVE BootInv'
  OBVIOUS
<1>1. CASE Boots \/ Shift
  BY <1>1, BootInvStep
<1>2. CASE UNCHANGED bootVars
  <2>1. Selection' = Selection /\ Transaction' = Transaction /\ (Whole => Copied)' = (Whole => Copied)
    BY <1>2 DEF bootVars, ctrlVars, flashVars, mainVars, Selection, Transaction, Copied, CopiedSoFar,
       Whole, Instruction, WordAnswered, WordWanted, Address
  <2> QED
    BY <1>2, <2>1 DEF bootVars, ctrlVars, flashVars, mainVars, BootInv
<1> QED
  BY <1>1, <1>2 DEF Next, Run, vars

(* What is jumped to is the image in the flash, and nothing else has been  *)
(* written, for every image that holds the words its size announces,       *)
(* unless a slave was not released.                                        *)
THEOREM ImagesAreCopied == Spec => []ImageIsCopied
<1>1. Init => BootInv
  BY BootInvInit DEF Init
<1>2. BootInv => ImageIsCopied
  <2> SUFFICES ASSUME BootInv, at = "jump", ~missed, Whole
               PROVE  /\ received >= flash[1] /\ received < flash[1] + 4
                      /\ \A n \in RamWords : ram[n] = IF 4 * n < received THEN flash[n + 2] ELSE 0
    BY DEF ImageIsCopied
  <2> QED
    BY DEF BootInv, Copied, CopiedSoFar
<1> QED
  BY <1>1, <1>2, BootInvNext, PTL DEF Spec

(* GO falls together with the transfer, and rises in no other place.       *)
BusyInv == go \in BOOLEAN /\ go = tip /\ WaitsForTransfer

(* No register is written, and no answer read, during a transfer: the      *)
(* driver looks at GO of the control register, the controller at its       *)
(* transfer, and the two agree, also after a slave that was not released.  *)
THEOREM TransfersAreWaitedFor == Spec => []WaitsForTransfer
<1>1. Init => BusyInv
  BY DEF Init, BootInit, BusyInv, WaitsForTransfer
<1>2. BusyInv /\ [Next]_vars => BusyInv'
  <2> SUFFICES ASSUME BusyInv, [Next]_vars PROVE BusyInv'
    OBVIOUS
  <2>1. CASE Shift
    <3>1. at' = at /\ tip /\ go' = (left > 1) /\ tip' = (left > 1)
      BY <2>1 DEF Shift, GoAfter
    <3> QED
      BY <3>1 DEF BusyInv, WaitsForTransfer
  <2>2. CASE Poll
    <3>1. at' = (IF go THEN "release" ELSE "answer") /\ go' = go /\ tip' = tip
      BY <2>2 DEF Poll, ctrlVars
    <3> QED
      BY <3>1 DEF BusyInv, WaitsForTransfer
  <2>3. CASE Release
    <3>1. at' = "poll" /\ go' = go /\ tip' = tip
      BY <2>3 DEF Release, Driver
    <3> QED
      BY <3>1 DEF BusyInv, WaitsForTransfer
  <2>4. CASE Go
    <3>1. at' = "poll" /\ go' = TRUE /\ tip' = TRUE
      BY <2>4 DEF Go, Driver
    <3> QED
      BY <3>1 DEF BusyInv, WaitsForTransfer
  <2>5. CASE Clear \/ WaitIdle \/ Configure \/ Command \/ Select \/ Identified \/ Sized \/ Stored
    <3>1. at \notin {"poll", "release"}
      BY <2>5 DEF Clear, WaitIdle, Configure, Command, Select, Identified, Sized, Stored, Driver
    <3>2. tip = FALSE /\ go = FALSE
      BY <3>1 DEF BusyInv, WaitsForTransfer
    <3>3. go' = FALSE /\ tip' = FALSE
      BY <2>5, <3>2 DEF Clear, WaitIdle, Configure, Command, Select, Identified, Sized, Stored, ctrlVars
    <3> QED
      BY <3>3 DEF BusyInv, WaitsForTransfer
  <2>6. CASE UNCHANGED bootVars
    BY <2>6 DEF bootVars, ctrlVars, BusyInv, WaitsForTransfer
  <2> QED
    BY <2>1, <2>2, <2>3, <2>4, <2>5, <2>6 DEF Next, Boots, Run, vars
<1>3. BusyInv => WaitsForTransfer
  BY DEF BusyInv
<1> QED
  BY <1>1, <1>2, <1>3, PTL DEF Spec
=============================================================================
