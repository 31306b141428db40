------------------------------- MODULE SpiBoot -------------------------------
(***************************************************************************)
(* The boot loader in firmware/sandbox (spi.h, spi.c) on the SPI master    *)
(* (rtl/spi) with a serial flash behind it: main reads the flash's         *)
(* identity, the size of the image and the image, a word per transaction,  *)
(* into RAM, and jumps there.                                              *)
(*                                                                         *)
(* The processor and the shift register run side by side: a step of the    *)
(* driver is one access to a register, a step of the controller moves 32   *)
(* bits in and out. The flash (external) answers 32 bits at a time.        *)
(***************************************************************************)
EXTENDS Integers, Sequences

CONSTANTS Images,     (* what the flash may hold: sequences of words, the  *)
                      (* size in bytes of the rest first                   *)
          Ident,      (* a word of the flash's identity                    *)
          Noise,      (* a word nobody drives                              *)
          SizeSpan,   (* values of a size_t, 2^32                          *)
          AddrSpan    (* bytes a flash address of 24 bits names            *)

ASSUME ImageAssumption == Images \subseteq Seq(0 .. SizeSpan - 1) \ {<<>>} /\ {Ident, Noise} \subseteq 0 .. SizeSpan - 1
ASSUME SpanAssumption  == /\ AddrSpan \in Nat \ {0} /\ SizeSpan \in Nat /\ AddrSpan <= SizeSpan
                          /\ AddrSpan % 4 = 0 /\ SizeSpan % 4 = 0

VARIABLES at, job,            (* the driver: place, and what main wants    *)
          go, char_len,       (* ctrl                                      *)
          ss, tip, left, data,(* select, transfer in progress, words left  *)
          flash, mode, addr,  (* the flash: words, what it is sending, next*)
          size, received, ram,
          polled,             (* the driver has polled since the last word *)
          missed              (* history: a transaction has ended with the *)
                              (* slave still selected                      *)

(* The words of RAM that are written: its address and received go up       *)
(* together, and wrap together.                                            *)
RamWords == 0 .. (SizeSpan \div 4) - 1

ctrlVars  == <<go, char_len, ss, tip, left, data>>
flashVars == <<flash, mode, addr>>
mainVars  == <<job, size, received, ram>>
bootVars  == <<at, ctrlVars, flashVars, mainVars, polled, missed>>

READ == "read"
RDID == "id"
Units == IF char_len = 0 THEN 4 ELSE char_len \div 32     (* {!(|len), len} *)

------------------------------------------------------------------------------
(* spi_top.v: a write to a register is not taken during a transfer. A      *)
(* slave that is no longer selected forgets what it was sending.           *)
WriteSS(v) == IF tip THEN UNCHANGED <<ss, mode>>
              ELSE ss' = v /\ (IF v THEN UNCHANGED mode ELSE mode' = "idle")

(* 32 bits take hundreds of clocks at CLOCK_DIVIDER, so the driver polls  *)
(* at least once in between. They go out of the place where as many come   *)
(* in. A flash that has no command takes this word for one; otherwise it   *)
(* goes on sending.                                                        *)
Answer == CASE ~ ss          -> Noise
            [] mode = "idle" -> IF data[left - 1].cmd = RDID THEN Ident ELSE Noise
            [] mode = RDID   -> Ident
            [] mode = READ   -> flash[addr + 1]

(* ctrl's GO falls with the transfer, as tip does on its own.              *)
GoForEver(n) == TRUE
GoTooShort(n) == n > 2
GoAfter(n)   == n > 1

Shift ==
    /\ tip /\ polled /\ polled' = FALSE
    /\ data' = [data EXCEPT ![left - 1] = [cmd |-> "none", word |-> Answer]]
    /\ mode' = IF ss /\ mode = "idle" THEN data[left - 1].cmd ELSE mode
    /\ addr' = IF mode = READ THEN (addr + 1) % Len(flash)
               ELSE IF ss /\ mode = "idle" THEN data[left - 1].word % Len(flash) ELSE addr
    /\ left' = left - 1
    /\ tip' = (left > 1) /\ go' = GoAfter(left)
    /\ UNCHANGED <<at, mainVars, char_len, ss, flash, missed>>

------------------------------------------------------------------------------
(* The driver. spi_init: CTRL is cleared, unless a transfer runs, and      *)
(* waited for.                                                             *)
Driver(from, to) == at = from /\ at' = to
Rest == UNCHANGED <<mainVars, flashVars, polled, missed>>

Clear == /\ Driver("init", "wait") /\ Rest
         /\ IF tip THEN UNCHANGED <<go, char_len>> ELSE go' = FALSE /\ char_len' = 0
         /\ UNCHANGED <<ss, tip, left, data>>

WaitIdle == /\ at = "wait" /\ at' = (IF go THEN "wait" ELSE "config")
            /\ Rest /\ UNCHANGED ctrlVars

(* The modes, the divider and, for a word, the length of the transaction.  *)
Configure == /\ Driver("config", "command") /\ Rest
             /\ char_len' = IF tip \/ job = "ident" THEN char_len ELSE 64
             /\ UNCHANGED <<go, ss, tip, left, data>>

(* The instruction goes to the data register that is sent first. main's    *)
(* job decides the address: the size is word 0, the image follows.         *)
AddressOfSize == received % AddrSpan
Address == (IF job = "size" THEN 0 ELSE 4 + received) % AddrSpan
Fitting == char_len >= 32 /\ char_len % 32 = 0
Command ==
    /\ Driver("command", IF job = "ident" \/ Fitting THEN "select" ELSE "_exit") /\ Rest
    /\ data' = IF tip \/ ~ (job = "ident" \/ Fitting) THEN data
               ELSE IF job = "ident" THEN [data EXCEPT ![3] = [cmd |-> RDID, word |-> 0]]
               ELSE [data EXCEPT ![(char_len \div 32) - 1] = [cmd |-> READ, word |-> Address \div 4]]
    /\ UNCHANGED <<go, char_len, ss, tip, left>>

Select == /\ Driver("select", "go") /\ WriteSS(TRUE)
          /\ UNCHANGED <<mainVars, flash, addr, polled, missed, go, char_len, tip, left, data>>

(* GO; the transfer begins on the next clock, before another access.       *)
Go == /\ Driver("go", "poll") /\ Rest
      /\ go' = TRUE /\ tip' = TRUE /\ left' = IF tip THEN left ELSE Units
      /\ UNCHANGED <<char_len, ss, data>>

(* while (CTRL & GO) SS &= ~1: without a semicolon after the condition,    *)
(* the write that deselects the slave is the body of the loop.             *)
Poll == /\ at = "poll" /\ at' = (IF go THEN "release" ELSE "answer")
        /\ polled' = TRUE /\ missed' = (missed \/ (~ go /\ ss))
        /\ UNCHANGED <<mainVars, flashVars, ctrlVars>>

Release == /\ Driver("release", "poll") /\ WriteSS(FALSE)
           /\ UNCHANGED <<mainVars, flash, addr, polled, missed, go, char_len, tip, left, data>>

(* main. What RDID answered is not looked at.                              *)
Identified == /\ Driver("answer", "init") /\ job = "ident" /\ job' = "size"
              /\ UNCHANGED <<ctrlVars, flashVars, size, received, ram, polled, missed>>

NextWord(r, s) == IF r < s THEN at' = "init" ELSE at' = "jump"

Sized == /\ at = "answer" /\ job = "size" /\ job' = "word"
         /\ size' = data[0].word /\ NextWord(0, data[0].word)
         /\ UNCHANGED <<ctrlVars, flashVars, received, ram, polled, missed>>

Stored == /\ at = "answer" /\ job = "word"
          /\ ram' = [ram EXCEPT ![received \div 4] = data[0].word]
          /\ received' = (received + 4) % SizeSpan
          /\ NextWord((received + 4) % SizeSpan, size)
          /\ UNCHANGED <<ctrlVars, flashVars, job, size, polled, missed>>

BootInit == /\ at = "init" /\ job = "ident"
            /\ go = FALSE /\ char_len = 0 /\ ss = FALSE /\ tip = FALSE /\ left = 0
            /\ data = [n \in 0 .. 3 |-> [cmd |-> "none", word |-> 0]]
            /\ flash \in Images /\ mode = "idle" /\ addr = 0
            /\ size = 0 /\ received = 0 /\ ram = [n \in RamWords |-> 0] /\ polled = FALSE /\ missed = FALSE

Boots == \/ Clear \/ WaitIdle \/ Configure \/ Command \/ Select \/ Go \/ Poll \/ Release
         \/ Identified \/ Sized \/ Stored

------------------------------------------------------------------------------
(* A transfer runs only while the driver is in its polling loop: it does   *)
(* not write a register that would not take it, nor read an answer of      *)
(* which bits are missing.                                                 *)
WaitsForTransfer == tip => at \in {"poll", "release"}

(* The flash has the words its first one announces.                        *)
Whole == flash[1] <= 4 * (Len(flash) - 1) /\ 4 * Len(flash) <= AddrSpan

(* What is jumped to is the image, and nothing else is written, unless a   *)
(* slave that was not released took the next command for a continuation of *)
(* the last one.                                                           *)
ImageIsCopied == at = "jump" /\ ~ missed /\ Whole =>
    /\ received >= flash[1] /\ received < flash[1] + 4
    /\ \A n \in RamWords : ram[n] = IF 4 * n < received THEN flash[n + 2] ELSE 0

(* "Select Slave inactive": a slave is not selected between transactions.  *)
ReleasedAfterwards == at = "answer" => ~ ss

(* Whatever the flash answers, the loader ends if the size it reads is one *)
(* that received can reach, and otherwise, as with all ones of an erased   *)
(* flash, never: received is a multiple of 4 and wraps.                    *)
BootEnds == <>[](at = "jump" <=> size <= SizeSpan - 4)
=============================================================================
