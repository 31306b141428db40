---------------------------- MODULE MCSimulator ------------------------------
(* Bytes of two bits, so words of eight; three registers; pages of eight   *)
(* bytes. Word n encodes the n-th instruction below, any other word none.  *)
EXTENDS Simulator, TLC

Ins(section, name, rd, rs1, rs2, imm) ==
    [section |-> section, name |-> name, rd |-> rd, rs1 |-> rs1, rs2 |-> rs2, imm |-> imm]

Alus  == <<"add", "slt", "sltu", "and", "or", "xor", "sll", "srl", "sra">>
Shifts == {"sll", "srl", "sra"}
Code ==
    [n \in 1 .. 9 |-> Ins("R", Alus[n], 1, 1, 2, 0)]
    \o [n \in 1 .. 9 |-> Ins("I_R", Alus[n], 1, 1, 0, IF Alus[n] \in Shifts THEN 3 ELSE -3)]
    \o <<Ins("R", "sub", 2, 1, 2, 0),      Ins("LUI", "lui", 2, 0, 0, -64),
         Ins("AUIPC", "auipc", 1, 0, 0, 80), Ins("JAL", "jal", 2, 0, 0, -4),
         Ins("JALR", "jalr", 1, 1, 0, 3),  Ins("JALR", "jalr", 0, 1, 0, 0),
         Ins("SB", "beq", 0, 1, 2, -4),    Ins("SB", "bne", 0, 1, 2, 8),
         Ins("SB", "blt", 0, 1, 2, 8),     Ins("SB", "bge", 0, 1, 2, 8),
         Ins("SB", "bltu", 0, 1, 2, 8),    Ins("SB", "bgeu", 0, 1, 2, 8),
         Ins("LOAD", "lb", 2, 1, 0, 0),    Ins("LOAD", "lh", 2, 1, 0, 0),
         Ins("LOAD", "lw", 0, 1, 0, -2),   Ins("LOAD", "lbu", 1, 1, 0, 0),
         Ins("LOAD", "lhu", 2, 1, 0, 2),   Ins("LOAD", "lw", 2, 1, 0, -1),
         Ins("STORE", "sb", 0, 1, 2, 1),   Ins("STORE", "sh", 0, 1, 2, 1),
         Ins("STORE", "sw", 0, 1, 2, -2),  Ins("SYSTEM", "rdcycle", 1, 0, 0, 0),
         Ins("I_R", "add", 1, 0, 0, 6),    Ins("STORE", "sw", 0, 0, 2, 4)>>
MCDecode(w) == IF w \in 1 .. 42 THEN Code[w] ELSE Illegal

(* Images: three or four words, little or big endian.                      *)
Image(words, e) == [n \in 1 .. Len(words) * WORD_SIZE |->
                       ByteOf(words[((n - 1) \div WORD_SIZE) + 1], e, WORD_SIZE, (n - 1) % WORD_SIZE)]
MCFiles == [loop  |-> Image(<<41, 34, 25>>, "LE"),       (* li, lbu, beq -4     *)
            store |-> Image(<<20, 41, 38, 24>>, "LE"),   (* lui, li, sh, jalr   *)
            big   |-> Image(<<20, 41, 36>>, "BE"),       (* lui, li, lw         *)
            empty |-> <<>>]

Cl(image, steps, e, t, interactive) ==
    [image |-> image, steps |-> steps, mem_size |-> 1, endian |-> e, trace |-> t,
     interactive |-> interactive, help |-> FALSE, overflow |-> FALSE]
MCCommandLines ==
    {Cl("store", 3, "LE", TRUE, FALSE), Cl("big", 2, "BE", FALSE, FALSE), Cl("gone", 2, "LE", TRUE, FALSE),
     Cl("loop", 0, "LE", TRUE, TRUE), Cl("", 0, "BE", FALSE, TRUE),
     [Cl("", 0, "LE", TRUE, FALSE) EXCEPT !.help = TRUE],
     [Cl("loop", 0, "LE", TRUE, FALSE) EXCEPT !.overflow = TRUE]}

Line(text, matches) == [text |-> text, matches |-> matches]
MCLines ==
    {Line("s 2", "step" :> 2), Line("load", "load" :> [file |-> "", addr |-> 0]),
     Line("load big 0xfd", "load" :> [file |-> "big", addr |-> 253]),
     Line("load none", "load" :> [file |-> "none", addr |-> 0]),
     Line("print reg s1", ("step" :> 1) @@ ("print" :> "s1")),
     Line("tracing off", "tracing" :> FALSE), Line("pc 6", "program-counter" :> 6),
     Line("disas 6 1", "disas" :> [addr |-> 6, num |-> 1]), Line("disas 0 1", "disas" :> [addr |-> 0, num |-> 1]),
     Line("quit", "quit" :> 0), Line("what", <<>>)}

MCParams == {[pc |-> 0, mem_size |-> 8, resize |-> r, endian |-> IF r THEN "LE" ELSE "BE", toFile |-> r] :
                 r \in BOOLEAN}
MCDpiWrites == {<<0, w>> : w \in 1 .. 42} \cup {<<5, 7>>, <<8, 42>>, <<255, 7>>}
(* A program of one bne; x1 and x2 set from outside.                       *)
MCBranchWrites == {<<0, 26>>}
(* The sign of a branch is its fifth bit, of a jump its seventh.           *)
MCOffsetSpan == [SB |-> 16, JAL |-> 64]
MCMaxCalls == [app |-> 5, dpi |-> 4]
=============================================================================
