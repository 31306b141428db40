--------------------------------- MODULE Isa ---------------------------------
(***************************************************************************)
(* The instructions of the simulator (src/sim/model/riscv) as operators on *)
(* values: a word is a number below WordSpan, a byte has ByteBits bits and *)
(* a word WORD_SIZE bytes, so that every carry, sign and shift of the code *)
(* has its place in a word of any width.                                   *)
(*                                                                         *)
(* An instruction is a record: the section its opcode selects, the         *)
(* mnemonic its func3 and func7 select in the section, three register      *)
(* numbers and the immediate of its format, already signed.                *)
(***************************************************************************)
EXTENDS Integers, Sequences, FiniteSets

CONSTANTS ByteBits, Regs,
          OffsetSpan             (* 2^12 of a branch, 2^20 of a jump: the  *)
                                 (* value of the sign bit of the offset    *)

ASSUME WidthAssumption  == ByteBits \in Nat \ {0} /\ Regs \in Nat \ {0, 1}
ASSUME OffsetAssumption == OffsetSpan \in [{"SB", "JAL"} -> Nat \ {0}]

WORD_SIZE == 4
Span(n)   == 2^(n * ByteBits)          (* values of n bytes                *)
WordSpan  == Span(WORD_SIZE)
WordBits  == WORD_SIZE * ByteBits
Byte      == 0 .. Span(1) - 1
Word      == 0 .. WordSpan - 1
RegId     == 0 .. Regs - 1
Immediate == - (WordSpan \div 2) .. (WordSpan \div 2) - 1      (* sword_t    *)

(* Powers of two, as a prover without exponents needs to be told.          *)
ASSUME PowerAssumption ==
    /\ 2^0 = 1 /\ 2^1 = 2
    /\ \A m, n \in 0 .. WordBits : 2^m \in Nat \ {0} /\ 2^(m + n) = 2^m * 2^n

(* static_cast to a signed type of n bytes, and back to word_t             *)
Signed(v, n) == IF v % Span(n) < Span(n) \div 2 THEN v % Span(n)
                                                ELSE (v % Span(n)) - Span(n)
ToWord(v)    == v % WordSpan

SYSTEM == {}                           (* every descriptor is commented out *)

(* The mnemonics of each section; an i at the end of one is left out.      *)
Sections == [R      |-> {"add", "slt", "sltu", "and", "or", "xor", "sll", "srl", "sra", "sub"},
             I_R    |-> {"add", "slt", "sltu", "and", "or", "xor", "sll", "srl", "sra"},
             LUI    |-> {"lui"},  AUIPC |-> {"auipc"},
             JAL    |-> {"jal"},  JALR  |-> {"jalr"},
             SB     |-> {"beq", "bne", "blt", "bge", "bltu", "bgeu"},
             LOAD   |-> {"lb", "lh", "lw", "lbu", "lhu"},
             STORE  |-> {"sb", "sh", "sw"},
             SYSTEM |-> SYSTEM]

(* find_descriptor: anything it does not find is the invalid descriptor.   *)
Valid(i) == i.section \in DOMAIN Sections /\ i.name \in Sections[i.section]

Illegal == [section |-> "none", name |-> "invalid", rd |-> 0, rs1 |-> 0, rs2 |-> 0, imm |-> 0]

Shift(b) == b % WordBits               (* & 0x1f                           *)

(* The sum of f[0] .. f[n - 1].                                            *)
SumTo(f, n) == LET sum[k \in 0 .. n] == IF k = 0 THEN 0 ELSE sum[k - 1] + f[k - 1] IN sum[n]

(* The operators &, | and ^ of C, bit by bit.                              *)
Bit(v, n) == (v \div 2^n) % 2
OfBits(bits) == SumTo([n \in 0 .. WordBits - 1 |-> 2^n * bits[n]], WordBits)
And(a, b) == OfBits([n \in 0 .. WordBits - 1 |-> Bit(a, n) * Bit(b, n)])
Or(a, b)  == OfBits([n \in 0 .. WordBits - 1 |-> IF Bit(a, n) + Bit(b, n) > 0 THEN 1 ELSE 0])
Xor(a, b) == OfBits([n \in 0 .. WordBits - 1 |-> (Bit(a, n) + Bit(b, n)) % 2])

R(name, a, b) ==
    CASE name = "add"  -> ToWord(a + b)
      [] name = "sub"  -> ToWord(a - b)
      [] name = "slt"  -> IF Signed(a, WORD_SIZE) < Signed(b, WORD_SIZE) THEN 1 ELSE 0
      [] name = "sltu" -> IF a < b THEN 1 ELSE 0
      [] name = "and"  -> And(a, b)
      [] name = "or"   -> Or(a, b)
      [] name = "xor"  -> Xor(a, b)
      [] name = "sll"  -> ToWord(a * 2^Shift(b))
      [] name = "srl"  -> a \div 2^Shift(b)
      [] name = "sra"  -> ToWord(Signed(a, WORD_SIZE) \div 2^Shift(b))

(* The immediate is converted to a word wherever the register is one.      *)
I_R(name, a, imm) == IF name = "slt" THEN (IF Signed(a, WORD_SIZE) < imm THEN 1 ELSE 0)
                                     ELSE R(name, a, ToWord(imm))

LUI(imm)          == ToWord(imm)
AUIPC(pc, imm)    == ToWord(pc + imm)

(* Jumps: the link is the address of the jump itself, as written.          *)
Link(pc)          == pc
JAL(pc, offset)   == ToWord(pc + offset)
JALR(a, imm)      == ToWord(a + imm) - (ToWord(a + imm) % 2)

(* The operands a branch compares: rs1 twice, as written.                  *)
BranchOperands(i, regs) == <<regs[i.rs1], regs[i.rs1]>>

SB(name, a, b) ==
    CASE name = "beq"  -> a = b
      [] name = "bne"  -> a # b
      [] name = "blt"  -> Signed(a, WORD_SIZE) < Signed(b, WORD_SIZE)
      [] name = "bge"  -> Signed(a, WORD_SIZE) > Signed(b, WORD_SIZE)
      [] name = "bltu" -> a < b
      [] name = "bgeu" -> a > b

(* immSB and immUJ take the sign with xs(63, 1): a shift by a count that   *)
(* wraps around to a huge one, which is undefined. A build that masks the  *)
(* count keeps the sign bits; one that shifts everything out loses them.   *)
Offsets(i) == {i.imm, i.imm % OffsetSpan[i.section]}

LoadSize  == [lb |-> 1, lbu |-> 1, lh |-> 2, lhu |-> 2, lw |-> 4]
StoreSize == [sb |-> 1, sh |-> 2, sw |-> 4]

(* A loaded value is sign-extended, except for lbu and lhu.                *)
ExtendNot(name, v) == v
Extend(name, v) == IF name \in {"lb", "lh"} THEN ToWord(Signed(v, LoadSize[name])) ELSE v

(* memory_t: the place in a unit of n bytes of its i-th byte, the least    *)
(* significant first, and the value of a unit that starts at addr.         *)
Pos(endian, n, i) == IF endian = "LE" THEN i ELSE n - 1 - i

Unit(at, endian, n) == SumTo([i \in 0 .. n - 1 |-> at[Pos(endian, n, i)] * Span(i)], n)
ByteOf(v, endian, n, k) == (v \div Span(Pos(endian, n, k))) % Span(1)
=============================================================================
