---------------------------- MODULE IsaReference -----------------------------
(***************************************************************************)
(* What an RV32I instruction is to do, stated without the code: a word is  *)
(* the set of its bits that are 1, a shift moves them, a sign is the top   *)
(* one. Arch is a record of registers, pc, memory and its endianness.      *)
(***************************************************************************)
EXTENDS Isa

BitsOf(v)    == {b \in 0 .. WordBits - 1 : (v \div 2^b) % 2 = 1}
ValueOf(s)   == CHOOSE v \in Word : BitsOf(v) = s
Top          == WordBits - 1
Negative(v)  == Top \in BitsOf(v)
Less(a, b)   == IF Negative(a) = Negative(b) THEN a < b ELSE Negative(a)
Filled(a, t) == BitsOf(a) \cup (IF t \in BitsOf(a) THEN {b \in 0 .. Top : b > t} ELSE {})

IsaAlu(name, a, b) ==
    LET s == b % WordBits
    IN CASE name = "add"  -> CHOOSE v \in Word : \E carry \in {0, WordSpan} : v + carry = a + b
         [] name = "sub"  -> CHOOSE v \in Word : \E borrow \in {0, WordSpan} : v + b = a + borrow
         [] name = "slt"  -> IF Less(a, b) THEN 1 ELSE 0
         [] name = "sltu" -> IF b - a > 0 THEN 1 ELSE 0
         [] name = "and"  -> ValueOf(BitsOf(a) \cap BitsOf(b))
         [] name = "or"   -> ValueOf(BitsOf(a) \cup BitsOf(b))
         [] name = "xor"  -> ValueOf((BitsOf(a) \cup BitsOf(b)) \ (BitsOf(a) \cap BitsOf(b)))
         [] name = "sll"  -> ValueOf({t \in 0 .. Top : t - s \in BitsOf(a)})
         [] name = "srl"  -> ValueOf({t \in 0 .. Top : t + s \in BitsOf(a)})
         [] name = "sra"  -> ValueOf({t \in 0 .. Top : \/ t + s \in BitsOf(a)
                                                       \/ t + s > Top /\ Negative(a)})

(* Bit t of the n-byte unit at addr is a bit of one of its bytes; after    *)
(* the last address comes the first.                                       *)
UnitBits(arch, addr, n) ==
    {t \in 0 .. n * ByteBits - 1 :
        LET k == t \div ByteBits
            a == (addr + IF arch.endian = "LE" THEN k ELSE n - 1 - k) % WordSpan
        IN (arch.mem[a] \div 2^(t % ByteBits)) % 2 = 1}

IsaLoad(name, arch, addr) ==
    LET n  == CASE name = "lw" -> 4 [] name \in {"lh", "lhu"} -> 2 [] OTHER -> 1
        u  == UnitBits(arch, addr, n)
        hi == (n * ByteBits) - 1
    IN ValueOf(IF name \in {"lb", "lh"} /\ hi \in u THEN u \cup (hi .. Top) ELSE u)

IsaTaken(name, a, b) ==
    CASE name = "beq"  -> a = b
      [] name = "bne"  -> ~ (a = b)
      [] name = "blt"  -> Less(a, b)
      [] name = "bge"  -> ~ Less(a, b)
      [] name = "bltu" -> a < b
      [] name = "bgeu" -> ~ (a < b)

IsaAddress(i, arch) == (arch.regs[i.rs1] + i.imm) % WordSpan
IsaUnit(name)       == CASE name \in {"lw", "sw"} -> 4 [] name \in {"lh", "lhu", "sh"} -> 2 [] OTHER -> 1
InMemory(i, arch)   ==
    \A k \in 0 .. IsaUnit(i.name) - 1 : (IsaAddress(i, arch) + k) % WordSpan \in DOMAIN arch.mem

IsaRegs(i, arch, v) == [r \in RegId |-> IF r = i.rd /\ r # 0 THEN v ELSE arch.regs[r]]
IsaPc(arch)         == (arch.pc + 4) % WordSpan

(* What an instruction that is no jump, branch or store puts in rd.        *)
IsaValue(i, arch) ==
    CASE i.section = "R"     -> IsaAlu(i.name, arch.regs[i.rs1], arch.regs[i.rs2])
      [] i.section = "I_R"   -> IsaAlu(i.name, arch.regs[i.rs1], i.imm % WordSpan)
      [] i.section = "LUI"   -> i.imm % WordSpan
      [] i.section = "AUIPC" -> (arch.pc + i.imm) % WordSpan
      [] i.section = "LOAD"  -> IsaLoad(i.name, arch, IsaAddress(i, arch))

(* What a store makes of the memory.                                       *)
IsaMem(i, arch) ==
    LET n == IsaUnit(i.name)
    IN [a \in DOMAIN arch.mem |->
          LET d == (a - IsaAddress(i, arch)) % WordSpan
              k == IF arch.endian = "LE" THEN d ELSE n - 1 - d
          IN IF d >= n THEN arch.mem[a]
             ELSE ValueOf({t \in 0 .. ByteBits - 1 : t + (k * ByteBits) \in BitsOf(arch.regs[i.rs2])})]

(* The state after instruction i, for all of them but jumps and branches.  *)
IsaAfter(i, arch) ==
    IF i.section = "STORE"
    THEN [arch EXCEPT !.pc = IsaPc(arch), !.mem = IsaMem(i, arch)]
    ELSE [arch EXCEPT !.pc = IsaPc(arch), !.regs = IsaRegs(i, arch, IsaValue(i, arch))]
=============================================================================
