--------------------------- MODULE DeoptCodeProofs ---------------------------
(***************************************************************************)
(* The copy of bytecode is right for every program, whatever CPython's     *)
(* tables are.  The properties are not inductive: a superinstruction is    *)
(* written one round after its first half, from the opcode the loop        *)
(* remembers.  The invariant says what each unit is while the loop is at   *)
(* i, and which instruction the remembered opcode belongs to.              *)
(***************************************************************************)
EXTENDS DeoptCode, TLAPS

\* The unit at k once the loop is at j, behind it: an instruction just before
\* j has not met its successor yet.
Behind(s, j, k) ==
    IF k \in s.starts /\ k = j - 1
    THEN [op |-> Base(s, k), arg |-> s.code[k].arg]
    ELSE FreshUnit(s, k)

Exact == \A k \in 1..Len(src.code) :
             instructions[k] = IF k < i THEN Behind(src, i, k) ELSE src.code[k]

Remembered ==
    \/ i = 1 /\ opcode = "CACHE"
    \/ \E p \in src.starts : p + 1 + Caches[Base(src, p)] = i /\ opcode = Base(src, p)

\* The inductive invariant.
Inv == TypeOK /\ Exact /\ Remembered

-----------------------------------------------------------------------------
(* Facts about programs and pairs *)

\* An instruction has a base opcode, and the next one begins after its caches.
LEMMA AtStart ==
    ASSUME NEW s, WellFormed(s), NEW k \in s.starts
    PROVE  /\ k \in 1..Len(s.code) /\ s.code[k] \in CodeUnit
           /\ Base(s, k) \in Opcodes /\ Deopt[Base(s, k)] = Base(s, k)
           /\ Caches[Base(s, k)] \in Nat
           /\ k + 1 + Caches[Base(s, k)] \in s.starts \cup {Len(s.code) + 1}
           /\ \A j \in (k + 1)..(k + Caches[Base(s, k)]) : j \notin s.starts
<1>1. k \in 1..Len(s.code) /\ s.code \in Seq(CodeUnit)
    BY DEF WellFormed
<1>2. s.code[k] \in CodeUnit
    BY <1>1
<1>3. s.code[k].op \in Opcodes
    BY <1>2 DEF CodeUnit
<1>4. Base(s, k) \in Opcodes /\ Deopt[Base(s, k)] = Base(s, k)
    BY <1>3, TableAssumption DEF Base
<1>5. Caches[Base(s, k)] \in Nat
    BY <1>4, TableAssumption
<1>6. \A j \in (k + 1)..((k + 1 + Caches[Base(s, k)]) - 1) : j \notin s.starts
    BY DEF WellFormed
<1>7. k + 1 + Caches[Base(s, k)] \in s.starts \cup {Len(s.code) + 1}
    BY DEF WellFormed
<1> QED BY <1>1, <1>2, <1>4, <1>5, <1>6, <1>7

\* A pair is of two instructions without caches, and means the first of them.
LEMMA PairFacts ==
    ASSUME NEW p \in Pairs
    PROVE  /\ Superinstruction(p) \in Opcodes /\ Deopt[Superinstruction(p)] = p[1]
           /\ Caches[p[1]] = 0 /\ Caches[p[2]] = 0
<1>1. \E q \in Pairs : q[1] = p[2]
    BY DEF Pairs
<1> QED BY <1>1, TableAssumption

\* What a new code object holds for an instruction still means it.
LEMMA FreshFacts ==
    ASSUME NEW s, WellFormed(s), NEW k \in s.starts
    PROVE  FreshOp(s, k) \in Opcodes /\ Deopt[FreshOp(s, k)] = Base(s, k)
<1>1. Base(s, k) \in Opcodes /\ Deopt[Base(s, k)] = Base(s, k)
    BY AtStart
<1>2. CASE FreshOp(s, k) = Base(s, k)
    BY <1>1, <1>2
<1>3. CASE FreshOp(s, k) # Base(s, k)
    <2>1. <<Base(s, k), Base(s, k + 1)>> \in Pairs /\
          FreshOp(s, k) = Superinstruction(<<Base(s, k), Base(s, k + 1)>>)
        BY <1>3 DEF FreshOp
    <2> QED BY <2>1, PairFacts
<1> QED BY <1>2, <1>3

\* Every unit behind the loop is a code unit.
LEMMA BehindIsUnit ==
    ASSUME NEW s, WellFormed(s), NEW j, NEW k \in 1..Len(s.code)
    PROVE  Behind(s, j, k) \in CodeUnit
<1>1. CASE k \in s.starts
    <2>1. s.code[k].arg \in Nat /\ Base(s, k) \in Opcodes
        BY <1>1, AtStart DEF CodeUnit
    <2> QED BY <1>1, <2>1, FreshFacts DEF Behind, FreshUnit, CodeUnit
<1>2. CASE k \notin s.starts
    BY <1>2, TableAssumption DEF Behind, FreshUnit
<1> QED BY <1>1, <1>2

\* The remembered opcode belongs to the instruction in front of i exactly when
\* that one has no caches; otherwise it begins no pair.
LEMMA Remember ==
    ASSUME Inv, NEW op
    PROVE  /\ i - 1 \in src.starts => opcode = Base(src, i - 1)
           /\ i - 1 \notin src.starts => <<opcode, op>> \notin Pairs
<1> USE DEF Inv, TypeOK
<1>1. CASE i = 1 /\ opcode = "CACHE"
    <2>1. 0 \notin src.starts
        BY DEF WellFormed
    <2>2. <<opcode, op>> \notin Pairs
        BY <1>1 DEF Pairs
    <2> QED BY <1>1, <2>1, <2>2
<1>2. ASSUME NEW p \in src.starts, p + 1 + Caches[Base(src, p)] = i,
             opcode = Base(src, p)
      PROVE  /\ i - 1 \in src.starts => opcode = Base(src, i - 1)
             /\ i - 1 \notin src.starts => <<opcode, op>> \notin Pairs
    <2>1. p \in Nat /\ Caches[Base(src, p)] \in Nat
          /\ \A j \in (p + 1)..(p + Caches[Base(src, p)]) : j \notin src.starts
        BY AtStart
    <2>2. CASE Caches[Base(src, p)] = 0
        BY <1>2, <2>1, <2>2
    <2>3. CASE Caches[Base(src, p)] > 0
        <3>1. i - 1 \in (p + 1)..(p + Caches[Base(src, p)])
            BY <1>2, <2>1, <2>3
        <3>2. <<opcode, op>> \notin Pairs
            BY <1>2, <2>3, PairFacts
        <3> QED BY <2>1, <3>1, <3>2
    <2> QED BY <2>1, <2>2, <2>3
<1> QED BY <1>1, <1>2 DEF Remembered

-----------------------------------------------------------------------------
(* The invariant *)

LEMMA InitInv == Init => Inv
<1> SUFFICES ASSUME Init PROVE Inv
    OBVIOUS
<1>1. WellFormed(src)
    BY SourceAssumption DEF Init
<1>2. TypeOK
    BY <1>1, TableAssumption DEF Init, TypeOK, WellFormed, ColdUnit, CodeUnit
<1>3. Exact
    BY <1>1 DEF Init, Exact, WellFormed
<1>4. Remembered
    BY DEF Init, Remembered
<1> QED BY <1>2, <1>3, <1>4 DEF Inv

\* The unit the loop looks at is an instruction that nothing has touched.
LEMMA AtI ==
    ASSUME Inv, i <= code_count
    PROVE  /\ i \in src.starts /\ i \in 1..Len(src.code)
           /\ instructions[i] = src.code[i] /\ src.code[i] \in CodeUnit
           /\ Decoded(instructions[i]) = Base(src, i)
<1>1. i \in src.starts /\ i \in 1..Len(src.code)
    BY DEF Inv, TypeOK, code_count, WellFormed
<1>2. instructions[i] = src.code[i]
    BY <1>1 DEF Inv, Exact
<1>3. src.code[i] \in CodeUnit
    BY <1>1, AtStart DEF Inv, TypeOK
<1> QED BY <1>1, <1>2, <1>3 DEF Decoded, Base

\* What a step may use about the instruction at i.
LEMMA Here ==
    ASSUME Inv, i <= code_count
    PROVE  /\ i \in src.starts /\ i \in Nat /\ Caches[Base(src, i)] \in Nat
           /\ DOMAIN instructions = 1..Len(src.code) /\ WellFormed(src)
           /\ Len(src.code) \in Nat
<1>1. WellFormed(src) /\ i \in src.starts /\ i \in Nat
    BY AtI DEF Inv, TypeOK
<1>2. Caches[Base(src, i)] \in Nat
    BY <1>1, AtStart
<1>3. DOMAIN instructions = 1..Len(src.code) /\ Len(src.code) \in Nat
    BY <1>1 DEF Inv, TypeOK, WellFormed
<1> QED BY <1>1, <1>2, <1>3

\* A step that writes the instruction at i, its cache entries and, maybe, the
\* instruction before it as a new code object has them, keeps the invariant.
LEMMA Written ==
    ASSUME Inv, i <= code_count, src' = src, opcode' = Base(src, i),
           i' = i + 1 + Caches[Base(src, i)],
           instructions' = [k \in DOMAIN instructions |->
                               IF k < i' THEN Behind(src, i', k) ELSE instructions[k]]
    PROVE  Inv'
<1>0. WellFormed(src) /\ i \in src.starts /\ Len(instructions) = Len(src.code)
    BY AtI DEF Inv, TypeOK
<1>1. /\ Base(src, i) \in Opcodes /\ Caches[Base(src, i)] \in Nat /\ i \in Nat
      /\ i' \in src.starts \cup {Len(src.code) + 1}
    BY <1>0, AtStart
<1>2. instructions \in Seq(CodeUnit) /\ DOMAIN instructions = 1..Len(src.code)
    BY <1>0 DEF Inv, TypeOK
<1>3. instructions' \in Seq(CodeUnit) /\ Len(instructions') = Len(src.code)
    <2>1. ASSUME NEW k \in 1..Len(src.code) PROVE instructions'[k] \in CodeUnit
        <3>1. instructions[k] \in CodeUnit
            BY <1>2
        <3>2. Behind(src, i', k) \in CodeUnit
            BY <1>0, BehindIsUnit
        <3> QED BY <1>2, <3>1, <3>2
    <2>2. Len(src.code) \in Nat
        BY <1>0 DEF WellFormed
    <2>3. instructions' \in [1..Len(src.code) -> CodeUnit]
        BY <1>2, <2>1
    <2> QED BY <2>2, <2>3
<1>4. TypeOK'
    BY <1>0, <1>1, <1>3 DEF TypeOK
<1>5. Exact'
    <2> SUFFICES ASSUME NEW k \in 1..Len(src.code)
                 PROVE  instructions'[k] = IF k < i' THEN Behind(src, i', k)
                                           ELSE src.code[k]
        BY DEF Exact
    <2>1. CASE k < i'
        BY <1>2, <2>1
    <2>2. CASE ~ (k < i')
        <3>1. instructions'[k] = instructions[k]
            BY <1>2, <2>2
        <3>2. ~ (k < i)
            BY <1>1, <2>2
        <3> QED BY <2>2, <3>1, <3>2 DEF Inv, Exact
    <2> QED BY <2>1, <2>2
<1>6. Remembered'
    BY <1>0 DEF Remembered
<1> QED BY <1>4, <1>5, <1>6 DEF Inv

\* What the loop leaves behind at i - 1 and below, seen from further on: only
\* the instruction just before i may have joined the one at i.
LEMMA FarBehind ==
    ASSUME Inv, i <= code_count, NEW k \in 1..Len(src.code), k < i,
           NEW j \in Int, i < j
    PROVE  /\ ~ (k = i - 1 /\ k \in src.starts) => Behind(src, j, k) = instructions[k]
           /\ k = i - 1 /\ k \in src.starts =>
                  /\ instructions[k] = [op |-> Base(src, k), arg |-> src.code[k].arg]
                  /\ Behind(src, j, k) = [op |-> FreshOp(src, k), arg |-> src.code[k].arg]
<1>1. i \in Nat /\ instructions[k] = Behind(src, i, k)
    BY Here DEF Inv, Exact
<1> QED BY <1>1 DEF Behind, FreshUnit

\* Cache entries behind an instruction without a fault are cold.
LEMMA CacheUnit ==
    ASSUME Inv, i <= code_count,
           NEW k \in (i + 1)..(i + Caches[Base(src, i)]), k \in 1..Len(src.code)
    PROVE  Behind(src, i + 1 + Caches[Base(src, i)], k) =
               IF src.minor >= 12 /\ k = i + 1 THEN Warmup ELSE ColdUnit
<1>1. WellFormed(src) /\ i \in src.starts /\ i \in Nat
    BY AtI DEF Inv, TypeOK
<1>2. Caches[Base(src, i)] \in Nat
      /\ \A j \in (i + 1)..(i + Caches[Base(src, i)]) : j \notin src.starts
    BY <1>1, AtStart
<1>3. k \notin src.starts /\ (k - 1 \in src.starts <=> k = i + 1)
    BY <1>1, <1>2
<1> QED BY <1>3 DEF Behind, FreshUnit

LEMMA DeoptimiseInv == Inv /\ Deoptimise => Inv'
<1> SUFFICES ASSUME Inv, Deoptimise PROVE Inv'
    OBVIOUS
<1> DEFINE caches == Caches[Base(src, i)]
<1>1. /\ src.minor = 11 /\ i <= code_count /\ src' = src
      /\ opcode' = Base(src, i) /\ i' = i + 1 + caches
    BY AtI DEF Deoptimise, After
<1>2. /\ i \in src.starts /\ i \in Nat /\ caches \in Nat
      /\ DOMAIN instructions = 1..Len(src.code)
    BY <1>1, Here
<1>3. ASSUME NEW k \in DOMAIN instructions
      PROVE  (IF k = i THEN Recoded(instructions[k], opcode')
              ELSE IF k \in CacheUnits(caches) THEN ColdUnit ELSE instructions[k])
             = IF k < i' THEN Behind(src, i', k) ELSE instructions[k]
    <2>1. CASE k = i
        <3>1. instructions[k] = src.code[k]
            BY <1>1, <2>1, AtI
        <3>2. Recoded(instructions[k], opcode')
                  = [op |-> Base(src, k), arg |-> src.code[k].arg]
            BY <1>1, <2>1, <3>1 DEF Recoded
        <3>3. Behind(src, i', k) = [op |-> Base(src, k), arg |-> src.code[k].arg]
            BY <1>1, <1>2, <2>1 DEF Behind, FreshUnit, FreshOp
        <3> QED BY <1>1, <1>2, <2>1, <3>2, <3>3
    <2>2. CASE k \in CacheUnits(caches)
        BY <1>1, <1>2, <2>2, CacheUnit DEF CacheUnits
    <2>3. CASE k < i
        <3>1. instructions[k] = Behind(src, i, k)
            BY <1>2, <2>3 DEF Inv, Exact
        <3>2. Behind(src, i', k) = Behind(src, i, k)
            BY <1>1, <1>2, <2>3 DEF Behind, FreshUnit, FreshOp
        <3> QED BY <1>1, <1>2, <2>3, <3>1, <3>2 DEF CacheUnits
    <2>4. CASE k > i + caches
        BY <1>1, <1>2, <2>4 DEF CacheUnits
    <2> QED BY <1>2, <2>1, <2>2, <2>3, <2>4 DEF CacheUnits
<1>4. instructions' = [k \in DOMAIN instructions |->
          IF k = i THEN Recoded(instructions[k], opcode')
          ELSE IF k \in CacheUnits(caches) THEN ColdUnit ELSE instructions[k]]
    BY <1>1 DEF Deoptimise
<1>5. instructions' = [k \in DOMAIN instructions |->
          IF k < i' THEN Behind(src, i', k) ELSE instructions[k]]
    BY <1>3, <1>4
<1> QED BY <1>1, <1>5, Written

LEMMA QuickenCachedInv == Inv /\ QuickenCached => Inv'
<1> SUFFICES ASSUME Inv, QuickenCached PROVE Inv'
    OBVIOUS
<1> DEFINE caches == Caches[Base(src, i)]
           unit(k) == IF k = i THEN Recoded(instructions[k], Base(src, i))
                      ELSE IF k \in CacheUnits(caches)
                      THEN IF k = i + 1 THEN Warmup ELSE ColdUnit
                      ELSE instructions[k]
<1>0. i <= code_count
    BY DEF QuickenCached
<1>1. /\ src.minor >= 12 /\ src' = src /\ caches > 0
      /\ opcode' = Base(src, i) /\ i' = i + 1 + caches
      /\ instructions' = [k \in DOMAIN instructions |-> unit(k)]
    BY <1>0, AtI DEF QuickenCached, After, Previous
<1>2. /\ i \in src.starts /\ i \in Nat /\ caches \in Nat
      /\ DOMAIN instructions = 1..Len(src.code)
    BY <1>0, Here
<1>3. i' \in Int /\ i < i'
    BY <1>1, <1>2
<1>4. ASSUME NEW k \in DOMAIN instructions
      PROVE  unit(k) = IF k < i' THEN Behind(src, i', k) ELSE instructions[k]
    <2>1. CASE k = i
        <3>1. i + 1 \notin src.starts
            <4>1. \A j \in (i + 1)..(i + caches) : j \notin src.starts
                BY <1>0, <1>2, Here, AtStart
            <4> QED BY <1>1, <1>2, <4>1
        <3>2. unit(k) = [op |-> Base(src, k), arg |-> src.code[k].arg]
            BY <1>0, <2>1, AtI DEF Recoded
        <3>3. Behind(src, i', k) = [op |-> Base(src, k), arg |-> src.code[k].arg]
            BY <1>1, <1>2, <2>1, <3>1 DEF Behind, FreshUnit, FreshOp
        <3> QED BY <1>1, <1>2, <2>1, <3>2, <3>3
    <2>2. CASE k \in CacheUnits(caches)
        BY <1>0, <1>1, <1>2, <2>2, CacheUnit DEF CacheUnits
    <2>3. CASE k < i
        <3>1. unit(k) = instructions[k]
            BY <1>2, <2>3 DEF CacheUnits
        <3>2. <<Base(src, i - 1), Base(src, i)>> \notin Pairs
            BY <1>1, PairFacts
        <3>3. CASE k = i - 1 /\ k \in src.starts
            <4>1. k + 1 = i
                BY <1>2, <3>3
            <4>2. FreshOp(src, k) = Base(src, k)
                BY <3>2, <3>3, <4>1 DEF FreshOp
            <4>3. /\ instructions[k] = [op |-> Base(src, k), arg |-> src.code[k].arg]
                  /\ Behind(src, i', k) = [op |-> FreshOp(src, k), arg |-> src.code[k].arg]
                BY <1>0, <1>3, <2>3, <3>3, <1>2, FarBehind
            <4> QED BY <1>3, <2>3, <3>1, <4>2, <4>3
        <3>4. CASE ~ (k = i - 1 /\ k \in src.starts)
            <4>1. Behind(src, i', k) = instructions[k]
                BY <1>0, <1>2, <1>3, <2>3, <3>4, FarBehind
            <4> QED BY <1>3, <2>3, <3>1, <4>1
        <3> QED BY <3>3, <3>4
    <2>4. CASE k > i + caches
        BY <1>1, <1>2, <2>4 DEF CacheUnits
    <2> QED BY <1>2, <2>1, <2>2, <2>3, <2>4 DEF CacheUnits
<1>5. instructions' = [k \in DOMAIN instructions |->
          IF k < i' THEN Behind(src, i', k) ELSE instructions[k]]
    BY <1>1, <1>4
<1> QED BY <1>0, <1>1, <1>5, Written

LEMMA QuickenInv == Inv /\ Quicken => Inv'
<1> SUFFICES ASSUME Inv, Quicken PROVE Inv'
    OBVIOUS
<1> DEFINE pair == <<opcode, Base(src, i)>>
           unit(k) == IF k = i THEN Recoded(instructions[k], Base(src, i))
                      ELSE IF k = i - 1 /\ pair \in Pairs
                      THEN Recoded(instructions[k], Superinstruction(pair))
                      ELSE instructions[k]
<1>0. i <= code_count
    BY DEF Quicken
<1>1. /\ src.minor >= 12 /\ src' = src /\ Caches[Base(src, i)] = 0
      /\ opcode' = Base(src, i) /\ i' = i + 1
      /\ instructions' = [k \in DOMAIN instructions |-> unit(k)]
    BY <1>0, AtI DEF Quicken, After, Previous
<1>2. /\ i \in src.starts /\ i \in Nat /\ DOMAIN instructions = 1..Len(src.code)
    BY <1>0, Here
<1>3. i' \in Int /\ i < i'
    BY <1>1, <1>2
<1>4. ASSUME NEW k \in DOMAIN instructions
      PROVE  unit(k) = IF k < i' THEN Behind(src, i', k) ELSE instructions[k]
    <2>1. CASE k = i
        <3>1. unit(k) = [op |-> Base(src, k), arg |-> src.code[k].arg]
            BY <1>0, <2>1, AtI DEF Recoded
        <3>2. Behind(src, i', k) = [op |-> Base(src, k), arg |-> src.code[k].arg]
            BY <1>1, <1>2, <2>1 DEF Behind
        <3> QED BY <1>1, <1>2, <2>1, <3>1, <3>2
    <2>2. CASE k = i - 1 /\ k \in src.starts
        <3>1. pair = <<Base(src, k), Base(src, k + 1)>> /\ k + 1 \in src.starts
            <4>1. k + 1 = i /\ i - 1 = k
                BY <1>2, <2>2
            <4> QED BY <1>2, <2>2, <4>1, Remember
        <3>2. /\ instructions[k] = [op |-> Base(src, k), arg |-> src.code[k].arg]
              /\ Behind(src, i', k) = [op |-> FreshOp(src, k), arg |-> src.code[k].arg]
            BY <1>0, <1>2, <1>3, <2>2, FarBehind
        <3>3. FreshOp(src, k) = IF pair \in Pairs THEN Superinstruction(pair)
                                ELSE Base(src, k)
            BY <1>1, <3>1 DEF FreshOp
        <3> QED BY <1>1, <1>2, <2>2, <3>2, <3>3 DEF Recoded
    <2>3. CASE k < i /\ ~ (k = i - 1 /\ k \in src.starts)
        <3>1. Behind(src, i', k) = instructions[k]
            BY <1>0, <1>2, <1>3, <2>3, FarBehind
        <3>2. unit(k) = instructions[k]
            BY <1>2, <2>3, Remember
        <3> QED BY <1>1, <1>2, <2>3, <3>1, <3>2
    <2>4. CASE k > i
        BY <1>1, <1>2, <2>4
    <2> QED BY <1>2, <2>1, <2>2, <2>3, <2>4
<1>5. instructions' = [k \in DOMAIN instructions |->
          IF k < i' THEN Behind(src, i', k) ELSE instructions[k]]
    BY <1>1, <1>4
<1>6. i' = i + 1 + Caches[Base(src, i)]
    BY <1>1, <1>2
<1> QED BY <1>0, <1>1, <1>5, <1>6, Written

LEMMA StepInv == Inv /\ [Next]_vars => Inv'
<1> SUFFICES ASSUME Inv, [Next]_vars PROVE Inv'
    OBVIOUS
<1>1. CASE Deoptimise
    BY <1>1, DeoptimiseInv
<1>2. CASE QuickenCached
    BY <1>2, QuickenCachedInv
<1>4. CASE Quicken
    BY <1>4, QuickenInv
<1>3. CASE UNCHANGED vars
    BY <1>3 DEF vars, Inv, TypeOK, Exact, Remembered
<1> QED BY <1>1, <1>2, <1>4, <1>3 DEF Next

LEMMA Invariant == Spec => []Inv
BY InitInv, StepInv, PTL DEF Spec

-----------------------------------------------------------------------------
(* The properties *)

\* The loop stays inside the code, on instructions, for every program.
THEOREM TypeCorrect == Spec => []TypeOK
<1>1. Inv => TypeOK
    BY DEF Inv
<1> QED BY <1>1, Invariant, PTL

\* At every moment each instruction of the program is in the copy, maybe in
\* another form, with its argument.
THEOREM Meaning == Spec => []MeaningKept
<1>1. Inv => MeaningKept
    <2> SUFFICES ASSUME Inv, NEW k \in src.starts
                 PROVE  /\ Deopt[instructions[k].op] = Base(src, k)
                        /\ instructions[k].arg = src.code[k].arg
        BY DEF MeaningKept
    <2>1. /\ k \in 1..Len(src.code) /\ Deopt[Base(src, k)] = Base(src, k)
          /\ Deopt[FreshOp(src, k)] = Base(src, k)
        BY AtStart, FreshFacts DEF Inv, TypeOK
    <2>2. instructions[k] = IF k < i THEN Behind(src, i, k) ELSE src.code[k]
        BY <2>1 DEF Inv, Exact
    <2>3. CASE k < i
        BY <2>1, <2>2, <2>3 DEF Behind, FreshUnit
    <2>4. CASE ~ (k < i)
        BY <2>2, <2>4 DEF Base
    <2> QED BY <2>3, <2>4
<1> QED BY <1>1, Invariant, PTL

\* Behind the loop nothing is left of what the dumping process learned, and
\* every superinstruction stands in front of its second half.
THEOREM Cold == Spec => []ColdBehind
<1>1. Inv => ColdBehind
    <2> SUFFICES ASSUME Inv, NEW k \in 1..(i - 1)
                 PROVE  IF k \notin src.starts THEN instructions[k] = FreshUnit(src, k)
                        ELSE instructions[k].op \in {Base(src, k)} \cup
                                 (IF k < i - 1 THEN {FreshOp(src, k)} ELSE {})
        BY DEF ColdBehind
    <2>1. i \in Nat /\ k \in 1..Len(src.code) /\ k < i
        BY DEF Inv, TypeOK, WellFormed
    <2>2. instructions[k] = Behind(src, i, k)
        BY <2>1 DEF Inv, Exact
    <2> QED BY <2>1, <2>2 DEF Behind, FreshUnit
<1> QED BY <1>1, Invariant, PTL

\* When the loop ends the copy is that of a new code object: it depends on the
\* program only.
THEOREM Fresh == Spec => []CopyIsFresh
<1>1. Inv => CopyIsFresh
    <2> SUFFICES ASSUME Inv, i > code_count, NEW k \in DOMAIN instructions
                 PROVE  instructions[k] = FreshUnit(src, k)
        BY DEF CopyIsFresh
    <2>1. /\ k \in 1..Len(src.code) /\ i = Len(src.code) + 1
          /\ Len(src.code) \in Nat /\ src.starts \subseteq 1..Len(src.code)
        BY DEF Inv, TypeOK, WellFormed, code_count
    <2>2. instructions[k] = Behind(src, i, k)
        BY <2>1 DEF Inv, Exact
    <2>3. CASE k = i - 1 /\ k \in src.starts
        <3>1. k + 1 \notin src.starts
            BY <2>1, <2>3
        <3> QED BY <2>2, <2>3, <3>1 DEF Behind, FreshUnit, FreshOp
    <2>4. CASE ~ (k = i - 1 /\ k \in src.starts)
        BY <2>2, <2>4 DEF Behind
    <2> QED BY <2>3, <2>4
<1> QED BY <1>1, Invariant, PTL
=============================================================================
