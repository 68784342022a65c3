------------------------------ MODULE DeoptCode ------------------------------
(***************************************************************************)
(* COPY_AND_DEOPT_CODE: the instructions of a code object are copied to    *)
(* the archive while the interpreter that dumps has specialised them and   *)
(* filled their inline caches; the copy has to be what a new code object   *)
(* of the same program would hold.                                         *)
(*                                                                         *)
(* A code unit has an opcode and an argument.  A cache entry is a code     *)
(* unit as well, and its bits may look like any instruction; only the      *)
(* instructions before it tell that it is none.  CPython's tables, Deopt   *)
(* and Caches, are constants.  Positions start from 1.                     *)
(***************************************************************************)
EXTENDS Integers, Sequences

CONSTANTS
    Opcodes,
    Deopt,          \* _PyOpcode_Deopt: the opcode a specialised one came from
    Caches,         \* _PyOpcode_Caches: cache entries after a base opcode
    Warmup,         \* the code unit that adaptive_counter_warmup() fills
    Sources         \* inputs: records [minor, code, starts]

CodeUnit == [op : Opcodes, arg : Nat]

ColdUnit == [op |-> "CACHE", arg |-> 0]

\* The pairs that the switch joins, and what it makes of them.
Pairs == {<<"LOAD_CONST", "LOAD_FAST">>, <<"LOAD_FAST", "LOAD_CONST">>,
          <<"LOAD_FAST", "LOAD_FAST">>, <<"STORE_FAST", "LOAD_FAST">>,
          <<"STORE_FAST", "STORE_FAST">>}

Superinstruction(p) ==
    CASE p = <<"LOAD_CONST", "LOAD_FAST">>   -> "LOAD_CONST__LOAD_FAST"
      [] p = <<"LOAD_FAST", "LOAD_CONST">>   -> "LOAD_FAST__LOAD_CONST"
      [] p = <<"LOAD_FAST", "LOAD_FAST">>    -> "LOAD_FAST__LOAD_FAST"
      [] p = <<"STORE_FAST", "LOAD_FAST">>   -> "STORE_FAST__LOAD_FAST"
      [] p = <<"STORE_FAST", "STORE_FAST">>  -> "STORE_FAST__STORE_FAST"

ASSUME TableAssumption ==
    /\ Deopt \in [Opcodes -> Opcodes]
    /\ Caches \in [Opcodes -> Nat]
    /\ \A o \in Opcodes : Deopt[Deopt[o]] = Deopt[o]
    /\ ColdUnit \in CodeUnit /\ Warmup \in CodeUnit
    /\ \A p \in Pairs : /\ Superinstruction(p) \in Opcodes
                        /\ Deopt[Superinstruction(p)] = p[1]
                        /\ p[1] \in Opcodes /\ Caches[p[1]] = 0

Base(s, k) == Deopt[s.code[k].op]

\* starts are the positions of the instructions: the first one, and from each
\* the one after its cache entries; minor is PY_MINOR_VERSION.
WellFormed(s) ==
    /\ s.minor \in Nat /\ s.minor >= 11
    /\ s.code \in Seq(CodeUnit)
    /\ s.starts \subseteq 1..Len(s.code)
    /\ 1 \in s.starts \cup {Len(s.code) + 1}
    /\ \A k \in s.starts :
           LET next == k + 1 + Caches[Base(s, k)] IN
           /\ next \in s.starts \cup {Len(s.code) + 1}
           /\ \A j \in (k + 1)..(next - 1) : j \notin s.starts

ASSUME SourceAssumption == \A s \in Sources : WellFormed(s)

VARIABLES
    src,            \* the code object that is moved in
    instructions,   \* the copy
    i,              \* the loop's index
    opcode          \* the base opcode of the last instruction

vars == <<src, instructions, i, opcode>>

code_count == Len(instructions)

Init == /\ src \in Sources
        /\ instructions = src.code
        /\ i = 1
        /\ opcode = "CACHE"

-----------------------------------------------------------------------------

\* A store to the opcode of a unit.
Recoded(unit, op) == [op |-> op, arg |-> unit.arg]

\* Fault: the opcode is taken as it is.
Decoded_Raw(unit) == unit.op

Decoded(unit) == Deopt[unit.op]

\* Fault: the loop goes on one entry early.
After_Short(caches) == i + (IF caches = 0 THEN 1 ELSE caches)

After(caches) == i + 1 + caches

\* Fault: one entry too many.
CacheUnits_Over(caches) == (i + 1)..(i + 1 + caches)

CacheUnits(caches) == (i + 1)..(i + caches)

\* 3.11: the base opcode, and caches that are 0.
Deoptimise ==
    /\ src.minor = 11
    /\ i <= code_count
    /\ opcode' = Decoded(instructions[i])
    /\ LET caches == Caches[opcode'] IN
       /\ instructions' = [k \in DOMAIN instructions |->
              IF k = i THEN Recoded(instructions[k], opcode')
              ELSE IF k \in CacheUnits(caches) THEN ColdUnit
              ELSE instructions[k]]
       /\ i' = After(caches)
    /\ UNCHANGED src

\* Fault: only an instruction without caches counts as the previous one.
Previous_CacheFree(op) == IF Caches[op] = 0 THEN op ELSE opcode

\* What previous_opcode is in the next round.
Previous(op) == op

\* 3.12, an instruction with caches: they are 0 but for the counter in front.
QuickenCached ==
    /\ src.minor >= 12
    /\ i <= code_count
    /\ LET op     == Decoded(instructions[i])
           caches == Caches[op]
       IN  /\ caches > 0
           /\ opcode' = Previous(op)
           /\ instructions' = [k \in DOMAIN instructions |->
                  IF k = i THEN Recoded(instructions[k], op)
                  ELSE IF k \in CacheUnits(caches)
                  THEN IF k = i + 1 THEN Warmup ELSE ColdUnit
                  ELSE instructions[k]]
           /\ i' = After(caches)
    /\ UNCHANGED src

\* 3.12, an instruction without caches: it may join the one before it.
Quicken ==
    /\ src.minor >= 12
    /\ i <= code_count
    /\ LET op   == Decoded(instructions[i])
           pair == <<opcode, op>>
       IN  /\ Caches[op] = 0
           /\ opcode' = Previous(op)
           /\ instructions' = [k \in DOMAIN instructions |->
                  IF k = i THEN Recoded(instructions[k], op)
                  ELSE IF k = i - 1 /\ pair \in Pairs
                  THEN Recoded(instructions[k], Superinstruction(pair))
                  ELSE instructions[k]]
           /\ i' = After(0)
    /\ UNCHANGED src

Next == Deoptimise \/ QuickenCached \/ Quicken

Spec == Init /\ [][Next]_vars

-----------------------------------------------------------------------------
(* Reference: the code unit at k of a new code object of the same program,  *)
(* told from the positions of the instructions alone.                       *)

FreshOp(s, k) ==
    IF s.minor >= 12 /\ k + 1 \in s.starts /\ <<Base(s, k), Base(s, k + 1)>> \in Pairs
    THEN Superinstruction(<<Base(s, k), Base(s, k + 1)>>)
    ELSE Base(s, k)

FreshUnit(s, k) ==
    IF k \in s.starts THEN [op |-> FreshOp(s, k), arg |-> s.code[k].arg]
    ELSE IF s.minor >= 12 /\ k - 1 \in s.starts THEN Warmup
    ELSE ColdUnit

(* Properties *)

\* Type invariant: the copy keeps its length, and each unit is a code unit.
TypeOK ==
    /\ WellFormed(src)
    /\ instructions \in Seq(CodeUnit) /\ Len(instructions) = Len(src.code)
    /\ i \in src.starts \cup {Len(src.code) + 1}
    /\ opcode \in Opcodes

\* At every moment each instruction of the program is in the copy, maybe in
\* another form, with its argument: no cache entry is taken for one, and no
\* superinstruction is written over one it does not stand for.
MeaningKept ==
    \A k \in src.starts : /\ Deopt[instructions[k].op] = Base(src, k)
                          /\ instructions[k].arg = src.code[k].arg

\* Behind the loop nothing is left of what the dumping process learned (type
\* versions, pointers, counters), and every superinstruction stands in front
\* of the instruction that it runs as well.
ColdBehind ==
    \A k \in 1..(i - 1) :
        IF k \notin src.starts THEN instructions[k] = FreshUnit(src, k)
        ELSE instructions[k].op \in
                 {Base(src, k)} \cup (IF k < i - 1 THEN {FreshOp(src, k)} ELSE {})

\* The copy depends on the program only: two dumps of one program agree,
\* however warm the dumping processes were.
CopyIsFresh ==
    i > code_count => \A k \in DOMAIN instructions : instructions[k] = FreshUnit(src, k)
=============================================================================
