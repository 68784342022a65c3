----------------------------- MODULE MCDeoptCode -----------------------------
(***************************************************************************)
(* Instance of DeoptCode for TLC: programs of up to Instructions           *)
(* instructions, among them one with two cache entries, in every form that *)
(* an interpreter may have given them, for Python 3.11 and 3.12.           *)
(***************************************************************************)
EXTENDS DeoptCode, FiniteSets, TLC

CONSTANT Instructions   \* the longest program

BaseOps == {"LOAD_FAST", "LOAD_CONST", "STORE_FAST", "LOAD_ATTR"}

MCOpcodes == BaseOps \cup {Superinstruction(p) : p \in Pairs} \cup
             {"CACHE", "LOAD_ATTR_SLOT", "LOAD_FAST_CHECK"}

MCDeopt ==
    [o \in MCOpcodes |->
        CASE o = "LOAD_ATTR_SLOT" -> "LOAD_ATTR"
          [] \E p \in Pairs : Superinstruction(p) = o ->
                 (CHOOSE p \in Pairs : Superinstruction(p) = o)[1]
          [] OTHER -> o]

MCCaches == [o \in MCOpcodes |-> IF o = "LOAD_ATTR" THEN 2 ELSE 0]

MCWarmup == [op |-> "LOAD_FAST_CHECK", arg |-> 0]

\* Cache entries: cold, and two that look like instructions.
Data == {ColdUnit, [op |-> "LOAD_FAST", arg |-> 7], [op |-> "LOAD_ATTR_SLOT", arg |-> 7]}

\* The forms of one instruction with its cache entries.
Forms == {<<[op |-> o, arg |-> 1]>> : o \in {x \in MCOpcodes : MCDeopt[x] \in BaseOps \ {"LOAD_ATTR"}}}
         \cup {<<[op |-> o, arg |-> 2]>> \o c :
                   o \in {"LOAD_ATTR", "LOAD_ATTR_SLOT"}, c \in [1..2 -> Data]}

\* A superinstruction is only written in front of the second of its pair.
Joined(s) == \A k \in s.starts : \A p \in Pairs :
                 s.code[k].op = Superinstruction(p) =>
                     k + 1 \in s.starts /\ MCDeopt[s.code[k + 1].op] = p[2]

MCSources ==
    LET programs[n \in 0..Instructions] ==
            IF n = 0 THEN {[code |-> <<>>, starts |-> {}]}
            ELSE {[code |-> s.code \o f, starts |-> s.starts \cup {Len(s.code) + 1}] :
                      s \in programs[n - 1], f \in Forms}
        written == {s \in UNION {programs[n] : n \in 0..Instructions} : Joined(s)}
    IN  {[minor |-> v, code |-> s.code, starts |-> s.starts] :
             v \in {11, 12}, s \in written}
=============================================================================
