--------------------------- MODULE VMFrames_proof ---------------------------
(***************************************************************************)
(* The frames of the VM, for every program, stack size and call depth.     *)
(*                                                                         *)
(* Types come first, one lemma per instruction.  Then a step is of one of  *)
(* a few kinds (StepKinds): it stays in its frame, captures the frame in a *)
(* map, pushes a record for the caller and enters a function, or returns.  *)
(* The later proofs argue per kind, not per instruction:                   *)
(*                                                                         *)
(*   - the saved records form one chain of frames, bottom to top, and      *)
(*     below them lies @main's (FrameChain); that the chain's last frame   *)
(*     is the running one follows, and with it that calls nest;            *)
(*   - a map stands on the frame it was captured in, or has been gathered  *)
(*     (MapsInv, which tells for every map whose frame that is);           *)
(*   - a callee finds nothing but its arguments in its window;             *)
(*   - whoever resumes finds what it had, but for the result.              *)
(*                                                                         *)
(* All but the types and the callee's window are proved for disciplined    *)
(* code: the register of a funcref lies below the window the call names    *)
(* (WindowsAboveFuncRef), which starts above the registers in use          *)
(* (WindowsAboveRegisters), and a function that may be called makes no     *)
(* call behind the instruction that captures its locals (CapturesComeLast; *)
(* without it a callee's return leaves a map on slots that others reuse).  *)
(***************************************************************************)
EXTENDS VMFrames, TLAPS, WellFoundedInduction, SequenceTheorems

-----------------------------------------------------------------------------
(* Lemmas about operators.                                                 *)

\* A nonempty set of integers within an interval has a largest member.
LEMMA MaxBounded ==
  ASSUME NEW lo \in Int, NEW hi \in Int, NEW S \in SUBSET (lo .. hi), S # {}
  PROVE  Max(S) \in S /\ \A y \in S : Max(S) >= y
<1> DEFINE Dist == {hi - y : y \in S}
           Less == OpToRel(<, Nat)
<1>1. Dist \subseteq Nat /\ Dist # {}
  OBVIOUS
<1>2. PICK e \in Dist : \A k \in Dist : <<k, e>> \notin Less
  <2>1. IsWellFoundedOn(Less, Nat)
    BY NatLessThanWellFounded
  <2> HIDE DEF Less, Dist
  <2> QED BY <1>1, <2>1, WFMin
<1>3. ASSUME NEW k \in Dist PROVE e <= k
  <2>1. k \in Nat /\ e \in Nat
    BY <1>1
  <2>2. ~(k < e)
    <3> SUFFICES ASSUME k < e PROVE FALSE
      OBVIOUS
    <3>1. <<k, e>> \in Less
      BY <2>1 DEF OpToRel
    <3> QED BY <1>2, <3>1
  <2> QED BY <2>1, <2>2
<1>4. PICK x \in S : e = hi - x
  OBVIOUS
<1>5. \A y \in S : x >= y
  <2> TAKE y \in S
  <2>1. e <= hi - y
    BY <1>3
  <2> QED BY <1>4, <2>1
<1> QED BY <1>5 DEF Max

\* MaxRegs is a count of registers, whatever the code.
LEMMA MaxRegsNat == \A f \in Funcs : MaxRegs[f] \in Nat
<1> SUFFICES ASSUME NEW f \in Funcs PROVE MaxRegs[f] \in Nat
  OBVIOUS
<1> DEFINE used  == {j \in UNION Range(Code[f]) : j.op \in Reserving}
           dests == {i.a : i \in used}
<1>1. ASSUME NEW j \in used PROVE j.a \in 0 .. 255
  <2>1. PICK p \in DOMAIN Code[f] : j \in Code[f][p]
    BY DEF Range
  <2> QED BY <2>1, CodeAssumption
<1>2. dests \in SUBSET (0 .. 255)
  BY <1>1
<1>3. MaxRegs[f] = IF dests = {} THEN 0 ELSE Max(dests) + 1
  BY DEF MaxRegs
<1> HIDE DEF dests
<1>4. 0 \in Int /\ 255 \in Int
  OBVIOUS
<1>5. dests # {} => Max(dests) \in dests
  BY <1>2, <1>4, MaxBounded, Zenon
<1>6. dests # {} => Max(dests) \in 0 .. 255
  BY <1>2, <1>5
<1> QED BY <1>3, <1>6

-----------------------------------------------------------------------------
(* Type correctness.                                                       *)

\* An instruction of the code is one of AllCode; FUNCREF gives integers.
LEMMA NamedInCode ==
  ASSUME NEW f \in Funcs, NEW i \in UNION Range(Code[f])
  PROVE  /\ i.op = "FUNCREF" => i.c \in FuncRefs /\ i.c \in Callees
         /\ i.op = "CALLF" => i.b \in Callees
<1>1. i \in AllCode
  BY DEF AllCode
<1> QED BY <1>1 DEF FuncRefs, Callees

LEMMA FuncRefsInt == FuncRefs \subseteq Int
<1> SUFFICES ASSUME NEW i \in AllCode, i.op = "FUNCREF" PROVE i.c \in Int
  BY DEF FuncRefs
<1>1. PICK f \in Funcs : i \in UNION Range(Code[f])
  BY DEF AllCode
<1>2. PICK p \in DOMAIN Code[f] : i \in Code[f][p]
  BY <1>1 DEF Range
<1> QED BY <1>2, CodeAssumption

\* What is known of an instruction that was fetched.
LEMMA Fetched ==
  ASSUME curFunc \in Funcs, pc \in Nat, NEW q \in Nat, NEW i \in CodeAt(curFunc, q)
  PROVE  /\ q + 1 \in 1 .. Len(Code[curFunc])
         /\ i \in UNION Range(Code[curFunc])
         /\ i.op = "FUNCREF" => i.c \in FuncRefs
         /\ i.a \in Nat /\ i.b \in Nat
         /\ i.op \in {"LOADK", "FUNCREF", "ARG", "ARGK"} => i.c \in Int
         /\ i.op \in Naming => i.c \in Names
         /\ i.op = "CALL" => i.c \in Nat
         /\ i.op = "CALLF" => i.b \in Funcs
<1>1. q + 1 \in DOMAIN Code[curFunc] /\ i \in Code[curFunc][q + 1]
  BY DEF CodeAt
<1>2. i \in UNION Range(Code[curFunc])
  BY <1>1 DEF Range
<1> QED BY <1>1, <1>2, CodeAssumption, NamedInCode

LEMMA FetchedAt ==
  ASSUME curFunc \in Funcs, pc \in Nat, NEW op, NEW i \in At(op)
  PROVE  /\ i.op = op /\ status = "running" /\ InRange(i)
         /\ i \in CodeAt(curFunc, pc)
         /\ i.op = "FUNCREF" => i.c \in FuncRefs
         /\ pc + 1 \in 1 .. Len(Code[curFunc])
         /\ i.a \in Nat /\ i.b \in Nat
         /\ i.op \in {"LOADK", "FUNCREF", "ARG", "ARGK"} => i.c \in Int
         /\ i.op \in Naming => i.c \in Names
         /\ i.op = "CALL" => i.c \in Nat
         /\ i.op = "CALLF" => i.b \in Funcs
<1>1. i.op = op /\ status = "running" /\ InRange(i) /\ i \in CodeAt(curFunc, pc)
  BY DEF At
<1> QED BY <1>1, Fetched

\* A key a map has is bound to a slot or stored with a value.
LEMMA LookupType ==
  ASSUME TypeOK, NEW m \in DOMAIN varMaps, NEW k \in Names
  PROVE  /\ Mapped(m, k) => varMaps[m].regs[k] \in Slots
         /\ HasKey(m, k) => Lookup(m, k) \in Values
<1>1. varMaps[m] \in MapObjects
  BY ElementOfSeq DEF TypeOK
<1> QED BY <1>1 DEF TypeOK, MapObjects, Mapped, HasKey, Lookup

\* Handles, and with them all types, only grow.
LEMMA TypesGrow ==
  ASSUME Len(varMaps) \in Nat, Len(varMaps') \in Nat, Len(varMaps) <= Len(varMaps')
  PROVE  /\ Handles \subseteq Handles'
         /\ Values \subseteq Values'
         /\ Infos \subseteq Infos'
         /\ MapObjects \subseteq MapObjects'
<1>1. Handles \subseteq Handles'
  BY DEF Handles
<1>2. Values \subseteq Values'
  BY <1>1 DEF Values
<1>3. Infos \subseteq Infos'
  BY <1>1 DEF Infos
<1>4. MapObjects \subseteq MapObjects'
  BY <1>2 DEF MapObjects
<1> QED BY <1>1, <1>2, <1>3, <1>4

THEOREM TypeInit == Init => TypeOK
<1> SUFFICES ASSUME Init PROVE TypeOK
  OBVIOUS
<1>1. varMaps = <<>> /\ DOMAIN varMaps = {} /\ Len(varMaps) = 0
  BY DEF Init
<1>2. callStack \in [0 .. CallSlots - 1 -> Infos]
  BY <1>1 DEF Init, CallInfo, Infos, Handles
<1>3. varMaps \in Seq(MapObjects) /\ home \in [DOMAIN varMaps -> 0 .. CallSlots \cup {Gone}]
  BY <1>1 DEF Init
<1> QED BY <1>2, <1>3, FramesAssumption DEF Init, TypeOK, Values, Status

\* Storing a value in a register in range.
LEMMA SetRegType ==
  ASSUME TypeOK, NEW r \in Nat, NEW v \in Values, SetReg(r, v)
  PROVE  stack' \in [Slots -> Values] /\ pc' \in Nat
<1>1. stack \in [Slots -> Values] /\ pc \in Nat /\ baseIndex \in Nat
  BY DEF TypeOK
<1>2. stack' \in [Slots -> Values]
  BY <1>1 DEF SetReg
<1>3. pc' \in Nat
  BY <1>1 DEF SetReg
<1> QED BY <1>2, <1>3

\* CallInfo.GetLocalVarMap returns a map that exists afterwards.
LEMMA LocalVarMapType ==
  ASSUME TypeOK, NEW d \in 0 .. CallSlots - 1, NEW base \in Nat, NEW count \in Nat,
         callStack[d].LocalVarMap = 0 => Fits(base, count),
         GetLocalVarMap(d, base, count)
  PROVE  /\ Len(varMaps) \in Nat /\ Len(varMaps') \in Nat /\ Len(varMaps) <= Len(varMaps')
         /\ LocalMapOf(d) \in Handles' \ {0}
         /\ callStack' \in [0 .. CallSlots - 1 -> Infos']
         /\ varMaps' \in Seq(MapObjects')
         /\ home' \in [DOMAIN varMaps' -> 0 .. CallSlots \cup {Gone}]
<1> DEFINE M == NewVarMap(base, count)
<1>0. /\ Len(varMaps) \in Nat /\ DOMAIN varMaps = 1 .. Len(varMaps)
      /\ callStack[d] \in Infos /\ varMaps \in Seq(MapObjects)
  BY LenProperties DEF TypeOK
<1>1. CASE callStack[d].LocalVarMap # 0
  <2>1. UNCHANGED <<callStack, varMaps, home>>
    BY <1>1 DEF GetLocalVarMap
  <2>2. UNCHANGED <<Handles, Values, Infos, MapObjects>>
    BY <2>1 DEF Handles, Values, Infos, MapObjects
  <2>3. LocalMapOf(d) \in Handles \ {0}
    BY <1>0, <1>1 DEF LocalMapOf, Infos
  <2> QED BY <1>0, <2>1, <2>2, <2>3 DEF TypeOK
<1>2. CASE callStack[d].LocalVarMap = 0
  <2>1. /\ varMaps' = Append(varMaps, M)
        /\ home' = Append(home, d)
        /\ callStack' = [callStack EXCEPT ![d].LocalVarMap = Len(varMaps) + 1]
    BY <1>2 DEF GetLocalVarMap
  <2>2. M \in MapObjects
    <3>1. ASSUME NEW k \in Names
          PROVE  M.regs[k] \in Slots \cup {Unmapped}
      <4> DEFINE named == {s \in base .. base + count - 1 : names[s] = k}
      <4>1. M.regs[k] = IF named = {} THEN Unmapped ELSE Max(named)
        BY DEF NewVarMap
      <4>2. /\ base \in Int /\ base + count - 1 \in Int
            /\ named \in SUBSET (base .. base + count - 1)
            /\ base .. base + count - 1 \subseteq Slots
        BY <1>2, FramesAssumption DEF Fits, Slots
      <4> HIDE DEF named
      <4>3. named # {} => Max(named) \in named
        BY <4>2, MaxBounded, Zenon
      <4> QED BY <4>1, <4>2, <4>3
    <3>2. M = [regs |-> M.regs, items |-> [k \in Names |-> Absent]]
          /\ M.regs = [k \in Names |-> M.regs[k]]
      BY DEF NewVarMap
    <3> HIDE DEF M
    <3>3. M.regs \in [Names -> Slots \cup {Unmapped}]
      BY <3>1, <3>2
    <3> QED BY <3>2, <3>3 DEF MapObjects
  <2>3. /\ Len(varMaps') = Len(varMaps) + 1 /\ Len(varMaps') \in Nat
        /\ DOMAIN varMaps' = 1 .. Len(varMaps) + 1
        /\ varMaps' \in Seq(MapObjects)
    <3> HIDE DEF M
    <3> QED BY <1>0, <2>1, <2>2, AppendProperties
  <2>4. /\ Handles \subseteq Handles' /\ Infos \subseteq Infos' /\ MapObjects \subseteq MapObjects'
        /\ Len(varMaps) + 1 \in Handles'
    <3>1. Len(varMaps) <= Len(varMaps')
      BY <1>0, <2>3
    <3>2. Len(varMaps) + 1 \in Handles'
      BY <1>0, <2>3 DEF Handles
    <3> QED BY <1>0, <2>3, <3>1, <3>2, TypesGrow
  <2>5. callStack' \in [0 .. CallSlots - 1 -> Infos']
    <3>1. [callStack[d] EXCEPT !.LocalVarMap = Len(varMaps) + 1] \in Infos'
      BY <1>0, <2>4 DEF Infos
    <3> QED BY <2>1, <2>4, <3>1 DEF TypeOK
  <2>6. varMaps' \in Seq(MapObjects')
    BY <2>3, <2>4, SeqMonotonic
  <2>7. home' \in [DOMAIN varMaps' -> 0 .. CallSlots \cup {Gone}]
    <3> DEFINE H == 0 .. CallSlots \cup {Gone}
    <3>1. home \in [1 .. Len(varMaps) -> H] /\ d \in H
      BY <1>0, FramesAssumption DEF TypeOK
    <3> HIDE DEF H
    <3>2. home \in Seq(H)
      BY <1>0, <3>1, SeqDef
    <3>3. Len(home) = Len(varMaps)
      BY <1>0, <3>1, <3>2, LenProperties
    <3>4. home' \in Seq(H) /\ Len(home') = Len(varMaps) + 1
      BY <2>1, <3>1, <3>2, <3>3, AppendProperties
    <3>5. home' \in [1 .. Len(varMaps) + 1 -> H]
      BY <3>4, LenProperties
    <3> QED BY <2>3, <3>5 DEF H
  <2>8. LocalMapOf(d) \in Handles' \ {0}
    BY <1>0, <1>2, <2>4 DEF LocalMapOf
  <2> QED BY <1>0, <2>3, <2>5, <2>6, <2>7, <2>8
<1> QED BY <1>1, <1>2

\* A step that changes registers, names, pc and status only.
LEMMA InFrameType ==
  ASSUME TypeOK, stack' \in [Slots -> Values], names' \in [Slots -> Names \cup {NoName}],
         pc' \in Nat, status' \in Status, UNCHANGED <<calls, maps>>
  PROVE  TypeOK'
<1>1. UNCHANGED <<callStack, callStackTop, baseIndex, curFunc, currentFuncIndex, varMaps, home>>
  BY DEF calls, maps
<1>2. UNCHANGED <<Handles, Values, Infos, MapObjects>>
  BY <1>1 DEF Handles, Values, Infos, MapObjects
<1> QED BY <1>1, <1>2 DEF TypeOK

\* A step that stores an entry of the ordinary part of a map.
LEMMA ItemType ==
  ASSUME TypeOK, NEW m \in DOMAIN varMaps, NEW k \in Names, NEW v \in Values \cup {Absent},
         varMaps' = [varMaps EXCEPT ![m].items[k] = v],
         stack' \in [Slots -> Values], names' \in [Slots -> Names \cup {NoName}],
         pc' \in Nat, status' \in Status, UNCHANGED <<calls, home>>
  PROVE  TypeOK'
<1>0. Len(varMaps) \in Nat /\ m \in 1 .. Len(varMaps) /\ varMaps \in Seq(MapObjects)
  BY LenProperties DEF TypeOK
<1>1. varMaps[m] \in MapObjects
  BY <1>0, ElementOfSeq
<1> DEFINE new == [varMaps[m] EXCEPT !.items[k] = v]
<1>2. new \in MapObjects
  <2>1. varMaps[m].items \in [Names -> Values \cup {Absent}]
    BY <1>1 DEF MapObjects
  <2>2. [varMaps[m].items EXCEPT ![k] = v] \in [Names -> Values \cup {Absent}]
    BY <2>1
  <2> QED BY <1>1, <2>2 DEF MapObjects
<1>3. varMaps' = [varMaps EXCEPT ![m] = new]
  OBVIOUS
<1> HIDE DEF new
<1>4. /\ varMaps' \in Seq(MapObjects) /\ Len(varMaps') = Len(varMaps)
  BY <1>0, <1>2, <1>3, ExceptSeq, SMTT(30)
<1>5. DOMAIN varMaps' = DOMAIN varMaps
  BY <1>3
<1>6. UNCHANGED <<Handles, Values, Infos, MapObjects>>
  BY <1>4 DEF Handles, Values, Infos, MapObjects
<1>7. UNCHANGED <<callStack, callStackTop, baseIndex, curFunc, currentFuncIndex, home>>
  BY DEF calls
<1> QED BY <1>4, <1>5, <1>6, <1>7 DEF TypeOK

\* A register in range holds a value.
LEMMA RegType ==
  ASSUME TypeOK, NEW r \in Nat, baseIndex + r \in Slots
  PROVE  Reg(r) \in Values
BY DEF TypeOK, Reg

LEMMA NameRegType ==
  ASSUME TypeOK, NEW r \in Nat, NEW k \in Names \cup {NoName}, NameReg(r, k)
  PROVE  names' \in [Slots -> Names \cup {NoName}]
<1>1. names \in [Slots -> Names \cup {NoName}] /\ baseIndex \in Nat
  BY DEF TypeOK
<1> QED BY <1>1 DEF NameReg

\* What LOADV and LOADC find is a value.
LEMMA OuterType ==
  ASSUME TypeOK
  PROVE  /\ OuterContext \in Handles
         /\ \A k \in Names : LookupVariable(k) \in Values
<1>1. OuterContext \in Handles
  <2>1. callStackTop # 0 => callStack[callStackTop - 1] \in Infos
    BY FramesAssumption DEF TypeOK
  <2>2. 0 \in Handles
    BY LenProperties DEF TypeOK, Handles
  <2> QED BY <2>1, <2>2 DEF OuterContext, Infos
<1>2. ASSUME NEW k \in Names PROVE LookupVariable(k) \in Values
  <2>1. CASE ~InOuter(k)
    BY <2>1 DEF LookupVariable, Values
  <2>2. CASE InOuter(k)
    <3>1. OuterContext \in DOMAIN varMaps
      BY <1>1, <2>2, LenProperties DEF InOuter, Handles, TypeOK
    <3> QED BY <2>2, <3>1, LookupType DEF InOuter, LookupVariable
  <2> QED BY <2>1, <2>2
<1> QED BY <1>1, <1>2

LEMMA VarValueType ==
  ASSUME TypeOK, NEW op \in {"LOADV", "LOADC"}, NEW i \in At(op)
  PROVE  VarValue(i) \in Values
<1>1. i.op = op /\ InRange(i) /\ i.b \in Nat /\ i.c \in Names
  BY FetchedAt DEF TypeOK, Naming
<1>2. baseIndex + i.b \in Slots
  BY <1>1 DEF InRange, Operands
<1>3. Reg(i.b) \in Values /\ LookupVariable(i.c) \in Values
  BY <1>1, <1>2, RegType, OuterType
<1> QED BY <1>3 DEF VarValue

-----------------------------------------------------------------------------
(* Each action preserves the types.                                        *)

LEMMA LoadType == TypeOK /\ Load => TypeOK'
<1> SUFFICES ASSUME TypeOK, NEW i \in At("LOAD") \cup At("LOADK"),
                    SetReg(i.a, IF i.op = "LOAD" THEN Reg(i.b) ELSE Atom(i.c)),
                    UNCHANGED <<names, status, calls, maps>>
             PROVE  TypeOK'
  BY DEF Load
<1>1. /\ i.op \in {"LOAD", "LOADK"} /\ InRange(i) /\ i.a \in Nat /\ i.b \in Nat
      /\ i.op = "LOADK" => i.c \in Int
  BY FetchedAt DEF TypeOK
<1>2. CASE i.op = "LOAD"
  <2>1. baseIndex + i.b \in Slots
    BY <1>1, <1>2 DEF InRange, Operands
  <2>2. SetReg(i.a, Reg(i.b)) /\ Reg(i.b) \in Values
    BY <1>1, <1>2, <2>1, RegType
  <2>3. stack' \in [Slots -> Values] /\ pc' \in Nat
    BY <1>1, <2>2, SetRegType
  <2> QED BY <2>3, InFrameType DEF TypeOK
<1>3. CASE i.op # "LOAD"
  <2>1. SetReg(i.a, Atom(i.c)) /\ Atom(i.c) \in Values
    BY <1>1, <1>3 DEF Values, Atom
  <2>2. stack' \in [Slots -> Values] /\ pc' \in Nat
    BY <1>1, <2>1, SetRegType
  <2> QED BY <2>2, InFrameType DEF TypeOK
<1> QED BY <1>2, <1>3

LEMMA AssignType == TypeOK /\ Assign => TypeOK'
<1> SUFFICES ASSUME TypeOK, NEW i \in At("ASSIGN"), SetReg(i.a, Reg(i.b)),
                    NameReg(i.a, i.c), UNCHANGED <<status, calls, maps>>
             PROVE  TypeOK'
  BY DEF Assign
<1>1. i.op = "ASSIGN" /\ InRange(i) /\ i.a \in Nat /\ i.b \in Nat /\ i.c \in Names
  BY FetchedAt DEF TypeOK, Naming
<1>2. baseIndex + i.b \in Slots
  BY <1>1 DEF InRange, Operands
<1>3. stack' \in [Slots -> Values] /\ pc' \in Nat
  BY <1>1, <1>2, RegType, SetRegType
<1>4. names' \in [Slots -> Names \cup {NoName}]
  BY <1>1, NameRegType
<1> QED BY <1>3, <1>4, InFrameType DEF TypeOK

LEMMA NameType == TypeOK /\ Name => TypeOK'
<1> SUFFICES ASSUME TypeOK, NEW i \in At("NAME"), NameReg(i.a, i.c), pc' = pc + 1,
                    UNCHANGED <<stack, status, calls, maps>>
             PROVE  TypeOK'
  BY DEF Name
<1>1. i.a \in Nat /\ i.c \in Names
  BY FetchedAt DEF TypeOK, Naming
<1>2. names' \in [Slots -> Names \cup {NoName}]
  BY <1>1, NameRegType
<1>3. stack' \in [Slots -> Values]
  BY DEF TypeOK
<1> QED BY <1>2, <1>3, InFrameType DEF TypeOK

LEMMA LoadVType == TypeOK /\ LoadV => TypeOK'
<1> SUFFICES ASSUME TypeOK, NEW i \in At("LOADV"), SetReg(i.a, VarValue(i)),
                    IF VarKnown(i) THEN UNCHANGED status ELSE Stop("error"),
                    UNCHANGED <<names, calls, maps>>
             PROVE  TypeOK'
  BY DEF LoadV
<1>1. i.a \in Nat
  BY FetchedAt DEF TypeOK
<1>2. stack' \in [Slots -> Values] /\ pc' \in Nat
  BY <1>1, VarValueType, SetRegType
<1>3. status' \in Status
  BY DEF TypeOK, Stop, Status
<1> QED BY <1>2, <1>3, InFrameType DEF TypeOK

LEMMA OuterOpType == TypeOK /\ Outer => TypeOK'
<1> SUFFICES ASSUME TypeOK, NEW i \in At("OUTER"), NameReg(i.a, NoName),
                    SetReg(i.a, IF OuterContext = 0 THEN Null ELSE MapV(OuterContext)),
                    UNCHANGED <<status, calls, maps>>
             PROVE  TypeOK'
  BY DEF Outer
<1> DEFINE v == IF OuterContext = 0 THEN Null ELSE MapV(OuterContext)
<1>1. i.a \in Nat
  BY FetchedAt DEF TypeOK
<1>2. v \in Values
  BY OuterType DEF Values, MapV
<1>3. stack' \in [Slots -> Values] /\ pc' \in Nat
  <2>1. SetReg(i.a, v)
    OBVIOUS
  <2> HIDE DEF v
  <2> QED BY <1>1, <1>2, <2>1, SetRegType
<1>4. names' \in [Slots -> Names \cup {NoName}]
  BY <1>1, NameRegType
<1> QED BY <1>3, <1>4, InFrameType DEF TypeOK

\* A map in a register is one that was made.
LEMMA MapInReg ==
  ASSUME TypeOK, NEW r \in Nat, baseIndex + r \in Slots, Reg(r).kind = "map"
  PROVE  Reg(r).n \in DOMAIN varMaps
<1>1. Reg(r) \in Values
  BY RegType
<1>2. Reg(r).n \in Handles \ {0}
  BY <1>1 DEF Values, Null
<1> QED BY <1>2, LenProperties DEF TypeOK, Handles

LEMMA IndexType == TypeOK /\ Index => TypeOK'
<1> SUFFICES ASSUME TypeOK, NEW i \in At("INDEX"),
                    SetReg(i.a, IF Reg(i.b).kind = "map" /\ HasKey(Reg(i.b).n, i.c)
                                THEN Lookup(Reg(i.b).n, i.c) ELSE Null),
                    status' \in {status, "error"}, UNCHANGED <<names, calls, maps>>
             PROVE  TypeOK'
  BY DEF Index, Stop
<1> DEFINE v == IF Reg(i.b).kind = "map" /\ HasKey(Reg(i.b).n, i.c)
                THEN Lookup(Reg(i.b).n, i.c) ELSE Null
<1>1. i.op = "INDEX" /\ InRange(i) /\ i.a \in Nat /\ i.b \in Nat /\ i.c \in Names
  BY FetchedAt DEF TypeOK, Naming
<1>2. baseIndex + i.b \in Slots
  BY <1>1 DEF InRange, Operands
<1>3. v \in Values
  <2>1. Null \in Values
    BY DEF Values
  <2> QED BY <1>1, <1>2, <2>1, MapInReg, LookupType
<1>4. stack' \in [Slots -> Values] /\ pc' \in Nat
  <2>1. SetReg(i.a, v)
    OBVIOUS
  <2> HIDE DEF v
  <2> QED BY <1>1, <1>3, <2>1, SetRegType
<1>5. status' \in Status
  BY DEF TypeOK, Status
<1> QED BY <1>4, <1>5, InFrameType DEF TypeOK

LEMMA IdxSetType == TypeOK /\ IdxSet => TypeOK'
<1> SUFFICES ASSUME TypeOK, NEW i \in At("IDXSET"), pc' = pc + 1,
                    IF Reg(i.a).kind = "map"
                    THEN MapSet(Reg(i.a).n, i.c, Reg(i.b)) /\ UNCHANGED status
                    ELSE Stop("error") /\ UNCHANGED <<stack, names, varMaps>>,
                    UNCHANGED <<calls, home>>
             PROVE  TypeOK'
  BY DEF IdxSet
<1>1. i.op = "IDXSET" /\ InRange(i) /\ i.a \in Nat /\ i.b \in Nat /\ i.c \in Names
  BY FetchedAt DEF TypeOK, Naming
<1>2. baseIndex + i.a \in Slots /\ baseIndex + i.b \in Slots
  BY <1>1 DEF InRange, Operands
<1>3. Reg(i.b) \in Values
  BY <1>1, <1>2, RegType
<1>4. CASE Reg(i.a).kind # "map"
  <2>1. status' \in Status /\ UNCHANGED <<stack, names, calls, maps>>
    BY <1>4 DEF Stop, Status, maps
  <2> QED BY <2>1, InFrameType DEF TypeOK
<1>5. CASE Reg(i.a).kind = "map"
  <2> DEFINE m == Reg(i.a).n
  <2>1. m \in DOMAIN varMaps
    BY <1>1, <1>2, <1>5, MapInReg
  <2> HIDE DEF m
  <2>2. MapSet(m, i.c, Reg(i.b)) /\ UNCHANGED status
    BY <1>5 DEF m
  <2>3. CASE Mapped(m, i.c)
    <3>1. /\ stack' = [stack EXCEPT ![varMaps[m].regs[i.c]] = Reg(i.b)]
          /\ names' = [names EXCEPT ![varMaps[m].regs[i.c]] = i.c]
          /\ UNCHANGED <<calls, maps, status>>
      BY <2>2, <2>3 DEF MapSet, maps
    <3>2. stack' \in [Slots -> Values] /\ names' \in [Slots -> Names \cup {NoName}]
      BY <1>1, <1>3, <3>1 DEF TypeOK
    <3> QED BY <3>1, <3>2, InFrameType DEF TypeOK
  <2>4. CASE ~Mapped(m, i.c)
    <3>1. /\ varMaps' = [varMaps EXCEPT ![m].items[i.c] = Reg(i.b)]
          /\ UNCHANGED <<stack, names, status>>
      BY <2>2, <2>4 DEF MapSet
    <3>2. /\ stack' \in [Slots -> Values] /\ names' \in [Slots -> Names \cup {NoName}]
          /\ pc' \in Nat /\ status' \in Status /\ Reg(i.b) \in Values \cup {Absent}
      BY <1>3, <2>2, <3>1 DEF TypeOK
    <3> QED BY <1>1, <2>1, <3>1, <3>2, ItemType
  <2> QED BY <2>3, <2>4
<1> QED BY <1>4, <1>5

LEMMA RemoveType == TypeOK /\ Remove => TypeOK'
<1> SUFFICES ASSUME TypeOK, Remove PROVE TypeOK'
  OBVIOUS
<1> PICK i \in At("REMOVE") :
      LET m      == Reg(i.a).n
          mapped == Reg(i.a).kind = "map" /\ Mapped(m, i.c)
          stored == Reg(i.a).kind = "map" /\ ~mapped /\ varMaps[m].items[i.c] # Absent
      IN  /\ names' = IF mapped THEN [names EXCEPT ![varMaps[m].regs[i.c]] = NoName]
                      ELSE names
          /\ varMaps' = IF stored THEN [varMaps EXCEPT ![m].items[i.c] = Absent]
                        ELSE varMaps
          /\ SetReg(i.a, Atom(IF mapped \/ stored THEN 1 ELSE 0))
          /\ UNCHANGED <<status, calls, home>>
  BY DEF Remove
<1> DEFINE mapped == Reg(i.a).kind = "map" /\ Mapped(Reg(i.a).n, i.c)
           stored == Reg(i.a).kind = "map" /\ ~mapped /\ varMaps[Reg(i.a).n].items[i.c] # Absent
<1>1. i.op = "REMOVE" /\ InRange(i) /\ i.a \in Nat /\ i.c \in Names
  BY FetchedAt DEF TypeOK, Naming
<1>2. baseIndex + i.a \in Slots
  BY <1>1 DEF InRange, Operands
<1>3. stack' \in [Slots -> Values] /\ pc' \in Nat
  <2>1. Atom(IF mapped \/ stored THEN 1 ELSE 0) \in Values
    BY DEF Atom, Values
  <2> QED BY <1>1, <2>1, SetRegType
<1>4. names' \in [Slots -> Names \cup {NoName}]
  BY DEF TypeOK
<1>5. CASE stored
  <2>1. Reg(i.a).n \in DOMAIN varMaps
    BY <1>1, <1>2, <1>5, MapInReg
  <2> QED BY <1>1, <1>3, <1>4, <1>5, <2>1, ItemType DEF TypeOK
<1>6. CASE ~stored
  <2>1. UNCHANGED <<calls, maps>>
    BY <1>6 DEF maps
  <2> QED BY <1>3, <1>4, <2>1, InFrameType DEF TypeOK
<1> QED BY <1>5, <1>6

\* A step that makes a locals map, or finds it made, and puts it in a register.
LEMMA CaptureType ==
  ASSUME TypeOK, NEW d \in 0 .. CallSlots - 1, NEW base \in Nat, NEW count \in Nat,
         callStack[d].LocalVarMap = 0 => Fits(base, count),
         GetLocalVarMap(d, base, count),
         NEW r \in Nat, NEW v \in Values', SetReg(r, v),
         names' \in [Slots -> Names \cup {NoName}],
         UNCHANGED <<callStackTop, baseIndex, curFunc, currentFuncIndex, status>>
  PROVE  TypeOK'
<1>1. /\ Len(varMaps) \in Nat /\ Len(varMaps') \in Nat /\ Len(varMaps) <= Len(varMaps')
      /\ callStack' \in [0 .. CallSlots - 1 -> Infos']
      /\ varMaps' \in Seq(MapObjects')
      /\ home' \in [DOMAIN varMaps' -> 0 .. CallSlots \cup {Gone}]
  BY LocalVarMapType
<1>2. Values \subseteq Values'
  BY <1>1, TypesGrow
<1>3. stack \in [Slots -> Values'] /\ pc \in Nat /\ baseIndex \in Nat
  BY <1>2 DEF TypeOK
<1>4. stack' \in [Slots -> Values']
  BY <1>3 DEF SetReg
<1>5. pc' \in Nat
  BY <1>3 DEF SetReg
<1> QED BY <1>1, <1>4, <1>5 DEF TypeOK

LEMMA FuncRefType == TypeOK /\ FuncRef => TypeOK'
<1> SUFFICES ASSUME TypeOK, NEW i \in At("FUNCREF"),
                    GetLocalVarMap(callStackTop, baseIndex, MaxRegs[curFunc]),
                    SetReg(i.a, FuncV(i.c, LocalMapOf(callStackTop))),
                    UNCHANGED <<names, callStackTop, baseIndex, curFunc, currentFuncIndex,
                                status>>
             PROVE  TypeOK'
  BY DEF FuncRef
<1>1. i.op = "FUNCREF" /\ InRange(i) /\ i.a \in Nat /\ i.c \in FuncRefs
  BY FetchedAt DEF TypeOK
<1>2. /\ callStackTop \in 0 .. CallSlots - 1
      /\ callStack[callStackTop].LocalVarMap = 0 => Fits(baseIndex, MaxRegs[curFunc])
  BY <1>1, FramesAssumption DEF InRange, CanCapture, TypeOK
<1>3. baseIndex \in Nat /\ MaxRegs[curFunc] \in Nat
  BY MaxRegsNat DEF TypeOK
<1>4. LocalMapOf(callStackTop) \in Handles'
  BY <1>2, <1>3, LocalVarMapType
<1>5. FuncV(i.c, LocalMapOf(callStackTop)) \in Values'
  BY <1>1, <1>4 DEF Values, FuncV
<1>6. names' \in [Slots -> Names \cup {NoName}]
  BY DEF TypeOK
<1> QED BY <1>1, <1>2, <1>3, <1>5, <1>6, CaptureType

LEMMA LocalsType == TypeOK /\ Locals => TypeOK'
<1> SUFFICES ASSUME TypeOK, NEW i \in At("LOCALS"),
                    GetLocalVarMap(callStackTop, baseIndex, MaxRegs[curFunc]),
                    SetReg(i.a, MapV(LocalMapOf(callStackTop))), NameReg(i.a, NoName),
                    UNCHANGED <<callStackTop, baseIndex, curFunc, currentFuncIndex, status>>
             PROVE  TypeOK'
  BY DEF Locals
<1>1. i.op = "LOCALS" /\ InRange(i) /\ i.a \in Nat
  BY FetchedAt DEF TypeOK
<1>2. /\ callStackTop \in 0 .. CallSlots - 1
      /\ callStack[callStackTop].LocalVarMap = 0 => Fits(baseIndex, MaxRegs[curFunc])
  BY <1>1, FramesAssumption DEF InRange, CanCapture, TypeOK
<1>3. baseIndex \in Nat /\ MaxRegs[curFunc] \in Nat
  BY MaxRegsNat DEF TypeOK
<1>4. LocalMapOf(callStackTop) \in Handles' \ {0}
  BY <1>2, <1>3, LocalVarMapType
<1>5. MapV(LocalMapOf(callStackTop)) \in Values'
  BY <1>4 DEF Values, MapV
<1>6. names' \in [Slots -> Names \cup {NoName}]
  BY <1>1, NameRegType
<1> QED BY <1>1, <1>2, <1>3, <1>5, <1>6, CaptureType

LEMMA GlobalsType == TypeOK /\ Globals => TypeOK'
<1> DEFINE count == MaxRegs[callStack[0].ReturnFuncIndex]
<1> SUFFICES ASSUME TypeOK, NEW i \in At("GLOBALS"), GetLocalVarMap(0, 0, count),
                    SetReg(i.a, MapV(LocalMapOf(0))), NameReg(i.a, NoName),
                    UNCHANGED <<callStackTop, baseIndex, curFunc, currentFuncIndex, status>>
             PROVE  TypeOK'
  BY DEF Globals
<1>1. i.op = "GLOBALS" /\ InRange(i) /\ i.a \in Nat
  BY FetchedAt DEF TypeOK
<1>2. /\ callStack[0].ReturnFuncIndex \in Funcs
      /\ callStack[0].LocalVarMap = 0 => Fits(0, count)
  BY <1>1 DEF InRange
<1>3. count \in Nat
  BY <1>2, MaxRegsNat, Zenon
<1>4. 0 \in Nat /\ 0 \in 0 .. CallSlots - 1
  BY FramesAssumption
<1> HIDE DEF count
<1>5. LocalMapOf(0) \in Handles' \ {0}
  BY <1>2, <1>3, <1>4, LocalVarMapType, Zenon
<1>6. MapV(LocalMapOf(0)) \in Values'
  BY <1>5 DEF Values, MapV
<1>7. names' \in [Slots -> Names \cup {NoName}]
  BY <1>1, NameRegType
<1> QED BY <1>1, <1>2, <1>3, <1>4, <1>6, <1>7, CaptureType

\* A call pushes a record that names a place to return to.
LEMMA PushFrameType ==
  ASSUME TypeOK, ~Full, NEW callee \in Funcs, NEW funcIndex \in Int, NEW base \in Nat,
         NEW returnPC \in Nat, NEW reg \in Int, NEW outer \in Handles,
         PushFrame(callee, funcIndex, base, returnPC, reg, outer),
         stack' \in [Slots -> Values], names' \in [Slots -> Names \cup {NoName}]
  PROVE  TypeOK'
<1>1. CallInfo(returnPC, baseIndex, currentFuncIndex, reg, outer) \in Infos
  <2>1. 0 \in Handles
    BY LenProperties DEF TypeOK, Handles
  <2> QED BY <2>1 DEF TypeOK, CallInfo, Infos
<1>2. callStackTop \in 0 .. CallSlots - 1
  BY FramesAssumption DEF TypeOK, Full
<1>3. callStack' \in [0 .. CallSlots - 1 -> Infos]
  BY <1>1, <1>2 DEF TypeOK, PushFrame
<1>4. UNCHANGED <<Handles, Values, Infos, MapObjects>>
  BY DEF PushFrame, maps, Handles, Values, Infos, MapObjects
<1>5. /\ callStackTop' \in 0 .. CallSlots /\ pc' \in Nat /\ baseIndex' \in Nat
      /\ curFunc' \in Funcs /\ currentFuncIndex' \in Int
  BY <1>2, FramesAssumption DEF PushFrame
<1>6. UNCHANGED <<status, varMaps, home>>
  BY DEF PushFrame, maps
<1> QED BY <1>3, <1>4, <1>5, <1>6 DEF TypeOK

LEMMA LeaveType ==
  ASSUME TypeOK, NEW s \in Status, Leave(s),
         stack' \in [Slots -> Values], names' \in [Slots -> Names \cup {NoName}]
  PROVE  TypeOK'
<1>1. status' \in Status /\ pc' \in Nat /\ UNCHANGED <<calls, maps>>
  BY DEF Leave, Stop, TypeOK
<1> QED BY <1>1, InFrameType

\* A funcref in a register names its closure context.
LEMMA FuncRefValue ==
  ASSUME NEW v \in Values, v.kind = "funcref"
  PROVE  v.n \in FuncRefs /\ v.n \in Int /\ v.outer \in Handles
<1>1. v.n \in FuncRefs /\ v.outer \in Handles
  BY DEF Values, Null
<1> QED BY <1>1, FuncRefsInt

LEMMA FuncRefInReg ==
  ASSUME TypeOK, NEW r \in Nat, baseIndex + r \in Slots, Reg(r).kind = "funcref"
  PROVE  Reg(r).n \in FuncRefs /\ Reg(r).n \in Int /\ Reg(r).outer \in Handles
<1>1. Reg(r) \in Values
  BY RegType
<1> QED BY <1>1, FuncRefValue

\* SetupCallFrame leaves values in the registers and names or nothing beside
\* them.
LEMMA SetupType ==
  ASSUME NEW f \in Funcs, NEW base \in Nat, NEW argCount \in Nat,
         NEW st \in [Slots -> Values], NEW nm \in [Slots -> Names \cup {NoName}]
  PROVE  /\ SetupStack(st, f, base, argCount) \in [Slots -> Values]
         /\ SetupNames(nm, f, base, argCount) \in [Slots -> Names \cup {NoName}]
<1>1. /\ ParamNames[f] \in Seq(Names) /\ Len(ParamNames[f]) \in Nat
      /\ DOMAIN ParamNames[f] = 1 .. Len(ParamNames[f])
  BY ParamAssumption, LenProperties
<1>2. ASSUME NEW s \in Slots, DefaultFrom(f, base, argCount, s)
      PROVE  ParamDefaults[f][s - base] \in Values /\ ParamNames[f][s - base] \in Names
  <2>1. s - base \in 1 .. Len(ParamNames[f])
    BY <1>1, <1>2 DEF DefaultFrom, Slots
  <2>2. ParamNames[f][s - base] \in Names
    BY <1>1, <2>1, ElementOfSeq
  <2>3. ParamDefaults[f][s - base] \in {Null} \cup [kind : {"atom"}, n : Int, outer : {0}]
    BY <1>1, <2>1, ParamAssumption
  <2> QED BY <2>2, <2>3 DEF Values
<1>3. Null \in Values
  BY DEF Values
<1>4. SetupStack(st, f, base, argCount) \in [Slots -> Values]
  BY <1>2, <1>3 DEF SetupStack
<1>5. SetupNames(nm, f, base, argCount) \in [Slots -> Names \cup {NoName}]
  BY <1>2 DEF SetupNames
<1> QED BY <1>4, <1>5

LEMMA CallType == TypeOK /\ Call => TypeOK'
<1> SUFFICES ASSUME TypeOK, NEW i \in At("CALL"),
       \/ /\ Reg(i.c).kind # "funcref"
          /\ SetReg(i.a, Reg(i.c))
          /\ UNCHANGED <<names, status, calls, maps>>
       \/ Leave("abandoned") /\ UNCHANGED <<stack, names>>
       \/ /\ Callable(Reg(i.c))
          /\ stack' = SetupStack(stack, Reg(i.c).n, baseIndex + i.b, 0)
          /\ names' = SetupNames(names, Reg(i.c).n, baseIndex + i.b, 0)
          /\ IF Full THEN Leave("abandoned")
             ELSE PushFrame(Reg(i.c).n, Reg(i.c).n, baseIndex + i.b, pc + 1, i.a, Reg(i.c).outer)
             PROVE  TypeOK'
  BY DEF Call
<1> DEFINE v == Reg(i.c)
           base == baseIndex + i.b
<1>1. i.op = "CALL" /\ InRange(i) /\ i.a \in Nat /\ i.b \in Nat /\ i.c \in Nat
  BY FetchedAt DEF TypeOK
<1>2. baseIndex + i.c \in Slots /\ base \in Nat /\ pc + 1 \in Nat /\ 0 \in Nat
  BY <1>1 DEF InRange, CanCall, TypeOK
<1>3. v \in Values
  BY <1>1, <1>2, RegType
<1>4. CASE v.kind # "funcref" /\ SetReg(i.a, v) /\ UNCHANGED <<names, status, calls, maps>>
  <2>1. stack' \in [Slots -> Values] /\ pc' \in Nat
    <3> HIDE DEF v
    <3> QED BY <1>1, <1>3, <1>4, SetRegType
  <2> QED BY <1>4, <2>1, InFrameType DEF TypeOK
<1>5. CASE Leave("abandoned") /\ UNCHANGED <<stack, names>>
  BY <1>5, LeaveType DEF TypeOK, Status
<1>6. CASE /\ Callable(v)
           /\ stack' = SetupStack(stack, v.n, base, 0)
           /\ names' = SetupNames(names, v.n, base, 0)
           /\ IF Full THEN Leave("abandoned")
              ELSE PushFrame(v.n, v.n, base, pc + 1, i.a, v.outer)
  <2>1. v.n \in Funcs /\ v.n \in Int /\ v.outer \in Handles
    BY <1>1, <1>2, <1>6, FuncRefInReg DEF Callable
  <2>2. stack \in [Slots -> Values] /\ names \in [Slots -> Names \cup {NoName}]
    BY DEF TypeOK
  <2> HIDE DEF v, base
  <2>3. stack' \in [Slots -> Values] /\ names' \in [Slots -> Names \cup {NoName}]
    BY <1>2, <1>6, <2>1, <2>2, SetupType
  <2>4. CASE Full
    BY <1>6, <2>3, <2>4, LeaveType DEF Status
  <2>5. CASE ~Full
    BY <1>1, <1>2, <1>6, <2>1, <2>3, <2>5, PushFrameType
  <2> QED BY <2>4, <2>5
<1> QED BY <1>4, <1>5, <1>6

\* The instructions an ARGBLK consumes.
LEMMA ArgsOfType ==
  ASSUME TypeOK, NEW block, block.a \in Nat, NEW args \in ArgsOf(block)
  PROVE  /\ Len(args) \in 0 .. block.a /\ DOMAIN args = 1 .. Len(args)
         /\ \A k \in DOMAIN args : /\ args[k] \in CodeAt(curFunc, pc + k)
                                   /\ args[k].op \in ArgOps
                                   /\ args[k].a \in Nat /\ args[k].c \in Int
<1>1. PICK n \in 0 .. block.a : args \in [1 .. n -> UNION Range(Code[curFunc])]
  BY DEF ArgsOf
<1>2. args \in Seq(UNION Range(Code[curFunc])) /\ n \in Nat
  BY <1>1, SeqDef
<1>3. Len(args) = n /\ DOMAIN args = 1 .. Len(args)
  BY <1>1, <1>2, LenProperties
<1>4. ASSUME NEW k \in DOMAIN args
      PROVE  /\ args[k] \in CodeAt(curFunc, pc + k) /\ args[k].op \in ArgOps
             /\ args[k].a \in Nat /\ args[k].c \in Int
  <2>1. args[k] \in CodeAt(curFunc, pc + k) /\ args[k].op \in ArgOps
    BY DEF ArgsOf
  <2>2. pc + k \in Nat
    BY <1>1, <1>3 DEF TypeOK
  <2> QED BY <2>1, <2>2, Fetched DEF TypeOK, ArgOps
<1> QED BY <1>1, <1>3, <1>4

\* The values they copy, and the registers they are copied to.
LEMMA CopiesType ==
  ASSUME TypeOK, NEW args, DOMAIN args = 1 .. Len(args), Len(args) \in Nat,
         \A k \in DOMAIN args : args[k].c \in Int,
         NEW base \in Nat, NEW vals \in Copies(args, base),
         NEW f \in Funcs, Len(args) <= Len(ParamNames[f])
  PROVE  /\ ArgStack(vals, base) \in [Slots -> Values]
         /\ ArgNames(vals, f, base) \in [Slots -> Names \cup {NoName}]
<1>1. DOMAIN vals = 1 .. Len(args)
  BY DEF Copies
<1>2. ASSUME NEW k \in DOMAIN vals PROVE vals[k] \in Values
  <2>1. vals[k] \in {stack[s] : s \in Slots} \cup {Atom(args[j].c) : j \in DOMAIN args}
    BY <1>1 DEF Copies
  <2> QED BY <2>1 DEF TypeOK, Values, Atom
<1>3. ASSUME NEW k \in DOMAIN vals PROVE ParamNames[f][k] \in Names
  <2>1. ParamNames[f] \in Seq(Names) /\ Len(ParamNames[f]) \in Nat
    BY ParamAssumption, LenProperties
  <2>2. k \in 1 .. Len(ParamNames[f])
    BY <1>1, <2>1
  <2> QED BY <2>1, <2>2, ElementOfSeq
<1>4. ArgStack(vals, base) \in [Slots -> Values]
  BY <1>2 DEF ArgStack, TypeOK
<1>5. ArgNames(vals, f, base) \in [Slots -> Names \cup {NoName}]
  BY <1>3 DEF ArgNames, TypeOK
<1> QED BY <1>4, <1>5

LEMMA ArgBlkType == TypeOK /\ ArgBlk => TypeOK'
<1> SUFFICES ASSUME TypeOK, NEW i \in At("ARGBLK"), NEW args \in ArgsOf(i),
                    NEW call \in CodeAt(curFunc, pc + 1 + i.a),
                    call.op = "CALL" => CanCall(call, i.a, args),
       \/ Leave("error") /\ UNCHANGED <<stack, names>>
       \/ /\ call.op = "CALL" /\ Callable(Reg(call.c)) /\ i.a <= Len(ParamNames[Reg(call.c).n])
          /\ \E vals \in Copies(args, baseIndex + call.b) :
               LET v      == Reg(call.c)
                   base   == baseIndex + call.b
                   copied == ArgStack(vals, base)
                   named  == ArgNames(vals, v.n, base)
                   again  == SetupStack(copied, v.n, base, i.a)[baseIndex + call.c]
               IN  \/ /\ Len(args) < i.a
                      /\ stack' = copied /\ names' = named
                      /\ Leave("error")
                   \/ /\ Len(args) = i.a
                      /\ stack' = SetupStack(copied, v.n, base, i.a)
                      /\ names' = SetupNames(named, v.n, base, i.a)
                      /\ IF Full THEN Leave("error")
                         ELSE PushFrame(v.n, funcref_index(again), base,
                                        pc + i.a + 2, call.a, funcref_outer_vars(again))
             PROVE  TypeOK'
  BY DEF ArgBlk
<1> DEFINE v    == Reg(call.c)
           base == baseIndex + call.b
<1>1. i.a \in Nat /\ pc + 1 + i.a \in Nat
  BY FetchedAt DEF TypeOK
<1>2. call.a \in Nat /\ call.b \in Nat /\ (call.op = "CALL" => call.c \in Nat)
  BY <1>1, Fetched DEF TypeOK
<1>3. CASE Leave("error") /\ UNCHANGED <<stack, names>>
  BY <1>3, LeaveType DEF TypeOK, Status
<1>4. ASSUME call.op = "CALL", Callable(v), i.a <= Len(ParamNames[v.n]),
             NEW vals \in Copies(args, base),
             LET copied == ArgStack(vals, base)
                 named  == ArgNames(vals, v.n, base)
                 again  == SetupStack(copied, v.n, base, i.a)[baseIndex + call.c]
             IN  \/ /\ Len(args) < i.a
                    /\ stack' = copied /\ names' = named
                    /\ Leave("error")
                 \/ /\ Len(args) = i.a
                    /\ stack' = SetupStack(copied, v.n, base, i.a)
                    /\ names' = SetupNames(named, v.n, base, i.a)
                    /\ IF Full THEN Leave("error")
                       ELSE PushFrame(v.n, funcref_index(again), base,
                                      pc + i.a + 2, call.a, funcref_outer_vars(again))
      PROVE  TypeOK'
  <2> DEFINE copied == ArgStack(vals, base)
             named  == ArgNames(vals, v.n, base)
             again  == SetupStack(copied, v.n, base, i.a)[baseIndex + call.c]
  <2>1. /\ call.a \in Int /\ call.c \in Nat /\ base \in Nat /\ pc + i.a + 2 \in Nat
        /\ baseIndex + call.c \in Slots /\ v.n \in Funcs
    <3>1. baseIndex + call.c \in Slots
      BY <1>4 DEF CanCall
    <3>2. v.n \in Funcs
      BY <1>4 DEF Callable
    <3>3. pc \in Nat /\ baseIndex \in Nat
      BY DEF TypeOK
    <3>4. call.op = "CALL"
      BY ONLY <1>4
    <3>5. call.a \in Int /\ call.b \in Nat /\ call.c \in Nat
      BY ONLY <1>2, <3>4
    <3>6. base \in Nat /\ pc + i.a + 2 \in Nat
      BY ONLY <1>1, <3>3, <3>5
    <3> QED BY <3>1, <3>2, <3>5, <3>6
  <2>2. /\ Len(args) \in Nat /\ Len(args) <= i.a /\ DOMAIN args = 1 .. Len(args)
        /\ \A k \in DOMAIN args : args[k].c \in Int
    BY <1>1, ArgsOfType
  <2>3. Len(args) <= Len(ParamNames[v.n])
    <3> HIDE DEF v
    <3>1. Len(ParamNames[v.n]) \in Nat
      BY <2>1, ParamAssumption, LenProperties
    <3> QED BY <1>1, <1>4, <2>2, <3>1
  <2>4. copied \in [Slots -> Values] /\ named \in [Slots -> Names \cup {NoName}]
    <3> HIDE DEF v, base
    <3> QED BY <1>4, <2>1, <2>2, <2>3, CopiesType
  <2>5. /\ SetupStack(copied, v.n, base, i.a) \in [Slots -> Values]
        /\ SetupNames(named, v.n, base, i.a) \in [Slots -> Names \cup {NoName}]
    <3> HIDE DEF v, base, copied, named
    <3> QED BY <1>1, <2>1, <2>4, SetupType
  <2>6. again \in Values
    BY <2>1, <2>5
  <2>7. funcref_index(again) \in Int /\ funcref_outer_vars(again) \in Handles
    <3> HIDE DEF again
    <3>1. 0 \in Handles
      BY LenProperties DEF TypeOK, Handles
    <3>2. again.outer \in Handles
      BY <2>6, <3>1 DEF Values, Null
    <3>3. again.kind = "funcref" => again.n \in Int
      BY <2>6, FuncRefValue
    <3> QED BY <3>2, <3>3 DEF funcref_index, funcref_outer_vars
  <2>8. CASE Len(args) < i.a /\ stack' = copied /\ names' = named /\ Leave("error")
    <3> HIDE DEF copied, named
    <3> QED BY <2>4, <2>8, LeaveType DEF Status
  <2>9. CASE /\ Len(args) = i.a
             /\ stack' = SetupStack(copied, v.n, base, i.a)
             /\ names' = SetupNames(named, v.n, base, i.a)
             /\ IF Full THEN Leave("error")
                ELSE PushFrame(v.n, funcref_index(again), base,
                               pc + i.a + 2, call.a, funcref_outer_vars(again))
    <3> HIDE DEF v, base, copied, named, again
    <3>1. CASE Full
      BY <2>5, <2>9, <3>1, LeaveType DEF Status
    <3>2. CASE ~Full
      BY <2>1, <2>5, <2>7, <2>9, <3>2, PushFrameType
    <3> QED BY <3>1, <3>2
  <2> QED BY <1>4, <2>8, <2>9
<1> QED BY <1>3, <1>4

LEMMA CallErrorType == TypeOK /\ CallError => TypeOK'
BY LeaveType DEF CallError, TypeOK, Status

LEMMA CallFType == TypeOK /\ CallF => TypeOK'
<1> SUFFICES ASSUME TypeOK, NEW i \in At("CALLF"), UNCHANGED <<stack, names>>,
                    IF Full THEN Leave("abandoned")
                    ELSE PushFrame(i.b, i.b, baseIndex + i.a, pc + 1, -1, 0)
             PROVE  TypeOK'
  BY DEF CallF
<1>1. i.b \in Funcs /\ i.b \in Int /\ baseIndex + i.a \in Nat /\ pc + 1 \in Nat
  BY FetchedAt, FramesAssumption DEF TypeOK
<1>2. 0 \in Handles /\ -1 \in Int
  BY LenProperties DEF TypeOK, Handles
<1>3. stack' \in [Slots -> Values] /\ names' \in [Slots -> Names \cup {NoName}]
  BY DEF TypeOK
<1>4. CASE Full
  BY <1>3, <1>4, LeaveType DEF Status
<1>5. CASE ~Full
  <2>1. PushFrame(i.b, i.b, baseIndex + i.a, pc + 1, -1, 0)
    BY <1>5
  <2> QED BY <1>1, <1>2, <1>3, <1>5, <2>1, PushFrameType, Zenon
<1> QED BY <1>4, <1>5

LEMMA LoadCType == TypeOK /\ LoadC => TypeOK'
<1> SUFFICES ASSUME TypeOK, NEW i \in At("LOADC"), NEW v, v = VarValue(i),
                    NEW base, base = baseIndex + MaxRegs[curFunc],
       \/ /\ v.kind # "funcref"
          /\ SetReg(i.a, v)
          /\ IF VarKnown(i) THEN UNCHANGED status ELSE Stop("error")
          /\ UNCHANGED <<names, calls, maps>>
       \/ Leave("abandoned") /\ UNCHANGED <<stack, names>>
       \/ /\ Callable(v) /\ ~Full
          /\ stack' = [s \in Slots |-> IF s - base \in 0 .. MaxRegs[v.n] - 1 THEN Null ELSE stack[s]]
          /\ names' = [s \in Slots |-> IF s - base \in 0 .. MaxRegs[v.n] - 1 THEN NoName ELSE names[s]]
          /\ PushFrame(v.n, v.n, base, pc + 1, i.a, v.outer)
             PROVE  TypeOK'
  BY DEF LoadC, ImplicitBase
<1>1. i.a \in Nat /\ i.a \in Int /\ pc + 1 \in Nat
  BY FetchedAt DEF TypeOK
<1>2. v \in Values
  BY VarValueType
<1>3. base \in Nat
  BY MaxRegsNat DEF TypeOK
<1>4. CASE /\ v.kind # "funcref" /\ SetReg(i.a, v)
           /\ IF VarKnown(i) THEN UNCHANGED status ELSE Stop("error")
           /\ UNCHANGED <<names, calls, maps>>
  <2>1. stack' \in [Slots -> Values] /\ pc' \in Nat
    BY <1>1, <1>2, <1>4, SetRegType
  <2>2. status' \in Status
    BY <1>4 DEF TypeOK, Stop, Status
  <2> QED BY <1>4, <2>1, <2>2, InFrameType DEF TypeOK
<1>5. CASE Leave("abandoned") /\ UNCHANGED <<stack, names>>
  BY <1>5, LeaveType DEF TypeOK, Status
<1>6. CASE /\ Callable(v) /\ ~Full
           /\ stack' = [s \in Slots |-> IF s - base \in 0 .. MaxRegs[v.n] - 1 THEN Null ELSE stack[s]]
           /\ names' = [s \in Slots |-> IF s - base \in 0 .. MaxRegs[v.n] - 1 THEN NoName ELSE names[s]]
           /\ PushFrame(v.n, v.n, base, pc + 1, i.a, v.outer)
  <2>1. v.n \in Funcs /\ v.n \in Int /\ v.outer \in Handles
    BY <1>2, <1>6, FuncRefValue DEF Callable
  <2>2. Null \in Values
    BY DEF Values
  <2>3. stack' \in [Slots -> Values] /\ names' \in [Slots -> Names \cup {NoName}]
    BY <1>6, <2>2 DEF TypeOK
  <2> QED BY <1>1, <1>3, <1>6, <2>1, <2>3, PushFrameType
<1> QED BY <1>4, <1>5, <1>6

\* Gathering a map leaves one with no register and its values in place.
LEMMA GatherType ==
  ASSUME TypeOK, NEW m \in DOMAIN varMaps
  PROVE  Gather(m) \in MapObjects
<1>1. varMaps[m] \in MapObjects
  BY ElementOfSeq, LenProperties DEF TypeOK
<1>2. ASSUME NEW k \in Names
      PROVE  (IF Mapped(m, k) /\ HasKey(m, k) THEN Lookup(m, k)
              ELSE varMaps[m].items[k]) \in Values \cup {Absent}
  BY <1>1, LookupType DEF MapObjects
<1> QED BY <1>2 DEF Gather, MapObjects

LEMMA ReturnType == TypeOK /\ Return => TypeOK'
<1> SUFFICES ASSUME TypeOK, Return PROVE TypeOK'
  OBVIOUS
<1> DEFINE m    == callStack[callStackTop].LocalVarMap
           info == callStack[callStackTop - 1]
<1>1. PICK i \in At("RETURN") : TRUE
  BY DEF Return
<1>2. callStackTop > 0 /\ i.op = "RETURN" /\ InRange(i)
  BY FetchedAt DEF TypeOK, Return
<1>3. /\ callStackTop \in 1 .. CallSlots - 1
      /\ info.ReturnFuncIndex \in Funcs
      /\ baseIndex + 0 \in Slots
  <2>1. CanReturn /\ \A r \in Operands(i) : baseIndex + r \in Slots
    BY <1>2 DEF InRange
  <2>2. baseIndex + 0 \in Slots
    BY <1>2, <2>1 DEF Operands
  <2>3. callStackTop < CallSlots /\ info.ReturnFuncIndex \in Funcs
    BY <1>2, <2>1 DEF CanReturn
  <2> QED BY <1>2, <2>2, <2>3, FramesAssumption DEF TypeOK
<1>4. info \in Infos /\ callStack[callStackTop] \in Infos
  <2>1. {callStackTop, callStackTop - 1} \subseteq 0 .. CallSlots - 1
    BY <1>3, FramesAssumption
  <2> QED BY <2>1 DEF TypeOK
<1>5. m \in Handles
  BY <1>4 DEF Infos
<1>6. Len(varMaps) \in Nat /\ DOMAIN varMaps = 1 .. Len(varMaps) /\ varMaps \in Seq(MapObjects)
  BY LenProperties DEF TypeOK
<1>7. varMaps' \in Seq(MapObjects) /\ Len(varMaps') = Len(varMaps)
      /\ DOMAIN varMaps' = DOMAIN varMaps
  <2>1. varMaps' = IF m = 0 THEN varMaps ELSE [varMaps EXCEPT ![m] = Gather(m)]
    BY DEF Return
  <2>2. m # 0 => m \in 1 .. Len(varMaps)
    BY <1>5, <1>6 DEF Handles
  <2> HIDE DEF m
  <2>3. CASE m = 0
    BY <1>6, <2>1, <2>3
  <2>4. CASE m # 0
    <3>1. Gather(m) \in MapObjects
      BY <1>6, <2>2, <2>4, GatherType
    <3> HIDE DEF m
    <3> QED BY <1>6, <2>1, <2>2, <2>4, <3>1, ExceptSeq
  <2> QED BY <2>3, <2>4
<1>8. UNCHANGED <<Handles, Values, Infos, MapObjects>>
  BY <1>7 DEF Handles, Values, Infos, MapObjects
<1>9. callStack' \in [0 .. CallSlots - 1 -> Infos]
  <2>1. callStack' = [callStack EXCEPT ![callStackTop].LocalVarMap = 0]
    BY DEF Return, ForgetLocals
  <2>2. [callStack[callStackTop] EXCEPT !.LocalVarMap = 0] \in Infos
    <3>1. 0 \in Handles
      BY <1>6 DEF Handles
    <3> QED BY <1>4, <3>1 DEF Infos
  <2> QED BY <2>1, <2>2 DEF TypeOK
<1>10. stack' \in [Slots -> Values]
  <2>1. stack \in [Slots -> Values] /\ Reg(0) \in Values
    BY <1>3 DEF TypeOK, Reg
  <2> QED BY <2>1 DEF Return
<1>11. home' \in [DOMAIN varMaps' -> 0 .. CallSlots \cup {Gone}]
  BY <1>7 DEF TypeOK, Return
<1>12. /\ pc' \in Nat /\ baseIndex' \in Nat /\ curFunc' \in Funcs /\ currentFuncIndex' \in Int
       /\ callStackTop' \in 0 .. CallSlots /\ UNCHANGED <<names, status>>
  BY <1>3, <1>4, FramesAssumption DEF Return, Infos
<1> QED BY <1>7, <1>8, <1>9, <1>10, <1>11, <1>12 DEF TypeOK

LEMMA ReturnFromMainType == TypeOK /\ ReturnFromMain => TypeOK'
BY InFrameType DEF ReturnFromMain, TypeOK, Stop, Status

LEMMA StopType == TypeOK /\ (OutOfCode \/ Crash) => TypeOK'
<1> SUFFICES ASSUME TypeOK, OutOfCode \/ Crash PROVE TypeOK'
  OBVIOUS
<1>1. status' \in Status /\ UNCHANGED <<stack, names, pc, calls, maps>>
  BY DEF OutOfCode, Crash, Stop, Status
<1> QED BY <1>1, InFrameType DEF TypeOK

-----------------------------------------------------------------------------
\* Every variable of the VM keeps its type, whatever the program: no call,
\* return, capture or assignment makes a stray handle, record or index.
THEOREM TypeCorrect == Spec => []TypeOK
<1>1. TypeOK /\ [Next]_vars => TypeOK'
  <2> SUFFICES ASSUME TypeOK, [Next]_vars PROVE TypeOK'
    OBVIOUS
  <2>1. CASE Next
    BY <2>1, LoadType, AssignType, NameType, LoadVType, FuncRefType, LocalsType,
       OuterOpType, GlobalsType, IndexType, IdxSetType, RemoveType, CallType,
       ArgBlkType, CallErrorType, CallFType, LoadCType, ReturnFromMainType,
       ReturnType, StopType DEF Next
  <2>2. CASE UNCHANGED vars
    <3>1. UNCHANGED <<stack, names, pc, status, calls, maps>>
      BY <2>2 DEF vars, calls, maps
    <3> QED BY <3>1, InFrameType DEF TypeOK
  <2> QED BY <2>1, <2>2
<1> QED BY <1>1, TypeInit, PTL DEF Spec

-----------------------------------------------------------------------------
(* What a step can do to the call stack and to the maps.                   *)

\* No map is made, and keys stay bound to the slots they are bound to; what a
\* map stores besides does not concern those keys.
BindingsKept ==
  /\ DOMAIN varMaps' = DOMAIN varMaps
  /\ \A m \in DOMAIN varMaps :
       /\ varMaps'[m].regs = varMaps[m].regs
       /\ \A k \in Names : Mapped(m, k) => varMaps'[m].items[k] = varMaps[m].items[k]

\* A step within the running activation.
Stays == UNCHANGED <<calls, home>> /\ BindingsKept /\ pc <= pc'

Fetches(ops) == \E i \in CodeAt(curFunc, pc) : i.op \in ops

\* One that asks for the locals map of the running activation or of @main's.
Captures ==
  /\ \E d \in {0, callStackTop} \cap (0 .. CallSlots - 1) :
       /\ GetLocalVarMap(d, FrameBase(d), MaxRegs[FrameFunc(d)])
       /\ d # 0 => Fetches(Capturing)
  /\ UNCHANGED <<callStackTop, baseIndex, curFunc, currentFuncIndex>>
  /\ pc' = pc + 1

\* A call: a record is pushed whose way back is behind the call.
Pushes ==
  /\ ~Full /\ Fetches(Calling)
  /\ \E callee \in Funcs \cap Callees, base \in Nat, returnPC \in 1 .. Len(Code[curFunc]),
        reg \in Int, outer \in Handles :
       /\ baseIndex <= base /\ pc < returnPC
       /\ PushFrame(callee, callee, base, returnPC, reg, outer)

LEMMA PushesIntro ==
  ASSUME ~Full, NEW i \in CodeAt(curFunc, pc), i.op \in Calling,
         NEW callee \in Funcs \cap Callees, NEW base \in Nat,
         NEW returnPC \in 1 .. Len(Code[curFunc]),
         NEW reg \in Int, NEW outer \in Handles, baseIndex <= base, pc < returnPC,
         PushFrame(callee, callee, base, returnPC, reg, outer)
  PROVE  Pushes
<1>1. Fetches(Calling)
  BY DEF Fetches
<1> QED BY <1>1, Zenon DEF Pushes

\* Steps that leave the call stack and the maps alone.
LEMMA StaysIntro == UNCHANGED <<calls, maps>> /\ pc <= pc' => Stays
BY DEF Stays, BindingsKept, maps, Mapped

LEMMA CallPushes == TypeOK /\ Call => Stays \/ Pushes
<1> SUFFICES ASSUME TypeOK, NEW i \in At("CALL"),
       \/ UNCHANGED <<calls, maps>> /\ pc' = pc + 1
       \/ /\ Callable(Reg(i.c)) /\ ~Full
          /\ PushFrame(Reg(i.c).n, Reg(i.c).n, baseIndex + i.b, pc + 1, i.a, Reg(i.c).outer)
             PROVE  Stays \/ Pushes
  BY DEF Call, Leave, SetReg
<1>1. /\ i.a \in Int /\ i.b \in Nat /\ i.c \in Nat /\ pc + 1 \in 1 .. Len(Code[curFunc])
      /\ i.op = "CALL" /\ InRange(i) /\ i \in CodeAt(curFunc, pc)
  BY FetchedAt DEF TypeOK
<1>2. baseIndex + i.b \in Nat /\ baseIndex <= baseIndex + i.b /\ pc < pc + 1 /\ pc <= pc + 1
  BY <1>1 DEF TypeOK
<1>3. CASE UNCHANGED <<calls, maps>> /\ pc' = pc + 1
  BY <1>2, <1>3, StaysIntro
<1>4. CASE /\ Callable(Reg(i.c)) /\ ~Full
           /\ PushFrame(Reg(i.c).n, Reg(i.c).n, baseIndex + i.b, pc + 1, i.a, Reg(i.c).outer)
  <2>1. baseIndex + i.c \in Slots
    BY <1>1 DEF InRange, CanCall
  <2>2. Reg(i.c).n \in Funcs \cap Callees /\ Reg(i.c).outer \in Handles
    BY <1>1, <1>4, <2>1, FuncRefInReg DEF Callable, Callees
  <2>3. i.op \in Calling
    BY <1>1 DEF Calling
  <2> QED BY <1>1, <1>2, <1>4, <2>2, <2>3, PushesIntro
<1> QED BY <1>3, <1>4

LEMMA CallFPushes == TypeOK /\ CallF => Stays \/ Pushes
<1> SUFFICES ASSUME TypeOK, NEW i \in At("CALLF"),
       \/ UNCHANGED <<calls, maps>> /\ pc' = pc + 1
       \/ ~Full /\ PushFrame(i.b, i.b, baseIndex + i.a, pc + 1, -1, 0)
             PROVE  Stays \/ Pushes
  BY DEF CallF, Leave
<1>1. /\ i.a \in Nat /\ i.b \in Funcs /\ pc + 1 \in 1 .. Len(Code[curFunc])
      /\ i.op = "CALLF" /\ i \in CodeAt(curFunc, pc) /\ pc \in Nat
  BY FetchedAt DEF TypeOK
<1>2. /\ baseIndex + i.a \in Nat /\ baseIndex <= baseIndex + i.a /\ pc < pc + 1 /\ pc <= pc + 1
      /\ -1 \in Int /\ 0 \in Handles
  BY <1>1, LenProperties DEF TypeOK, Handles
<1>3. CASE UNCHANGED <<calls, maps>> /\ pc' = pc + 1
  BY <1>2, <1>3, StaysIntro
<1>4. CASE ~Full /\ PushFrame(i.b, i.b, baseIndex + i.a, pc + 1, -1, 0)
  <2>1. i.b \in Funcs \cap Callees /\ i.op \in Calling
    BY <1>1, Fetched, NamedInCode DEF TypeOK, Calling
  <2> QED BY <1>1, <1>2, <1>4, <2>1, PushesIntro
<1> QED BY <1>3, <1>4

LEMMA LoadCPushes == TypeOK /\ LoadC => Stays \/ Pushes
<1> SUFFICES ASSUME TypeOK, NEW i \in At("LOADC"), NEW v, v = VarValue(i),
       \/ UNCHANGED <<calls, maps>> /\ pc' = pc + 1
       \/ /\ Callable(v) /\ ~Full
          /\ PushFrame(v.n, v.n, baseIndex + MaxRegs[curFunc], pc + 1, i.a, v.outer)
             PROVE  Stays \/ Pushes
  BY DEF LoadC, ImplicitBase, Leave, SetReg
<1>1. /\ i.a \in Int /\ pc + 1 \in 1 .. Len(Code[curFunc]) /\ v \in Values
      /\ i.op = "LOADC" /\ i \in CodeAt(curFunc, pc)
  BY FetchedAt, VarValueType DEF TypeOK
<1>2. /\ baseIndex + MaxRegs[curFunc] \in Nat /\ baseIndex <= baseIndex + MaxRegs[curFunc]
      /\ pc < pc + 1 /\ pc <= pc + 1
  BY MaxRegsNat DEF TypeOK
<1>3. CASE UNCHANGED <<calls, maps>> /\ pc' = pc + 1
  BY <1>2, <1>3, StaysIntro
<1>4. CASE /\ Callable(v) /\ ~Full
           /\ PushFrame(v.n, v.n, baseIndex + MaxRegs[curFunc], pc + 1, i.a, v.outer)
  <2>1. v.n \in Funcs \cap Callees /\ v.outer \in Handles
    BY <1>1, <1>4, FuncRefValue DEF Callable, Callees
  <2>2. i.op \in Calling
    BY <1>1 DEF Calling
  <2> QED BY <1>1, <1>2, <1>4, <2>1, <2>2, PushesIntro
<1> QED BY <1>3, <1>4

\* What the second reading of the funcref's register by ARGBLK finds: with the
\* window above the register it is the funcref still.
LEMMA FuncRefKept ==
  ASSUME TypeOK, NEW base \in Nat, NEW s \in Slots, s < base, NEW f \in Funcs,
         NEW args, DOMAIN args = 1 .. Len(args), Len(args) \in Nat,
         NEW vals \in Copies(args, base), NEW n \in Nat
  PROVE  SetupStack(ArgStack(vals, base), f, base, n)[s] = stack[s]
<1>1. DOMAIN vals = 1 .. Len(args)
  BY DEF Copies
<1>2. s - base \notin DOMAIN vals
  BY <1>1 DEF Slots
<1>3. ArgStack(vals, base)[s] = stack[s]
  BY <1>2 DEF ArgStack
<1>4. Len(ParamNames[f]) \in Nat
  BY ParamAssumption, LenProperties
<1>5. ~Cleared(f, base, s) /\ ~DefaultFrom(f, base, n, s)
  BY <1>4, MaxRegsNat DEF Cleared, DefaultFrom, Slots
<1> QED BY <1>3, <1>5 DEF SetupStack

LEMMA ArgBlkPushes ==
  ASSUME WindowsAboveFuncRef
  PROVE  TypeOK /\ ArgBlk => Stays \/ Pushes
<1> SUFFICES ASSUME TypeOK, NEW i \in At("ARGBLK"),
                    NEW args \in ArgsOf(i), NEW call \in CodeAt(curFunc, pc + 1 + i.a),
       \/ UNCHANGED <<calls, maps>> /\ pc' = pc + 1
       \/ /\ call.op = "CALL" /\ Callable(Reg(call.c)) /\ CanCall(call, i.a, args) /\ ~Full
          /\ \E vals \in Copies(args, baseIndex + call.b) :
               LET again == SetupStack(ArgStack(vals, baseIndex + call.b), Reg(call.c).n,
                                       baseIndex + call.b, i.a)[baseIndex + call.c]
               IN  PushFrame(Reg(call.c).n, funcref_index(again), baseIndex + call.b,
                             pc + i.a + 2, call.a, funcref_outer_vars(again))
             PROVE  Stays \/ Pushes
  BY SMTT(30) DEF ArgBlk, Leave
<1> DEFINE v    == Reg(call.c)
           base == baseIndex + call.b
           reg  == baseIndex + call.c
<1>1. pc \in Nat /\ baseIndex \in Nat /\ curFunc \in Funcs
  BY DEF TypeOK
<1>2. i.a \in Nat /\ pc + 1 + i.a \in Nat
  BY <1>1, FetchedAt
<1>3. /\ pc + i.a + 2 \in 1 .. Len(Code[curFunc]) /\ pc < pc + i.a + 2
      /\ call.a \in Int /\ call.b \in Nat /\ (call.op = "CALL" => call.c \in Nat)
  BY <1>1, <1>2, Fetched
<1>4. ASSUME call.op = "CALL", Callable(v), CanCall(call, i.a, args), ~Full,
             NEW vals \in Copies(args, base),
             LET again == SetupStack(ArgStack(vals, base), v.n, base, i.a)[reg]
             IN  PushFrame(v.n, funcref_index(again), base, pc + i.a + 2, call.a,
                           funcref_outer_vars(again))
      PROVE  Pushes
  <2>1. call.c < call.b
    BY <1>1, <1>4 DEF CodeAt, WindowsAboveFuncRef
  <2>2. reg \in Slots /\ reg < base /\ base \in Nat /\ baseIndex <= base
    BY <1>1, <1>3, <1>4, <2>1 DEF CanCall
  <2>3. v.n \in Funcs /\ v.kind = "funcref"
    BY <1>4 DEF Callable
  <2>4. DOMAIN args = 1 .. Len(args) /\ Len(args) \in Nat
    BY <1>2, ArgsOfType
  <2>5. SetupStack(ArgStack(vals, base), v.n, base, i.a)[reg] = stack[reg]
    <3> HIDE DEF v, reg, base
    <3> QED BY <1>2, <1>4, <2>2, <2>3, <2>4, FuncRefKept
  <2>6. stack[reg] = v
    BY DEF Reg
  <2>7. funcref_index(v) = v.n /\ funcref_outer_vars(v) = v.outer
    BY <2>3 DEF funcref_index, funcref_outer_vars
  <2>8. PushFrame(v.n, v.n, base, pc + i.a + 2, call.a, v.outer)
    BY <1>4, <2>5, <2>6, <2>7
  <2>9. v.outer \in Handles /\ v.n \in Funcs \cap Callees
    BY <1>3, <1>4, <2>2, <2>3, FuncRefInReg DEF Callees
  <2>10. i \in CodeAt(curFunc, pc) /\ i.op \in Calling
    BY <1>1, FetchedAt DEF Calling
  <2> HIDE DEF v, base
  <2> QED BY <1>3, <1>4, <2>2, <2>3, <2>8, <2>9, <2>10, PushesIntro
<1>5. CASE UNCHANGED <<calls, maps>> /\ pc' = pc + 1
  BY <1>1, <1>5, StaysIntro
<1> QED BY <1>4, <1>5


\* The opcodes that write registers, names and items only.
LEMMA PlainStays ==
  TypeOK /\ (Load \/ Assign \/ Name \/ LoadV \/ Outer \/ Index \/ CallError) => Stays
<1> SUFFICES ASSUME TypeOK, Load \/ Assign \/ Name \/ LoadV \/ Outer \/ Index \/ CallError
             PROVE  Stays
  OBVIOUS
<1>1. UNCHANGED <<calls, maps>> /\ pc' = pc + 1
  BY DEF Load, Assign, Name, LoadV, Outer, Index, CallError, SetReg, Leave
<1> QED BY <1>1, StaysIntro DEF TypeOK

LEMMA StopStays ==
  TypeOK /\ (ReturnFromMain \/ OutOfCode \/ Crash \/ UNCHANGED vars) => Stays
<1> SUFFICES ASSUME TypeOK, ReturnFromMain \/ OutOfCode \/ Crash \/ UNCHANGED vars
             PROVE  Stays
  OBVIOUS
<1>1. UNCHANGED <<calls, maps>> /\ (pc' = pc + 1 \/ pc' = pc)
  BY DEF ReturnFromMain, OutOfCode, Crash, vars, calls, maps
<1> QED BY <1>1, StaysIntro DEF TypeOK

ItemStored(m, k, v) == [varMaps EXCEPT ![m].items[k] = v]

\* Storing an item under a key that is bound to no slot.
LEMMA ItemBindings ==
  ASSUME TypeOK, NEW m \in DOMAIN varMaps, NEW k \in Names, NEW v, ~Mapped(m, k),
         varMaps' = ItemStored(m, k, v)
  PROVE  BindingsKept
<1>1. varMaps[m] \in MapObjects
  BY ElementOfSeq, LenProperties DEF TypeOK
<1>2. DOMAIN varMaps' = DOMAIN varMaps
  BY DEF ItemStored
<1>3. varMaps'[m] = [varMaps[m] EXCEPT !.items[k] = v]
  BY DEF ItemStored
<1>4. /\ varMaps'[m].regs = varMaps[m].regs
      /\ \A j \in Names \ {k} : varMaps'[m].items[j] = varMaps[m].items[j]
  BY <1>1, <1>3 DEF MapObjects
<1>5. \A n \in DOMAIN varMaps : n # m => varMaps'[n] = varMaps[n]
  BY DEF ItemStored
<1>6. ASSUME NEW n \in DOMAIN varMaps
      PROVE  /\ varMaps'[n].regs = varMaps[n].regs
             /\ \A j \in Names : Mapped(n, j) => varMaps'[n].items[j] = varMaps[n].items[j]
  <2>1. CASE n = m
    BY <1>4, <2>1
  <2>2. CASE n # m
    BY <1>5, <2>2
  <2> QED BY <2>1, <2>2
<1> QED BY <1>2, <1>6 DEF BindingsKept

LEMMA SameBindings == UNCHANGED varMaps => BindingsKept
BY DEF BindingsKept, Mapped

LEMMA IdxSetStays == TypeOK /\ IdxSet => Stays
<1> SUFFICES ASSUME TypeOK, NEW i \in At("IDXSET"), pc' = pc + 1, UNCHANGED <<calls, home>>,
                    IF Reg(i.a).kind = "map"
                    THEN MapSet(Reg(i.a).n, i.c, Reg(i.b)) /\ UNCHANGED status
                    ELSE Stop("error") /\ UNCHANGED <<stack, names, varMaps>>
             PROVE  Stays
  BY DEF IdxSet
<1>1. i.op = "IDXSET" /\ InRange(i) /\ i.a \in Nat /\ i.c \in Names /\ pc \in Nat
  BY FetchedAt DEF TypeOK, Naming
<1>2. baseIndex + i.a \in Slots
  BY <1>1 DEF InRange, Operands
<1>3. CASE UNCHANGED varMaps
  BY <1>1, <1>3, SameBindings DEF Stays
<1>4. CASE /\ Reg(i.a).kind = "map" /\ ~Mapped(Reg(i.a).n, i.c)
           /\ varMaps' = ItemStored(Reg(i.a).n, i.c, Reg(i.b))
  <2>1. Reg(i.a).n \in DOMAIN varMaps
    BY <1>1, <1>2, <1>4, MapInReg
  <2> QED BY <1>1, <1>4, <2>1, ItemBindings DEF Stays
<1> QED BY <1>3, <1>4 DEF MapSet, ItemStored

LEMMA RemoveStays == TypeOK /\ Remove => Stays
<1> SUFFICES ASSUME TypeOK, NEW i \in At("REMOVE"), pc' = pc + 1, UNCHANGED <<calls, home>>,
       \/ UNCHANGED varMaps
       \/ /\ Reg(i.a).kind = "map" /\ ~Mapped(Reg(i.a).n, i.c)
          /\ varMaps' = [varMaps EXCEPT ![Reg(i.a).n].items[i.c] = Absent]
             PROVE  Stays
  BY DEF Remove, SetReg
<1>1. i.op = "REMOVE" /\ InRange(i) /\ i.a \in Nat /\ i.c \in Names /\ pc \in Nat
  BY FetchedAt DEF TypeOK, Naming
<1>2. baseIndex + i.a \in Slots
  BY <1>1 DEF InRange, Operands
<1>3. CASE UNCHANGED varMaps
  BY <1>1, <1>3, SameBindings DEF Stays
<1>4. CASE /\ Reg(i.a).kind = "map" /\ ~Mapped(Reg(i.a).n, i.c)
           /\ varMaps' = ItemStored(Reg(i.a).n, i.c, Absent)
  <2>1. Reg(i.a).n \in DOMAIN varMaps
    BY <1>1, <1>2, <1>4, MapInReg
  <2> QED BY <1>1, <1>4, <2>1, ItemBindings DEF Stays
<1> QED BY <1>3, <1>4 DEF ItemStored

\* GLOBALS asks the record in slot 0 which function @main is, even when no
\* call is under way and the record is a left-over.
MainRecord == callStack[0].ReturnFuncIndex \in {-1, Main}

LEMMA CaptureKinds ==
  TypeOK /\ FrameChain /\ MainRecord /\ (FuncRef \/ Locals \/ Globals) => Captures
<1> SUFFICES ASSUME TypeOK, FrameChain, MainRecord, FuncRef \/ Locals \/ Globals
             PROVE  Captures
  OBVIOUS
<1>1. /\ FrameBase(callStackTop) = baseIndex /\ FrameFunc(callStackTop) = curFunc
      /\ callStackTop \in Nat /\ 0 \in 0 .. CallSlots - 1
  BY FramesAssumption DEF FrameBase, FrameFunc, TypeOK
<1>2. CASE FuncRef \/ Locals
  <2>1. PICK op \in Capturing : \E i \in At(op) :
           /\ GetLocalVarMap(callStackTop, baseIndex, MaxRegs[curFunc])
           /\ UNCHANGED <<callStackTop, baseIndex, curFunc, currentFuncIndex>>
           /\ pc' = pc + 1
    BY <1>2 DEF FuncRef, Locals, SetReg, Capturing
  <2>2. PICK i \in At(op) :
           /\ GetLocalVarMap(callStackTop, baseIndex, MaxRegs[curFunc])
           /\ UNCHANGED <<callStackTop, baseIndex, curFunc, currentFuncIndex>>
           /\ pc' = pc + 1
    BY <2>1
  <2>3. i.op = op /\ InRange(i) /\ i \in CodeAt(curFunc, pc)
    BY FetchedAt DEF TypeOK
  <2>4. callStackTop < CallSlots
    BY <2>3 DEF InRange, CanCapture, Capturing
  <2>5. callStackTop \in {0, callStackTop} \cap (0 .. CallSlots - 1) /\ Fetches(Capturing)
    BY <1>1, <2>3, <2>4, FramesAssumption DEF Fetches
  <2> QED BY <1>1, <2>2, <2>5 DEF Captures
<1>3. CASE Globals
  <2>1. PICK i \in At("GLOBALS") :
           /\ GetLocalVarMap(0, 0, MaxRegs[callStack[0].ReturnFuncIndex])
           /\ UNCHANGED <<callStackTop, baseIndex, curFunc, currentFuncIndex>>
           /\ pc' = pc + 1
    BY <1>3 DEF Globals, SetReg
  <2>2. callStack[0].ReturnFuncIndex \in Funcs
    BY <2>1, FetchedAt DEF TypeOK, InRange
  <2>3. callStack[0].ReturnFuncIndex = Main
    BY <2>2, FramesAssumption DEF MainRecord
  <2>4. FrameBase(0) = 0 /\ FrameFunc(0) = Main
    BY DEF FrameChain
  <2>5. 0 \in {0, callStackTop} \cap (0 .. CallSlots - 1)
    BY <1>1
  <2> QED BY <2>1, <2>3, <2>4, <2>5 DEF Captures
<1> QED BY <1>2, <1>3

LEMMA StepKinds ==
  ASSUME WindowsAboveFuncRef
  PROVE  TypeOK /\ FrameChain /\ MainRecord /\ [Next]_vars
           => Stays \/ Captures \/ Pushes \/ Return
BY CallPushes, CallFPushes, LoadCPushes, ArgBlkPushes, PlainStays, StopStays, IdxSetStays,
   RemoveStays, CaptureKinds DEF Next

-----------------------------------------------------------------------------
(* The chain of records.                                                   *)

\* The part of a record that RETURN goes by.
Resumes(info) == <<info.ReturnPC, info.ReturnBase, info.ReturnFuncIndex>>

\* A step within an activation that may touch LocalVarMaps keeps the chain.
LEMMA KeepChain ==
  ASSUME TypeOK, FrameChain, TypeOK',
         UNCHANGED <<callStackTop, baseIndex, curFunc, currentFuncIndex>>,
         \A d \in 0 .. CallSlots - 1 : Resumes(callStack'[d]) = Resumes(callStack[d])
  PROVE  FrameChain'
<1>1. \A d \in 0 .. callStackTop - 1 :
        /\ callStack'[d].ReturnPC = callStack[d].ReturnPC
        /\ callStack'[d].ReturnBase = callStack[d].ReturnBase
        /\ callStack'[d].ReturnFuncIndex = callStack[d].ReturnFuncIndex
  BY FramesAssumption DEF TypeOK, Resumes
<1>2. callStackTop \in Nat
  BY DEF TypeOK
<1>3. \A d \in 0 .. callStackTop :
        FrameBase(d)' = FrameBase(d) /\ FrameFunc(d)' = FrameFunc(d)
  BY <1>1, <1>2 DEF FrameBase, FrameFunc
<1>4. \A d \in 0 .. callStackTop - 1 : FramePC(d)' = FramePC(d)
  BY <1>1, <1>2 DEF FramePC
<1>5. ASSUME NEW d \in 0 .. callStackTop - 1
      PROVE  /\ FrameFunc(d)' \in Funcs
             /\ FramePC(d)' \in 1 .. Len(Code[FrameFunc(d)'])
             /\ FrameBase(d)' <= FrameBase(d + 1)'
  <2>1. d \in 0 .. callStackTop /\ d + 1 \in 0 .. callStackTop
    BY <1>2
  <2>2. /\ FrameBase(d)' = FrameBase(d) /\ FrameFunc(d)' = FrameFunc(d)
        /\ FramePC(d)' = FramePC(d) /\ FrameBase(d + 1)' = FrameBase(d + 1)
    BY <1>3, <1>4, <2>1
  <2> QED BY <2>2 DEF FrameChain
<1>6. FrameBase(0)' = 0 /\ FrameFunc(0)' = Main /\ currentFuncIndex' = curFunc'
  BY <1>2, <1>3 DEF FrameChain
<1> QED BY <1>5, <1>6 DEF FrameChain

LEMMA InFrameChain ==
  ASSUME TypeOK, FrameChain, TypeOK', UNCHANGED calls
  PROVE  FrameChain'
BY KeepChain DEF calls

\* Making a locals map leaves every record's way back alone.
LEMMA CaptureResumes ==
  ASSUME TypeOK, NEW d \in 0 .. CallSlots - 1, NEW base, NEW count,
         GetLocalVarMap(d, base, count), NEW e \in 0 .. CallSlots - 1
  PROVE  Resumes(callStack'[e]) = Resumes(callStack[e])
<1>1. CASE callStack[d].LocalVarMap # 0
  BY <1>1 DEF GetLocalVarMap
<1>2. CASE callStack[d].LocalVarMap = 0
  <2>1. callStack' = [callStack EXCEPT ![d].LocalVarMap = Len(varMaps) + 1]
    BY <1>2 DEF GetLocalVarMap
  <2>2. callStack[d] \in Infos
    BY DEF TypeOK
  <2> QED BY <2>1, <2>2 DEF TypeOK, Resumes, Infos
<1> QED BY <1>1, <1>2

LEMMA CaptureChain ==
  ASSUME TypeOK, FrameChain, TypeOK', NEW d \in 0 .. CallSlots - 1, NEW base, NEW count,
         GetLocalVarMap(d, base, count),
         UNCHANGED <<callStackTop, baseIndex, curFunc, currentFuncIndex>>
  PROVE  FrameChain'
BY CaptureResumes, KeepChain

\* A call leaves every older frame alone and sets the caller's aside.
LEMMA PushFrames ==
  ASSUME TypeOK, FrameChain, ~Full, NEW callee, NEW base, NEW returnPC,
         NEW reg, NEW outer, PushFrame(callee, callee, base, returnPC, reg, outer)
  PROVE  /\ callStackTop \in 0 .. CallSlots - 1 /\ callStackTop' = callStackTop + 1
         /\ \A d \in 0 .. callStackTop :
              FrameBase(d)' = FrameBase(d) /\ FrameFunc(d)' = FrameFunc(d)
         /\ \A d \in 0 .. callStackTop - 1 : FramePC(d)' = FramePC(d)
         /\ FramePC(callStackTop) = pc
         /\ FrameFunc(callStackTop) = curFunc /\ FrameBase(callStackTop) = baseIndex
         /\ \A t \in Nat : t = callStackTop =>
              /\ FramePC(t)' = returnPC
              /\ FrameFunc(t + 1)' = callee /\ FrameBase(t + 1)' = base /\ FramePC(t + 1)' = 0
<1> PICK t : t = callStackTop   \* rigid: t' is t
  OBVIOUS
<1>1. t \in 0 .. CallSlots - 1 /\ t \in Nat
  BY FramesAssumption DEF TypeOK, Full
<1>2. /\ callStack'[t].ReturnPC = returnPC
      /\ callStack'[t].ReturnBase = baseIndex
      /\ callStack'[t].ReturnFuncIndex = currentFuncIndex
  BY <1>1 DEF PushFrame, CallInfo, TypeOK
<1>3. \A d \in 0 .. t - 1 : callStack'[d] = callStack[d]
  BY <1>1 DEF PushFrame, TypeOK
<1>4. /\ callStackTop' = t + 1 /\ baseIndex' = base
      /\ curFunc' = callee /\ currentFuncIndex' = callee /\ pc' = 0
  BY DEF PushFrame
<1>5. currentFuncIndex = curFunc /\ curFunc \in Funcs
  BY DEF FrameChain, TypeOK
<1>6. \A d \in 0 .. t : FrameBase(d)' = FrameBase(d) /\ FrameFunc(d)' = FrameFunc(d)
  BY <1>1, <1>2, <1>3, <1>4, <1>5 DEF FrameBase, FrameFunc
<1>7. \A d \in 0 .. t - 1 : FramePC(d)' = FramePC(d)
  BY <1>1, <1>3, <1>4 DEF FramePC
<1>8. /\ FramePC(t)' = returnPC /\ FrameFunc(t) = curFunc /\ FrameBase(t) = baseIndex
      /\ FramePC(t) = pc
      /\ FrameFunc(t + 1)' = callee /\ FrameBase(t + 1)' = base /\ FramePC(t + 1)' = 0
  BY <1>1, <1>2, <1>4 DEF FramePC, FrameFunc, FrameBase
<1> QED BY <1>1, <1>4, <1>6, <1>7, <1>8

\* A call extends the chain.
LEMMA PushChain ==
  ASSUME TypeOK, FrameChain, TypeOK', ~Full, NEW callee \in Funcs, NEW base \in Nat,
         baseIndex <= base, NEW returnPC \in 1 .. Len(Code[curFunc]),
         NEW reg, NEW outer, PushFrame(callee, callee, base, returnPC, reg, outer)
  PROVE  FrameChain'
<1> PICK t : t = callStackTop
  OBVIOUS
<1>1. /\ t \in 0 .. CallSlots - 1 /\ t \in Nat /\ callStackTop' = t + 1
      /\ \A d \in 0 .. t : FrameBase(d)' = FrameBase(d) /\ FrameFunc(d)' = FrameFunc(d)
      /\ \A d \in 0 .. t - 1 : FramePC(d)' = FramePC(d)
      /\ FramePC(t)' = returnPC /\ FrameFunc(t) = curFunc /\ FrameBase(t) = baseIndex
      /\ FrameBase(t + 1)' = base
  BY PushFrames
<1>2. currentFuncIndex' = curFunc' /\ curFunc \in Funcs
  BY DEF PushFrame, TypeOK
<1>3. ASSUME NEW d \in 0 .. callStackTop' - 1
      PROVE  /\ FrameFunc(d)' \in Funcs
             /\ FramePC(d)' \in 1 .. Len(Code[FrameFunc(d)'])
             /\ FrameBase(d)' <= FrameBase(d + 1)'
  <2>1. CASE d = t
    BY <1>1, <1>2, <2>1
  <2>2. CASE d # t
    <3>1. d \in 0 .. t - 1 /\ d + 1 \in 0 .. t
      BY <1>1, <2>2
    <3>2. /\ FrameFunc(d) \in Funcs
          /\ FramePC(d) \in 1 .. Len(Code[FrameFunc(d)])
          /\ FrameBase(d) <= FrameBase(d + 1)
      BY <3>1 DEF FrameChain
    <3>3. /\ FrameBase(d)' = FrameBase(d) /\ FrameFunc(d)' = FrameFunc(d)
          /\ FramePC(d)' = FramePC(d) /\ FrameBase(d + 1)' = FrameBase(d + 1)
      BY <1>1, <3>1
    <3> QED BY <3>2, <3>3
  <2> QED BY <2>1, <2>2
<1>4. FrameBase(0)' = 0 /\ FrameFunc(0)' = Main
  BY <1>1 DEF FrameChain
<1> QED BY <1>2, <1>3, <1>4 DEF FrameChain

\* A return leaves every older frame alone and runs the topmost of them.
LEMMA ReturnFrames ==
  ASSUME TypeOK, Return
  PROVE  /\ callStackTop \in 1 .. CallSlots /\ callStackTop' = callStackTop - 1
         /\ \A d \in 0 .. callStackTop - 1 :
              /\ FrameBase(d)' = FrameBase(d) /\ FrameFunc(d)' = FrameFunc(d)
              /\ FramePC(d)' = FramePC(d)
<1> PICK t : t = callStackTop - 1   \* rigid
  OBVIOUS
<1>1. /\ callStackTop = t + 1 /\ t \in 0 .. CallSlots - 1 /\ callStackTop' = t
      /\ callStackTop \in 1 .. CallSlots
  BY FramesAssumption DEF TypeOK, Return
<1>2. \A d \in 0 .. t : Resumes(callStack'[d]) = Resumes(callStack[d])
  <2> TAKE d \in 0 .. t
  <2>1. callStack' = [callStack EXCEPT ![callStackTop].LocalVarMap = 0]
    BY DEF Return, ForgetLocals
  <2>2. d \in 0 .. CallSlots - 1
    BY <1>1, FramesAssumption
  <2>3. callStack[d] \in Infos
    BY <2>2 DEF TypeOK
  <2> QED BY <2>1, <2>2, <2>3 DEF TypeOK, Resumes, Infos
<1>3. \A d \in 0 .. t : /\ callStack'[d].ReturnPC = callStack[d].ReturnPC
                        /\ callStack'[d].ReturnBase = callStack[d].ReturnBase
                        /\ callStack'[d].ReturnFuncIndex = callStack[d].ReturnFuncIndex
  BY <1>2 DEF Resumes
<1>4. \A d \in 0 .. t : /\ FrameBase(d)' = FrameBase(d) /\ FrameFunc(d)' = FrameFunc(d)
                        /\ FramePC(d)' = FramePC(d)
  BY <1>1, <1>3 DEF Return, FrameBase, FrameFunc, FramePC
<1> QED BY <1>1, <1>4

\* RETURN takes the topmost link off.
LEMMA ReturnChain == TypeOK /\ FrameChain /\ Return /\ TypeOK' => FrameChain'
<1> SUFFICES ASSUME TypeOK, FrameChain, TypeOK', Return PROVE FrameChain'
  OBVIOUS
<1> PICK t : t = callStackTop - 1   \* rigid
  OBVIOUS
<1>1. callStackTop = t + 1 /\ t \in Nat /\ callStackTop' = t
  BY ReturnFrames
<1>2. \A d \in 0 .. t : /\ FrameBase(d)' = FrameBase(d) /\ FrameFunc(d)' = FrameFunc(d)
                        /\ FramePC(d)' = FramePC(d)
  BY ReturnFrames
<1>3. currentFuncIndex' = curFunc'
  BY DEF Return
<1>4. ASSUME NEW d \in 0 .. callStackTop' - 1
      PROVE  /\ FrameFunc(d)' \in Funcs
             /\ FramePC(d)' \in 1 .. Len(Code[FrameFunc(d)'])
             /\ FrameBase(d)' <= FrameBase(d + 1)'
  <2>1. d \in 0 .. t - 1 /\ d \in 0 .. t /\ d + 1 \in 0 .. t /\ d \in 0 .. callStackTop - 1
    BY <1>1
  <2>2. /\ FrameFunc(d) \in Funcs
        /\ FramePC(d) \in 1 .. Len(Code[FrameFunc(d)])
        /\ FrameBase(d) <= FrameBase(d + 1)
    BY <2>1 DEF FrameChain
  <2>3. /\ FrameBase(d)' = FrameBase(d) /\ FrameFunc(d)' = FrameFunc(d)
        /\ FramePC(d)' = FramePC(d) /\ FrameBase(d + 1)' = FrameBase(d + 1)
    BY <1>2, <2>1
  <2> QED BY <2>2, <2>3
<1>5. FrameBase(0)' = 0 /\ FrameFunc(0)' = Main
  BY <1>1, <1>2 DEF FrameChain
<1> QED BY <1>3, <1>4, <1>5 DEF FrameChain

LEMMA ChainInit == Init => FrameChain
BY DEF Init, FrameChain, FrameBase, FrameFunc

LEMMA MainRecordStep ==
  ASSUME TypeOK, FrameChain, MainRecord, Stays \/ Captures \/ Pushes \/ Return
  PROVE  MainRecord'
<1>1. 0 \in 0 .. CallSlots - 1 /\ callStack[0] \in Infos /\ callStackTop \in Nat
  BY FramesAssumption DEF TypeOK
<1>2. CASE Stays
  BY <1>2 DEF Stays, calls, MainRecord
<1>3. CASE Captures \/ Return
  <2>1. ASSUME NEW d, NEW m, callStack' = [callStack EXCEPT ![d].LocalVarMap = m]
        PROVE  callStack'[0].ReturnFuncIndex = callStack[0].ReturnFuncIndex
    <3>1. callStack'[0] = callStack[0] \/ callStack'[0] = [callStack[0] EXCEPT !.LocalVarMap = m]
      BY <1>1, <2>1 DEF TypeOK
    <3> QED BY <1>1, <3>1 DEF Infos
  <2>2. CASE Captures
    <3>1. PICK d \in 0 .. CallSlots - 1 : GetLocalVarMap(d, FrameBase(d), MaxRegs[FrameFunc(d)])
      BY <2>2 DEF Captures
    <3>2. CASE callStack[d].LocalVarMap # 0
      BY <3>1, <3>2 DEF GetLocalVarMap, MainRecord
    <3>3. CASE callStack[d].LocalVarMap = 0
      <4>1. callStack' = [callStack EXCEPT ![d].LocalVarMap = Len(varMaps) + 1]
        BY <3>1, <3>3 DEF GetLocalVarMap
      <4> QED BY <2>1, <4>1 DEF MainRecord
    <3> QED BY <3>2, <3>3
  <2>3. CASE Return
    <3>1. callStack' = [callStack EXCEPT ![callStackTop].LocalVarMap = 0]
      BY <2>3 DEF Return, ForgetLocals
    <3> QED BY <2>1, <3>1 DEF MainRecord
  <2> QED BY <1>3, <2>2, <2>3
<1>4. CASE Pushes
  <2>1. PICK callee \in Funcs, base \in Nat, returnPC \in 1 .. Len(Code[curFunc]),
             reg \in Int, outer \in Handles :
          PushFrame(callee, callee, base, returnPC, reg, outer)
    BY <1>4 DEF Pushes
  <2>2. callStack' = [callStack EXCEPT ![callStackTop] =
                        CallInfo(returnPC, baseIndex, currentFuncIndex, reg, outer)]
    BY <2>1 DEF PushFrame
  <2>3. callStackTop = 0 => currentFuncIndex = Main
    BY DEF FrameChain, FrameFunc
  <2>4. callStack'[0] = IF callStackTop = 0
                        THEN CallInfo(returnPC, baseIndex, currentFuncIndex, reg, outer)
                        ELSE callStack[0]
    BY <1>1, <2>2 DEF TypeOK
  <2> QED BY <2>3, <2>4 DEF MainRecord, CallInfo
<1> QED BY <1>2, <1>3, <1>4

LEMMA ChainStep ==
  ASSUME WindowsAboveFuncRef
  PROVE  TypeOK /\ FrameChain /\ MainRecord /\ [Next]_vars /\ TypeOK'
           => FrameChain' /\ MainRecord'
<1> SUFFICES ASSUME TypeOK, FrameChain, MainRecord, [Next]_vars, TypeOK'
             PROVE  FrameChain' /\ MainRecord'
  OBVIOUS
<1>1. Stays \/ Captures \/ Pushes \/ Return
  BY StepKinds
<1>0. MainRecord'
  BY <1>1, MainRecordStep
<1>2. CASE Stays
  BY <1>0, <1>2, InFrameChain DEF Stays
<1>3. CASE Captures
  <2>1. PICK d \in 0 .. CallSlots - 1 : GetLocalVarMap(d, FrameBase(d), MaxRegs[FrameFunc(d)])
    BY <1>3 DEF Captures
  <2>2. UNCHANGED <<callStackTop, baseIndex, curFunc, currentFuncIndex>>
    BY <1>3 DEF Captures
  <2> QED BY <1>0, <2>1, <2>2, CaptureChain, Zenon
<1>4. CASE Pushes
  <2>1. PICK callee \in Funcs, base \in Nat, returnPC \in 1 .. Len(Code[curFunc]),
             reg \in Int, outer \in Handles :
          baseIndex <= base /\ PushFrame(callee, callee, base, returnPC, reg, outer)
    BY <1>4 DEF Pushes
  <2>2. ~Full
    BY <1>4 DEF Pushes
  <2> QED BY <1>0, <2>1, <2>2, PushChain
<1> QED BY <1>0, <1>1, <1>2, <1>3, <1>4, ReturnChain

\* However calls, returns, captures and errors follow each other, the call
\* stack links every live activation to its caller, if every callee's window
\* starts above the register of its funcref.
THEOREM ChainCorrect == WindowsAboveFuncRef => (Spec => []FrameChain)
<1> SUFFICES ASSUME WindowsAboveFuncRef PROVE Spec => []FrameChain
  OBVIOUS
<1>1. Init => MainRecord
  BY FramesAssumption DEF Init, MainRecord, CallInfo
<1>2. TypeOK /\ FrameChain /\ MainRecord /\ TypeOK' /\ [Next]_vars => FrameChain' /\ MainRecord'
  BY ChainStep
<1> QED BY <1>1, <1>2, ChainInit, TypeCorrect, PTL DEF Spec

-----------------------------------------------------------------------------
(* Calls nest.                                                             *)

\* The stack of activations that VMFrames shows to Activations.
Frame(d) == [func |-> FrameFunc(d), base |-> FrameBase(d), pc |-> FramePC(d)]
Frames   == [d \in 1 .. callStackTop + 1 |-> Frame(d - 1)]

\* The operators of Activations read on it.
ShownAsFrames ==
  /\ Len(Frames) = callStackTop + 1
  /\ Abstract!Top = Frame(callStackTop)
  /\ Abstract!Rest = [d \in 1 .. callStackTop |-> Frame(d - 1)]

LEMMA FramesShown == TypeOK => ShownAsFrames
<1> SUFFICES ASSUME TypeOK PROVE ShownAsFrames
  OBVIOUS
<1>1. callStackTop \in Nat
  BY DEF TypeOK
<1>2. Len(Frames) = callStackTop + 1
  <2>1. DOMAIN Frames = 1 .. callStackTop + 1 /\ callStackTop + 1 \in Nat
    BY <1>1 DEF Frames
  <2>2. Frames \in [1 .. callStackTop + 1 -> {Frames[d] : d \in 1 .. callStackTop + 1}]
    BY <2>1 DEF Frames
  <2>3. Frames \in Seq({Frames[d] : d \in 1 .. callStackTop + 1})
    BY <2>1, <2>2, SeqDef
  <2> QED BY <2>1, <2>3, LenProperties
<1>3. \A d \in 1 .. callStackTop + 1 : Frames[d] = Frame(d - 1)
  BY DEF Frames
<1>4. Abstract!Top = Frame(callStackTop)
  BY <1>1, <1>2, <1>3 DEF Abstract!Top, Frames, Frame
<1>5. Abstract!Rest = SubSeq(Frames, 1, callStackTop)
  BY <1>1, <1>2 DEF Abstract!Rest, Frames, Frame
<1>6. SubSeq(Frames, 1, callStackTop) = [d \in 1 .. callStackTop |-> Frames[d]]
  BY <1>1, <1>2
<1> QED BY <1>1, <1>2, <1>3, <1>4, <1>5, <1>6 DEF ShownAsFrames

LEMMA FramesShownNext == TypeOK' => ShownAsFrames'
<1>1. (TypeOK => ShownAsFrames)'
  BY FramesShown, PTL
<1> QED BY <1>1

\* A step within an activation.
LEMMA KeepNest ==
  ASSUME TypeOK, TypeOK', UNCHANGED <<callStackTop, baseIndex, curFunc>>,
         \A d \in 0 .. CallSlots - 1 : Resumes(callStack'[d]) = Resumes(callStack[d])
  PROVE  Abstract!Step
<1> PICK t : t = callStackTop
  OBVIOUS
<1>1. t \in Nat /\ t = callStackTop /\ t = callStackTop' /\ t \in 0 .. CallSlots
  BY DEF TypeOK
<1>2. \A d \in 0 .. t - 1 : Frame(d)' = Frame(d)
  <2> TAKE d \in 0 .. t - 1
  <2>1. d \in 0 .. CallSlots - 1 /\ d # t
    BY <1>1, FramesAssumption
  <2>2. /\ callStack'[d].ReturnPC = callStack[d].ReturnPC
        /\ callStack'[d].ReturnBase = callStack[d].ReturnBase
        /\ callStack'[d].ReturnFuncIndex = callStack[d].ReturnFuncIndex
    BY <2>1 DEF Resumes
  <2> QED BY <1>1, <2>1, <2>2 DEF Frame, FrameFunc, FrameBase, FramePC
<1>3. [d \in 1 .. t |-> Frame(d - 1)'] = [d \in 1 .. t |-> Frame(d - 1)]
  BY <1>1, <1>2
<1>4. Abstract!Rest' = Abstract!Rest
  BY <1>1, <1>3, FramesShown, FramesShownNext DEF ShownAsFrames
<1>5. Len(Frames') = Len(Frames)
  BY <1>1, FramesShown, FramesShownNext DEF ShownAsFrames
<1>6. /\ Abstract!Top'.func = Abstract!Top.func /\ Abstract!Top'.base = Abstract!Top.base
      /\ Abstract!Top'.pc \in Nat
  BY <1>1, FramesShown, FramesShownNext
     DEF ShownAsFrames, Frame, FrameFunc, FrameBase, FramePC, TypeOK
<1> QED BY <1>4, <1>5, <1>6 DEF Abstract!Step, Frames, Frame

\* A call: PushFrame with the caller's way back behind the call.
LEMMA PushNest ==
  ASSUME TypeOK, FrameChain, TypeOK', ~Full, NEW callee \in Funcs, NEW base \in Nat,
         baseIndex <= base, NEW returnPC \in Nat, pc < returnPC,
         NEW reg, NEW outer, PushFrame(callee, callee, base, returnPC, reg, outer)
  PROVE  Abstract!Enter
<1> PICK t : t = callStackTop
  OBVIOUS
<1>1. t \in 0 .. CallSlots - 1 /\ t \in Nat /\ t = callStackTop /\ callStackTop' = t + 1
  BY PushFrames
<1>4. \A d \in 0 .. t - 1 : Frame(d)' = Frame(d)
  BY <1>1, PushFrames DEF Frame
<1>5. Frame(t)' = [func |-> curFunc, base |-> baseIndex, pc |-> returnPC]
  BY <1>1, PushFrames DEF Frame
<1>6. Frame(t) = [func |-> curFunc, base |-> baseIndex, pc |-> pc]
  BY <1>1, PushFrames DEF Frame
<1>7. Frame(t + 1)' = [func |-> callee, base |-> base, pc |-> 0]
  BY <1>1, PushFrames DEF Frame
<1>8. /\ Len(Frames) = t + 1 /\ Abstract!Top = Frame(t)
      /\ Abstract!Rest = [d \in 1 .. t |-> Frame(d - 1)]
  BY <1>1, FramesShown DEF ShownAsFrames
<1>9. Len(Frames') = t + 2 /\ Abstract!Top' = Frame(t + 1)'
  BY <1>1, FramesShownNext DEF ShownAsFrames
<1>10. SubSeq(Frames', 1, t) = [d \in 1 .. t |-> Frame(d - 1)]
  <2>1. \A d \in 1 .. t + 2 : Frames'[d] = Frame(d - 1)'
    BY <1>1 DEF Frames
  <2>2. SubSeq(Frames', 1, t) = [d \in 1 .. t |-> Frames'[d]]
    BY <1>1, <1>9
  <2>3. \A d \in 1 .. t : Frames'[d] = Frame(d - 1)
    <3> TAKE d \in 1 .. t
    <3>1. d \in 1 .. t + 2 /\ d - 1 \in 0 .. t - 1
      BY <1>1
    <3> QED BY <1>4, <2>1, <3>1
  <2> QED BY <2>2, <2>3
<1>11. Frames'[t + 1] = Frame(t)'
  BY <1>1 DEF Frames
<1>12. /\ Len(Frames') = Len(Frames) + 1
       /\ SubSeq(Frames', 1, Len(Frames) - 1) = Abstract!Rest
       /\ Frames'[Len(Frames)].func = Abstract!Top.func
       /\ Frames'[Len(Frames)].base = Abstract!Top.base
       /\ Frames'[Len(Frames)].pc > Abstract!Top.pc
  BY <1>1, <1>5, <1>6, <1>8, <1>9, <1>10, <1>11 DEF TypeOK
<1>13. /\ Abstract!Top'.func \in Funcs /\ Abstract!Top'.base >= Abstract!Top.base
       /\ Abstract!Top'.pc = 0
  BY <1>6, <1>7, <1>8, <1>9 DEF TypeOK
<1> QED BY <1>12, <1>13 DEF Abstract!Enter, Frames, Frame

\* A return: what is left is the stack of the caller.
LEMMA ReturnNest ==
  ASSUME TypeOK, TypeOK', Return
  PROVE  Abstract!Return
<1> PICK t : t = callStackTop - 1   \* rigid
  OBVIOUS
<1>1. callStackTop = t + 1 /\ t \in Nat /\ callStackTop' = t
  BY ReturnFrames
<1>3. \A d \in 0 .. t : Frame(d)' = Frame(d)
  BY <1>1, ReturnFrames DEF Frame
<1>4. Len(Frames) = t + 2 /\ Abstract!Rest = [d \in 1 .. t + 1 |-> Frame(d - 1)]
  BY <1>1, FramesShown DEF ShownAsFrames
<1>5. Frames' = [d \in 1 .. t + 1 |-> Frame(d - 1)]
  BY <1>1, <1>3 DEF Frames
<1>6. Len(Frames) > 1 /\ Frames' = Abstract!Rest
  BY <1>1, <1>4, <1>5
<1> QED BY <1>6 DEF Abstract!Return, Frames, Frame

LEMMA NestStep ==
  ASSUME WindowsAboveFuncRef
  PROVE  TypeOK /\ FrameChain /\ MainRecord /\ [Next]_vars /\ TypeOK' => Abstract!Next
<1> SUFFICES ASSUME TypeOK, FrameChain, MainRecord, [Next]_vars, TypeOK'
             PROVE  Abstract!Next
  OBVIOUS
<1>1. Stays \/ Captures \/ Pushes \/ Return
  BY StepKinds
<1>2. CASE Stays
  <2>1. UNCHANGED <<callStackTop, baseIndex, curFunc, callStack>>
    BY <1>2 DEF Stays, calls
  <2> QED BY <2>1, KeepNest DEF Abstract!Next
<1>3. CASE Captures
  <2>1. PICK d \in 0 .. CallSlots - 1 : GetLocalVarMap(d, FrameBase(d), MaxRegs[FrameFunc(d)])
    BY <1>3 DEF Captures
  <2>2. UNCHANGED <<callStackTop, baseIndex, curFunc>>
    BY <1>3 DEF Captures
  <2>3. \A e \in 0 .. CallSlots - 1 : Resumes(callStack'[e]) = Resumes(callStack[e])
    BY <2>1, CaptureResumes, Zenon
  <2> QED BY <2>2, <2>3, KeepNest DEF Abstract!Next
<1>4. CASE Pushes
  <2>1. PICK callee \in Funcs, base \in Nat, returnPC \in 1 .. Len(Code[curFunc]),
             reg \in Int, outer \in Handles :
          /\ baseIndex <= base /\ pc < returnPC
          /\ PushFrame(callee, callee, base, returnPC, reg, outer)
    BY <1>4 DEF Pushes
  <2>2. ~Full /\ returnPC \in Nat
    BY <1>4 DEF Pushes
  <2> QED BY <2>1, <2>2, PushNest DEF Abstract!Next
<1>5. CASE Return
  BY <1>5, ReturnNest DEF Abstract!Next
<1> QED BY <1>1, <1>2, <1>3, <1>4, <1>5

LEMMA NestInit == Init => Abstract!Init
<1> SUFFICES ASSUME Init PROVE Frames = <<[func |-> Main, base |-> 0, pc |-> 0]>>
  BY DEF Abstract!Init, Frames, Frame
<1>1. callStackTop = 0 /\ Frame(0) = [func |-> Main, base |-> 0, pc |-> 0]
  BY DEF Init, Frame, FrameFunc, FrameBase, FramePC
<1> QED BY <1>1 DEF Frames

\* Every suspended caller is resumed where its call left it: the frames held in
\* the call stack array and in Run's locals behave as the stack of activations
\* that Activations describes, whatever the program, the sizes of the stacks
\* and the depth of the calls.
THEOREM CallsNestCorrect == WindowsAboveFuncRef => (Spec => CallsNest)
<1> SUFFICES ASSUME WindowsAboveFuncRef PROVE Spec => CallsNest
  OBVIOUS
<1>1. Init => MainRecord
  BY FramesAssumption DEF Init, MainRecord, CallInfo
<1>2. TypeOK /\ FrameChain /\ MainRecord /\ TypeOK' /\ [Next]_vars => FrameChain' /\ MainRecord'
  BY ChainStep
<1>3. TypeOK /\ FrameChain /\ MainRecord /\ TypeOK' /\ [Next]_vars => Abstract!Next
  BY NestStep
<1> QED
  BY <1>1, <1>2, <1>3, ChainInit, NestInit, TypeCorrect, PTL DEF Spec, CallsNest, Abstract!Spec

-----------------------------------------------------------------------------
(* Where the maps are.                                                     *)

\* A locals map in a call stack slot is that of the activation at its depth,
\* and only live activations have one.
LocalsPlaced ==
  \A d \in 0 .. CallSlots - 1 :
    LET m == callStack[d].LocalVarMap
    IN  m # 0 => /\ d <= callStackTop /\ home[m] = d
                 /\ \A k \in Names : Mapped(m, k) => varMaps[m].regs[k] \in Window(d)

\* The map of a called activation that has not returned is in its slot.
HomesFound ==
  \A m \in DOMAIN varMaps : home[m] > 0 =>
    home[m] < CallSlots /\ callStack[home[m]].LocalVarMap = m

\* A suspended activation, @main's apart, never captured its locals...
CallersUncaptured == \A d \in 1 .. callStackTop - 1 : callStack[d].LocalVarMap = 0

\* ... since the running one does so only at an instruction it has behind it.
CapturedBehind ==
  callStackTop \in 1 .. CallSlots - 1 /\ callStack[callStackTop].LocalVarMap # 0 =>
    \E p \in 1 .. pc : p \in DOMAIN Code[curFunc] /\ \E i \in Code[curFunc][p] : i.op \in Capturing

CalleesRun == \A d \in 1 .. callStackTop : FrameFunc(d) \in Callees

\* A key bound to a slot has no second value in the map.
BoundOnly ==
  \A m \in DOMAIN varMaps : \A k \in Names : Mapped(m, k) => varMaps[m].items[k] = Absent

MapsInv == /\ LocalsPlaced /\ HomesFound /\ NoDanglingVarMap /\ CallersUncaptured
           /\ CapturedBehind /\ CalleesRun /\ BoundOnly

LEMMA MapHandle ==
  ASSUME TypeOK, NEW d \in 0 .. CallSlots - 1, callStack[d].LocalVarMap # 0
  PROVE  callStack[d].LocalVarMap \in DOMAIN varMaps
<1>1. callStack[d] \in Infos
  BY DEF TypeOK
<1>2. Len(varMaps) \in Nat /\ DOMAIN varMaps = 1 .. Len(varMaps)
  BY LenProperties DEF TypeOK
<1> QED BY <1>1, <1>2 DEF Infos, Handles

LEMMA HomeType ==
  ASSUME TypeOK, NEW m \in DOMAIN varMaps
  PROVE  home[m] \in 0 .. CallSlots \cup {Gone} /\ home[m] \in Int
BY FramesAssumption DEF TypeOK, Gone

LEMMA MapsInit == Init => MapsInv
<1> SUFFICES ASSUME Init PROVE MapsInv
  OBVIOUS
<1>1. /\ varMaps = <<>> /\ callStackTop = 0
      /\ \A d \in 0 .. CallSlots - 1 : callStack[d].LocalVarMap = 0
  BY DEF Init, CallInfo
<1>2. DOMAIN varMaps = {}
  BY <1>1
<1> QED
  BY <1>1, <1>2 DEF MapsInv, LocalsPlaced, HomesFound, NoDanglingVarMap, CallersUncaptured,
     CapturedBehind, CalleesRun, BoundOnly

LEMMA MapsStay ==
  ASSUME TypeOK, MapsInv, Stays, pc' \in Nat
  PROVE  MapsInv'
<1>1. UNCHANGED <<callStack, callStackTop, baseIndex, curFunc, home>> /\ BindingsKept /\ pc <= pc'
  BY DEF Stays, calls
<1>2. \A d : Window(d)' = Window(d) /\ FrameFunc(d)' = FrameFunc(d)
  BY <1>1 DEF Window, FrameBase, FrameFunc
<1>3. \A m \in DOMAIN varMaps : varMaps'[m].regs = varMaps[m].regs
  BY <1>1 DEF BindingsKept
<1>4. \A m \in DOMAIN varMaps : \A k : Mapped(m, k)' <=> Mapped(m, k)
  BY <1>3 DEF Mapped
<1>5. DOMAIN varMaps' = DOMAIN varMaps
  BY <1>1 DEF BindingsKept
<1>6. LocalsPlaced'
  <2>1. ASSUME NEW d \in 0 .. CallSlots - 1, NEW m, m = callStack[d].LocalVarMap, m # 0
        PROVE  /\ d <= callStackTop /\ home[m] = d
               /\ \A k \in Names : varMaps'[m].regs[k] # Unmapped =>
                                    varMaps'[m].regs[k] \in Window(d)
    <3>1. m \in DOMAIN varMaps
      BY <2>1, MapHandle
    <3>2. /\ d <= callStackTop /\ home[m] = d
          /\ \A k \in Names : varMaps[m].regs[k] # Unmapped => varMaps[m].regs[k] \in Window(d)
      BY <2>1 DEF MapsInv, LocalsPlaced, Mapped
    <3> QED BY <1>3, <3>1, <3>2
  <2> QED BY <1>1, <1>2, <2>1 DEF LocalsPlaced, Mapped
<1>7. HomesFound' /\ CallersUncaptured' /\ CalleesRun'
  BY <1>1, <1>2, <1>5 DEF MapsInv, HomesFound, CallersUncaptured, CalleesRun
<1>8. NoDanglingVarMap'
  BY <1>1, <1>4, <1>5 DEF MapsInv, NoDanglingVarMap
<1>9. CapturedBehind'
  <2> SUFFICES ASSUME callStackTop \in 1 .. CallSlots - 1, callStack[callStackTop].LocalVarMap # 0
               PROVE  \E p \in 1 .. pc' : /\ p \in DOMAIN Code[curFunc]
                                          /\ \E i \in Code[curFunc][p] : i.op \in Capturing
    BY <1>1 DEF CapturedBehind
  <2>1. PICK p \in 1 .. pc : /\ p \in DOMAIN Code[curFunc]
                             /\ \E i \in Code[curFunc][p] : i.op \in Capturing
    BY DEF MapsInv, CapturedBehind
  <2>2. p \in 1 .. pc'
    BY <1>1 DEF TypeOK
  <2> QED BY <2>1, <2>2
<1>10. BoundOnly'
  BY <1>1, <1>4, <1>5 DEF MapsInv, BoundOnly, BindingsKept
<1> QED BY <1>6, <1>7, <1>8, <1>9, <1>10 DEF MapsInv

\* What making a locals map does.
LEMMA NewMapMade ==
  ASSUME TypeOK, NEW d \in 0 .. CallSlots - 1, NEW base \in Nat, NEW count \in Nat,
         GetLocalVarMap(d, base, count), callStack[d].LocalVarMap = 0
  PROVE  LET n == Len(varMaps) + 1
         IN  /\ n \in Nat \ {0} /\ DOMAIN varMaps = 1 .. n - 1 /\ DOMAIN varMaps' = 1 .. n
             /\ \A m \in DOMAIN varMaps : varMaps'[m] = varMaps[m] /\ home'[m] = home[m]
             /\ varMaps'[n] = NewVarMap(base, count) /\ home'[n] = d
             /\ callStack'[d].LocalVarMap = n
             /\ \A e \in 0 .. CallSlots - 1 : e # d =>
                  callStack'[e].LocalVarMap = callStack[e].LocalVarMap
<1> PICK n : n = Len(varMaps) + 1
  OBVIOUS
<1>1. /\ Len(varMaps) \in Nat /\ DOMAIN varMaps = 1 .. n - 1 /\ n \in Nat \ {0}
      /\ varMaps \in Seq(MapObjects)
  BY LenProperties DEF TypeOK
<1>2. /\ varMaps' = Append(varMaps, NewVarMap(base, count))
      /\ home' = Append(home, d)
      /\ callStack' = [callStack EXCEPT ![d].LocalVarMap = n]
  BY DEF GetLocalVarMap
<1>3. /\ DOMAIN varMaps' = 1 .. n /\ varMaps'[n] = NewVarMap(base, count)
      /\ \A m \in 1 .. n - 1 : varMaps'[m] = varMaps[m]
  BY <1>1, <1>2
<1>4. home'[n] = d /\ \A m \in 1 .. n - 1 : home'[m] = home[m]
  <2> DEFINE H == 0 .. CallSlots \cup {Gone}
  <2>1. home \in [1 .. n - 1 -> H] /\ n - 1 \in Nat
    BY <1>1 DEF TypeOK
  <2> HIDE DEF H
  <2>2. home \in Seq(H)
    BY <2>1, SeqDef
  <2>3. Len(home) = n - 1
    BY <2>1, <2>2, LenProperties
  <2> QED BY <1>1, <1>2, <2>1, <2>2, <2>3
<1>5. /\ callStack'[d].LocalVarMap = n
      /\ \A e \in 0 .. CallSlots - 1 : e # d =>
           callStack'[e].LocalVarMap = callStack[e].LocalVarMap
  <2>1. callStack[d] \in Infos
    BY DEF TypeOK
  <2> QED BY <1>2, <2>1 DEF TypeOK, Infos
<1> QED BY <1>1, <1>3, <1>4, <1>5

\* A new map binds a key to a slot of the window it is made for, if any.
LEMMA NewMapBinds ==
  ASSUME NEW base \in Nat, NEW count \in Nat, NEW k \in Names
  PROVE  LET r == NewVarMap(base, count).regs[k]
         IN  /\ r # Unmapped => r \in base .. base + count - 1 /\ names[r] = k
             /\ NewVarMap(base, count).items[k] = Absent
<1> DEFINE named == {s \in base .. base + count - 1 : names[s] = k}
<1>1. NewVarMap(base, count).regs[k] = IF named = {} THEN Unmapped ELSE Max(named)
  BY DEF NewVarMap
<1>2. base \in Int /\ base + count - 1 \in Int /\ named \in SUBSET (base .. base + count - 1)
  OBVIOUS
<1>3. named # {} => Max(named) \in named
  <2> HIDE DEF named
  <2> QED BY <1>2, MaxBounded, Zenon
<1>4. NewVarMap(base, count).items[k] = Absent
  BY DEF NewVarMap
<1> QED BY <1>1, <1>3, <1>4

\* The two ways a capture can go.
LEMMA CaptureCases ==
  ASSUME TypeOK, Captures
  PROVE  \/ Stays
         \/ \E d \in {0, callStackTop} \cap (0 .. CallSlots - 1) :
              /\ GetLocalVarMap(d, FrameBase(d), MaxRegs[FrameFunc(d)])
              /\ callStack[d].LocalVarMap = 0 /\ (d # 0 => Fetches(Capturing))
<1>1. PICK d \in {0, callStackTop} \cap (0 .. CallSlots - 1) :
        /\ GetLocalVarMap(d, FrameBase(d), MaxRegs[FrameFunc(d)])
        /\ d # 0 => Fetches(Capturing)
  BY DEF Captures
<1>2. CASE callStack[d].LocalVarMap # 0
  <2>1. UNCHANGED <<callStack, varMaps, home>>
    BY <1>1, <1>2 DEF GetLocalVarMap
  <2>2. UNCHANGED <<calls, maps>> /\ pc <= pc'
    BY <2>1 DEF Captures, calls, maps, TypeOK
  <2> QED BY <2>2, StaysIntro
<1> QED BY <1>1, <1>2

\* A new map is the running activation's or @main's.
LEMMA MapsCapture ==
  ASSUME TypeOK, FrameChain, MapsInv, Captures, pc' \in Nat
  PROVE  MapsInv'
<1> SUFFICES ASSUME NEW d \in {0, callStackTop} \cap (0 .. CallSlots - 1),
                    GetLocalVarMap(d, FrameBase(d), MaxRegs[FrameFunc(d)]),
                    callStack[d].LocalVarMap = 0, d # 0 => Fetches(Capturing)
             PROVE  MapsInv'
  BY CaptureCases, MapsStay
<1> PICK n : n = Len(varMaps) + 1
  OBVIOUS
<1>1. /\ d \in 0 .. CallSlots - 1 /\ d <= callStackTop /\ d \in Nat /\ callStackTop \in Nat
      /\ FrameBase(d) \in Nat /\ FrameFunc(d) \in Funcs /\ MaxRegs[FrameFunc(d)] \in Nat
  <2>1. d \in 0 .. CallSlots - 1 /\ d <= callStackTop /\ d \in Nat /\ callStackTop \in Nat
    BY FramesAssumption DEF TypeOK
  <2>2. FrameBase(d) \in Nat /\ FrameFunc(d) \in Funcs
    BY FramesAssumption DEF FrameChain, FrameBase, FrameFunc, TypeOK
  <2> QED BY <2>1, <2>2, MaxRegsNat
<1>2. /\ n \in Nat \ {0} /\ DOMAIN varMaps = 1 .. n - 1 /\ DOMAIN varMaps' = 1 .. n
      /\ \A m \in 1 .. n - 1 : varMaps'[m] = varMaps[m] /\ home'[m] = home[m]
      /\ varMaps'[n] = NewVarMap(FrameBase(d), MaxRegs[FrameFunc(d)]) /\ home'[n] = d
      /\ callStack'[d].LocalVarMap = n
      /\ \A e \in 0 .. CallSlots - 1 : e # d =>
           callStack'[e].LocalVarMap = callStack[e].LocalVarMap
  BY <1>1, NewMapMade
<1>3. UNCHANGED <<callStackTop, baseIndex, curFunc>> /\ pc' = pc + 1 /\ pc \in Nat
  BY DEF Captures, TypeOK
<1>4. \A e \in 0 .. CallSlots - 1 : Window(e)' = Window(e) /\ FrameFunc(e)' = FrameFunc(e)
  <2> TAKE e \in 0 .. CallSlots - 1
  <2>1. Resumes(callStack'[e]) = Resumes(callStack[e])
    BY <1>1, CaptureResumes
  <2> QED BY <1>3, <2>1 DEF Window, FrameBase, FrameFunc, Resumes
<1>5. \A k \in Names : /\ varMaps'[n].regs[k] # Unmapped => varMaps'[n].regs[k] \in Window(d)
                       /\ varMaps'[n].items[k] = Absent
  BY <1>1, <1>2, NewMapBinds DEF Window
<1>6. LocalsPlaced'
  <2>1. ASSUME NEW e \in 0 .. CallSlots - 1, NEW m, m = callStack'[e].LocalVarMap, m # 0
        PROVE  /\ e <= callStackTop' /\ home'[m] = e
               /\ \A k \in Names : varMaps'[m].regs[k] # Unmapped =>
                                    varMaps'[m].regs[k] \in Window(e)'
    <3>1. CASE e = d
      BY <1>1, <1>2, <1>3, <1>4, <1>5, <2>1, <3>1
    <3>2. CASE e # d
      <4>1. m = callStack[e].LocalVarMap /\ m \in 1 .. n - 1
        BY <1>2, <2>1, <3>2, MapHandle
      <4>2. /\ e <= callStackTop /\ home[m] = e
            /\ \A k \in Names : varMaps[m].regs[k] # Unmapped => varMaps[m].regs[k] \in Window(e)
        BY <2>1, <4>1 DEF MapsInv, LocalsPlaced, Mapped
      <4> QED BY <1>2, <1>3, <1>4, <4>1, <4>2
    <3> QED BY <3>1, <3>2
  <2> QED BY <2>1 DEF LocalsPlaced, Mapped
<1>7. HomesFound'
  <2> SUFFICES ASSUME NEW m \in 1 .. n, home'[m] > 0
               PROVE  home'[m] < CallSlots /\ callStack'[home'[m]].LocalVarMap = m
    BY <1>2 DEF HomesFound
  <2>1. CASE m = n
    BY <1>1, <1>2, <2>1, FramesAssumption
  <2>2. CASE m # n
    <3>1. m \in DOMAIN varMaps /\ home'[m] = home[m] /\ m # 0
      BY <1>2, <2>2
    <3>2. home[m] > 0 /\ home[m] < CallSlots /\ callStack[home[m]].LocalVarMap = m
      BY <3>1 DEF MapsInv, HomesFound
    <3>3. home[m] \in 0 .. CallSlots - 1 /\ home[m] # d
      BY <3>1, <3>2, HomeType, FramesAssumption
    <3> QED BY <1>2, <3>1, <3>2, <3>3
  <2> QED BY <2>1, <2>2
<1>8. NoDanglingVarMap'
  <2> SUFFICES ASSUME NEW m \in 1 .. n, home'[m] = Gone
               PROVE  \A k \in Names : varMaps'[m].regs[k] = Unmapped
    BY <1>2 DEF NoDanglingVarMap, Mapped
  <2>1. m # n
    BY <1>1, <1>2 DEF Gone
  <2>2. m \in DOMAIN varMaps /\ home[m] = Gone /\ varMaps'[m] = varMaps[m]
    BY <1>2, <2>1
  <2> QED BY <2>2 DEF MapsInv, NoDanglingVarMap, Mapped
<1>9. CallersUncaptured'
  <2> SUFFICES ASSUME NEW e \in 1 .. callStackTop - 1 PROVE callStack'[e].LocalVarMap = 0
    BY <1>3 DEF CallersUncaptured
  <2>1. e \in 0 .. CallSlots - 1 /\ e # d
    BY <1>1, FramesAssumption DEF TypeOK
  <2> QED BY <1>2, <2>1 DEF MapsInv, CallersUncaptured
<1>10. CapturedBehind'
  <2> SUFFICES ASSUME callStackTop \in 1 .. CallSlots - 1, callStack'[callStackTop].LocalVarMap # 0
               PROVE  \E p \in 1 .. pc + 1 : /\ p \in DOMAIN Code[curFunc]
                                             /\ \E i \in Code[curFunc][p] : i.op \in Capturing
    BY <1>3 DEF CapturedBehind
  <2>1. CASE d = callStackTop
    <3>1. Fetches(Capturing)
      BY <1>1, <2>1
    <3>2. /\ pc + 1 \in DOMAIN Code[curFunc]
          /\ \E i \in Code[curFunc][pc + 1] : i.op \in Capturing
      BY <3>1 DEF Fetches, CodeAt
    <3>3. pc + 1 \in 1 .. pc + 1
      BY <1>3
    <3> QED BY <3>2, <3>3
  <2>2. CASE d # callStackTop
    <3>1. callStack[callStackTop].LocalVarMap # 0
      BY <1>2, <2>2
    <3>2. PICK p \in 1 .. pc : /\ p \in DOMAIN Code[curFunc]
                               /\ \E i \in Code[curFunc][p] : i.op \in Capturing
      BY <3>1 DEF MapsInv, CapturedBehind
    <3>3. p \in 1 .. pc + 1
      BY <1>3
    <3> QED BY <3>2, <3>3
  <2> QED BY <2>1, <2>2
<1>11. CalleesRun'
  <2> SUFFICES ASSUME NEW e \in 1 .. callStackTop PROVE FrameFunc(e)' \in Callees
    BY <1>3 DEF CalleesRun
  <2>1. FrameFunc(e)' = FrameFunc(e)
    <3>1. CASE e = callStackTop
      BY <1>3, <3>1 DEF FrameFunc
    <3>2. CASE e # callStackTop
      <4>1. e \in 0 .. CallSlots - 1
        BY <3>2, FramesAssumption DEF TypeOK
      <4> QED BY <1>4, <4>1
    <3> QED BY <3>1, <3>2
  <2> QED BY <2>1 DEF MapsInv, CalleesRun
<1>12. BoundOnly'
  <2> SUFFICES ASSUME NEW m \in 1 .. n, NEW k \in Names, varMaps'[m].regs[k] # Unmapped
               PROVE  varMaps'[m].items[k] = Absent
    BY <1>2 DEF BoundOnly, Mapped
  <2>1. CASE m = n
    BY <1>5, <2>1
  <2>2. CASE m # n
    <3>1. m \in DOMAIN varMaps /\ varMaps'[m] = varMaps[m]
      BY <1>2, <2>2
    <3> QED BY <3>1 DEF MapsInv, BoundOnly, Mapped
  <2> QED BY <2>1, <2>2
<1> QED BY <1>6, <1>7, <1>8, <1>9, <1>10, <1>11, <1>12 DEF MapsInv

\* In such programs no call is made from an activation with captured locals.
LEMMA CallerUncaptured ==
  ASSUME CapturesComeLast, TypeOK, MapsInv, Fetches(Calling), callStackTop \in 1 .. CallSlots - 1
  PROVE  callStack[callStackTop].LocalVarMap = 0
<1> SUFFICES ASSUME callStack[callStackTop].LocalVarMap # 0 PROVE FALSE
  OBVIOUS
<1>1. PICK p \in 1 .. pc : /\ p \in DOMAIN Code[curFunc]
                           /\ \E i \in Code[curFunc][p] : i.op \in Capturing
  BY DEF MapsInv, CapturedBehind
<1>2. /\ pc + 1 \in DOMAIN Code[curFunc]
      /\ \E j \in Code[curFunc][pc + 1] : j.op \in Calling
  BY DEF Fetches, CodeAt
<1>3. curFunc \in Funcs \cap Callees
  BY DEF MapsInv, CalleesRun, FrameFunc, TypeOK
<1>4. p < pc + 1
  BY DEF TypeOK
<1> QED BY <1>1, <1>2, <1>3, <1>4 DEF CapturesComeLast

\* A call loses no map but @main's, and starts without one.
LEMMA MapsPush ==
  ASSUME CapturesComeLast, TypeOK, FrameChain, MapsInv, Pushes
  PROVE  MapsInv'
<1> PICK t : t = callStackTop   \* rigid
  OBVIOUS
<1>1. PICK callee \in Funcs \cap Callees, base \in Nat, returnPC \in 1 .. Len(Code[curFunc]),
           reg \in Int, outer \in Handles :
        PushFrame(callee, callee, base, returnPC, reg, outer)
  BY DEF Pushes
<1>2. /\ t \in 0 .. CallSlots - 1 /\ t \in Nat /\ callStackTop' = t + 1
      /\ \A d \in 0 .. t : FrameBase(d)' = FrameBase(d) /\ FrameFunc(d)' = FrameFunc(d)
      /\ FrameFunc(t + 1)' = callee
  BY <1>1, PushFrames DEF Pushes
<1>3. UNCHANGED <<varMaps, home>>
  BY <1>1 DEF PushFrame, maps
<1>4. /\ callStack'[t].LocalVarMap = 0
      /\ \A e \in 0 .. CallSlots - 1 : e # t => callStack'[e] = callStack[e]
  BY <1>1, <1>2 DEF PushFrame, CallInfo, TypeOK
<1>5. t \in 1 .. CallSlots - 1 => callStack[t].LocalVarMap = 0
  BY <1>2, CallerUncaptured DEF Pushes
<1>6. LocalsPlaced'
  <2>1. ASSUME NEW e \in 0 .. CallSlots - 1, NEW m, m = callStack'[e].LocalVarMap, m # 0
        PROVE  /\ e <= callStackTop' /\ home'[m] = e
               /\ \A k \in Names : varMaps'[m].regs[k] # Unmapped =>
                                    varMaps'[m].regs[k] \in Window(e)'
    <3>1. e # t /\ m = callStack[e].LocalVarMap
      BY <1>4, <2>1
    <3>2. /\ e <= t /\ home[m] = e
          /\ \A k \in Names : varMaps[m].regs[k] # Unmapped => varMaps[m].regs[k] \in Window(e)
      BY <2>1, <3>1 DEF MapsInv, LocalsPlaced, Mapped
    <3>3. Window(e)' = Window(e) /\ e <= t + 1
      BY <1>2, <3>2 DEF Window
    <3> QED BY <1>2, <1>3, <3>2, <3>3
  <2> QED BY <2>1 DEF LocalsPlaced, Mapped
<1>7. HomesFound'
  <2> SUFFICES ASSUME NEW m \in DOMAIN varMaps, home[m] > 0
               PROVE  home[m] < CallSlots /\ callStack'[home[m]].LocalVarMap = m
    BY <1>3 DEF HomesFound
  <2>1. home[m] < CallSlots /\ callStack[home[m]].LocalVarMap = m
    BY DEF MapsInv, HomesFound
  <2>2. m # 0 /\ home[m] \in 1 .. CallSlots - 1
    <3>1. DOMAIN varMaps = 1 .. Len(varMaps) /\ Len(varMaps) \in Nat
      BY LenProperties DEF TypeOK
    <3> QED BY <2>1, <3>1, HomeType, FramesAssumption
  <2>3. home[m] # t
    BY <1>5, <2>1, <2>2
  <2> QED BY <1>4, <2>1, <2>2, <2>3
<1>8. NoDanglingVarMap' /\ BoundOnly'
  BY <1>3 DEF MapsInv, NoDanglingVarMap, BoundOnly, Mapped
<1>9. CallersUncaptured'
  <2> SUFFICES ASSUME NEW e \in 1 .. t PROVE callStack'[e].LocalVarMap = 0
    BY <1>2 DEF CallersUncaptured
  <2>1. e # t => e \in 1 .. callStackTop - 1 /\ e \in 0 .. CallSlots - 1
    BY <1>2, FramesAssumption
  <2> QED BY <1>4, <2>1 DEF MapsInv, CallersUncaptured
<1>10. CapturedBehind'
  <2> SUFFICES ASSUME t + 1 \in 1 .. CallSlots - 1 PROVE callStack'[t + 1].LocalVarMap = 0
    BY <1>2 DEF CapturedBehind
  <2>1. callStack'[t + 1] = callStack[t + 1]
    BY <1>2, <1>4
  <2>2. ~(t + 1 <= callStackTop)
    BY <1>2
  <2> QED BY <2>1, <2>2 DEF MapsInv, LocalsPlaced
<1>11. CalleesRun'
  <2> SUFFICES ASSUME NEW e \in 1 .. t + 1 PROVE FrameFunc(e)' \in Callees
    BY <1>2 DEF CalleesRun
  <2>1. e # t + 1 => e \in 0 .. t /\ e \in 1 .. callStackTop
    BY <1>2
  <2> QED BY <1>1, <1>2, <2>1 DEF MapsInv, CalleesRun
<1> QED BY <1>6, <1>7, <1>8, <1>9, <1>10, <1>11 DEF MapsInv

\* What a return does to the maps.
LEMMA GatherDone ==
  ASSUME TypeOK, Return
  PROVE  /\ callStackTop \in 1 .. CallSlots - 1
         /\ callStack'[callStackTop].LocalVarMap = 0
         /\ \A e \in 0 .. CallSlots - 1 : e # callStackTop => callStack'[e] = callStack[e]
         /\ DOMAIN varMaps' = DOMAIN varMaps /\ DOMAIN home' = DOMAIN varMaps
         /\ \A m \in DOMAIN varMaps :
              /\ varMaps'[m] = IF m = callStack[callStackTop].LocalVarMap
                               THEN Gather(m) ELSE varMaps[m]
              /\ home'[m] = IF home[m] = callStackTop THEN Gone ELSE home[m]
<1> PICK t : t = callStackTop   \* rigid
  OBVIOUS
<1>1. t \in 1 .. CallSlots - 1
  <2>1. PICK i \in At("RETURN") : callStackTop > 0
    BY DEF Return
  <2>2. CanReturn
    BY <2>1, FetchedAt DEF TypeOK, InRange
  <2> QED BY <2>1, <2>2, FramesAssumption DEF CanReturn, TypeOK
<1>2. callStack' = [callStack EXCEPT ![t].LocalVarMap = 0] /\ callStack[t] \in Infos
  BY <1>1 DEF Return, ForgetLocals, TypeOK
<1>3. /\ callStack'[t].LocalVarMap = 0
      /\ \A e \in 0 .. CallSlots - 1 : e # t => callStack'[e] = callStack[e]
  BY <1>1, <1>2 DEF TypeOK, Infos
<1>4. /\ home' = [m \in DOMAIN home |-> IF home[m] = t THEN Gone ELSE home[m]]
      /\ DOMAIN home = DOMAIN varMaps
  BY DEF Return, TypeOK
<1> PICK x : x = callStack[t].LocalVarMap
  OBVIOUS
<1>5. varMaps' = IF x = 0 THEN varMaps ELSE [varMaps EXCEPT ![x] = Gather(x)]
  BY DEF Return
<1>6. DOMAIN varMaps = 1 .. Len(varMaps) /\ Len(varMaps) \in Nat
  BY LenProperties DEF TypeOK
<1>7. \A m \in DOMAIN varMaps : varMaps'[m] = IF m = x THEN Gather(m) ELSE varMaps[m]
  BY <1>5, <1>6
<1>8. DOMAIN varMaps' = DOMAIN varMaps
  BY <1>5
<1> QED BY <1>1, <1>3, <1>4, <1>7, <1>8

\* A return gathers the one map of the activation that ends.
LEMMA MapsReturn ==
  ASSUME TypeOK, MapsInv, Return
  PROVE  MapsInv'
<1> PICK t : t = callStackTop - 1   \* rigid
  OBVIOUS
<1>1. /\ callStackTop = t + 1 /\ t \in Nat /\ t + 1 \in 1 .. CallSlots - 1 /\ callStackTop' = t
      /\ \A d \in 0 .. t : FrameBase(d)' = FrameBase(d) /\ FrameFunc(d)' = FrameFunc(d)
  BY ReturnFrames, GatherDone
<1> PICK x : x = callStack[t + 1].LocalVarMap
  OBVIOUS
<1>2. /\ callStack'[t + 1].LocalVarMap = 0
      /\ \A e \in 0 .. CallSlots - 1 : e # t + 1 => callStack'[e] = callStack[e]
      /\ DOMAIN varMaps' = DOMAIN varMaps
      /\ \A m \in DOMAIN varMaps :
           /\ varMaps'[m] = IF m = x THEN Gather(m) ELSE varMaps[m]
           /\ home'[m] = IF home[m] = t + 1 THEN Gone ELSE home[m]
  BY <1>1, GatherDone
<1>3. DOMAIN varMaps = 1 .. Len(varMaps) /\ Len(varMaps) \in Nat
  BY LenProperties DEF TypeOK
<1>4. x # 0 => home[x] = t + 1
  BY <1>1 DEF MapsInv, LocalsPlaced
<1>5. LocalsPlaced'
  <2>1. ASSUME NEW e \in 0 .. CallSlots - 1, NEW m, m = callStack'[e].LocalVarMap, m # 0
        PROVE  /\ e <= callStackTop' /\ home'[m] = e
               /\ \A k \in Names : varMaps'[m].regs[k] # Unmapped =>
                                    varMaps'[m].regs[k] \in Window(e)'
    <3>1. e # t + 1 /\ m = callStack[e].LocalVarMap
      BY <1>2, <2>1
    <3>2. /\ e <= t + 1 /\ home[m] = e
          /\ \A k \in Names : varMaps[m].regs[k] # Unmapped => varMaps[m].regs[k] \in Window(e)
      BY <1>1, <2>1, <3>1 DEF MapsInv, LocalsPlaced, Mapped
    <3>3. e \in 0 .. t /\ m \in DOMAIN varMaps /\ m # x
      BY <1>1, <1>4, <2>1, <3>1, <3>2, MapHandle
    <3>4. Window(e)' = Window(e)
      BY <1>1, <3>3 DEF Window
    <3> QED BY <1>1, <1>2, <3>1, <3>2, <3>3, <3>4
  <2> QED BY <2>1 DEF LocalsPlaced, Mapped
<1>6. HomesFound'
  <2> SUFFICES ASSUME NEW m \in DOMAIN varMaps, home'[m] > 0
               PROVE  home'[m] < CallSlots /\ callStack'[home'[m]].LocalVarMap = m
    BY <1>2 DEF HomesFound
  <2>1. home[m] # t + 1 /\ home'[m] = home[m]
    BY <1>2 DEF Gone
  <2>2. home[m] < CallSlots /\ callStack[home[m]].LocalVarMap = m
    BY <2>1 DEF MapsInv, HomesFound
  <2>3. home[m] \in 0 .. CallSlots - 1
    BY <2>1, <2>2, HomeType, FramesAssumption
  <2> QED BY <1>2, <2>1, <2>2, <2>3
<1>7. NoDanglingVarMap'
  <2> SUFFICES ASSUME NEW m \in DOMAIN varMaps, home'[m] = Gone, NEW k \in Names
               PROVE  varMaps'[m].regs[k] = Unmapped
    BY <1>2 DEF NoDanglingVarMap, Mapped
  <2>1. CASE home[m] = t + 1
    <3>1. m = x
      BY <1>1, <2>1 DEF MapsInv, HomesFound
    <3> QED BY <1>2, <3>1 DEF Gather
  <2>2. CASE home[m] # t + 1
    <3>1. home[m] = Gone
      BY <1>2, <2>2
    <3>2. m # x
      BY <1>1, <1>3, <1>4, <3>1 DEF Gone
    <3> QED BY <1>2, <3>1, <3>2 DEF MapsInv, NoDanglingVarMap, Mapped
  <2> QED BY <2>1, <2>2
<1>8. CallersUncaptured'
  <2> SUFFICES ASSUME NEW e \in 1 .. t - 1 PROVE callStack'[e].LocalVarMap = 0
    BY <1>1 DEF CallersUncaptured
  <2>1. e \in 0 .. CallSlots - 1 /\ e # t + 1 /\ e \in 1 .. callStackTop - 1
    BY <1>1, FramesAssumption
  <2> QED BY <1>2, <2>1 DEF MapsInv, CallersUncaptured
<1>9. CapturedBehind'
  <2> SUFFICES ASSUME t \in 1 .. CallSlots - 1 PROVE callStack'[t].LocalVarMap = 0
    BY <1>1 DEF CapturedBehind
  <2>1. t \in 0 .. CallSlots - 1 /\ t # t + 1 /\ t \in 1 .. callStackTop - 1
    BY <1>1
  <2> QED BY <1>2, <2>1 DEF MapsInv, CallersUncaptured
<1>10. CalleesRun'
  <2> SUFFICES ASSUME NEW e \in 1 .. t PROVE FrameFunc(e)' \in Callees
    BY <1>1 DEF CalleesRun
  <2>1. e \in 0 .. t /\ e \in 1 .. callStackTop
    BY <1>1
  <2> QED BY <1>1, <2>1 DEF MapsInv, CalleesRun
<1>11. BoundOnly'
  <2> SUFFICES ASSUME NEW m \in DOMAIN varMaps, NEW k \in Names, varMaps'[m].regs[k] # Unmapped
               PROVE  varMaps'[m].items[k] = Absent
    BY <1>2 DEF BoundOnly, Mapped
  <2>1. m # x
    BY <1>2 DEF Gather
  <2> QED BY <1>2, <2>1 DEF MapsInv, BoundOnly, Mapped
<1> QED BY <1>5, <1>6, <1>7, <1>8, <1>9, <1>10, <1>11 DEF MapsInv

LEMMA MapsStep ==
  ASSUME WindowsAboveFuncRef, CapturesComeLast
  PROVE  TypeOK /\ FrameChain /\ MainRecord /\ MapsInv /\ [Next]_vars /\ TypeOK' => MapsInv'
<1> SUFFICES ASSUME TypeOK, FrameChain, MainRecord, MapsInv, [Next]_vars, TypeOK'
             PROVE  MapsInv'
  OBVIOUS
<1>1. Stays \/ Captures \/ Pushes \/ Return
  BY StepKinds
<1>2. pc' \in Nat
  BY DEF TypeOK
<1> QED BY <1>1, <1>2, MapsStay, MapsCapture, MapsPush, MapsReturn

LEMMA MapsReach == TypeOK /\ MapsInv => VarMapsReachOwnFrame
<1> SUFFICES ASSUME TypeOK, MapsInv PROVE LocalsInOwnFrame
  BY DEF VarMapsReachOwnFrame, MapsInv
<1> QED BY DEF MapsInv, LocalsPlaced, LocalsInOwnFrame

\* A map of locals reaches registers of its own activation's window only, and
\* none once that activation returned, whatever captures, calls and returns
\* the program makes and however often call stack slots are reused: as long as
\* no function that captures its locals makes a call after that.
THEOREM MapsReachOwnFrame ==
  WindowsAboveFuncRef /\ CapturesComeLast => (Spec => []VarMapsReachOwnFrame)
<1> SUFFICES ASSUME WindowsAboveFuncRef, CapturesComeLast
             PROVE  Spec => []VarMapsReachOwnFrame
  OBVIOUS
<1>1. Init => MainRecord
  BY FramesAssumption DEF Init, MainRecord, CallInfo
<1>2. TypeOK /\ FrameChain /\ MainRecord /\ TypeOK' /\ [Next]_vars => FrameChain' /\ MainRecord'
  BY ChainStep
<1>3. TypeOK /\ FrameChain /\ MainRecord /\ MapsInv /\ [Next]_vars /\ TypeOK' => MapsInv'
  BY MapsStep
<1> QED
  BY <1>1, <1>2, <1>3, ChainInit, MapsInit, MapsReach, TypeCorrect, PTL DEF Spec

-----------------------------------------------------------------------------
(* What a callee finds in its window.                                      *)

LEMMA WindowSizeBounds ==
  ASSUME NEW f \in Funcs
  PROVE  /\ WindowSize(f) \in Nat /\ MaxRegs[f] <= WindowSize(f)
         /\ MaxRegs[f] \in Nat /\ Len(ParamNames[f]) \in Nat
<1>1. MaxRegs[f] \in Nat /\ Len(ParamNames[f]) \in Nat
  BY MaxRegsNat, ParamAssumption, LenProperties
<1> DEFINE S  == {1, Len(ParamNames[f]) + 1, MaxRegs[f]}
           hi == 1 + Len(ParamNames[f]) + MaxRegs[f]
<1>2. S \in SUBSET (0 .. hi) /\ S # {} /\ 0 \in Int /\ hi \in Int /\ MaxRegs[f] \in S
  BY <1>1
<1>3. WindowSize(f) = Max(S)
  BY DEF WindowSize
<1> HIDE DEF S, hi
<1>4. Max(S) \in S /\ Max(S) >= MaxRegs[f]
  BY <1>2, MaxBounded
<1>5. Max(S) \in 0 .. hi
  BY <1>2, <1>4
<1>6. Max(S) \in Nat
  BY <1>2, <1>5
<1> QED BY <1>1, <1>3, <1>4, <1>6

\* SetupCallFrame clears what is not a parameter.
LEMMA SetupFresh ==
  ASSUME NEW f \in Funcs, NEW base \in Nat, Fits(base, WindowSize(f)), NEW st, NEW nm, NEW n \in Nat,
         NEW r \in 0 .. MaxRegs[f] - 1, r \notin 1 .. Len(ParamNames[f])
  PROVE  SetupStack(st, f, base, n)[base + r] = Null /\ SetupNames(nm, f, base, n)[base + r] = NoName
<1>1. base + r \in Slots /\ Cleared(f, base, base + r)
  BY WindowSizeBounds, FramesAssumption DEF Fits, Slots, Cleared
<1> DEFINE s == base + r
<1>2. s \in Slots /\ Cleared(f, base, s) /\ ~DefaultFrom(f, base, n, s)
  BY <1>1, WindowSizeBounds DEF DefaultFrom
<1> HIDE DEF s
<1>3. SetupStack(st, f, base, n)[s] = Null
  BY <1>2 DEF SetupStack
<1>4. SetupNames(nm, f, base, n)[s] = NoName
  BY <1>2 DEF SetupNames
<1> QED BY <1>3, <1>4 DEF s

Fresh == IsCall => (CallF /\ UNCHANGED <<stack, names>>) \/ FreshFor(curFunc')

LEMMA CanCallFits ==
  ASSUME NEW call, NEW n, NEW args, CanCall(call, n, args), Callable(Reg(call.c)),
         n <= Len(ParamNames[Reg(call.c).n]), Len(args) = n
  PROVE  Fits(baseIndex + call.b, WindowSize(Reg(call.c).n))
BY DEF CanCall

LEMMA SetupIsFresh ==
  ASSUME NEW f \in Funcs, NEW base \in Nat, Fits(base, WindowSize(f)), NEW st, NEW nm, NEW n \in Nat,
         stack' = SetupStack(st, f, base, n), names' = SetupNames(nm, f, base, n),
         baseIndex' = base
  PROVE  FreshFor(f)
<1> SUFFICES ASSUME NEW r \in 0 .. MaxRegs[f] - 1, r \notin 1 .. Len(ParamNames[f])
             PROVE  stack'[base + r] = Null /\ names'[base + r] = NoName
  BY DEF FreshFor
<1>1. /\ SetupStack(st, f, base, n)[base + r] = Null
      /\ SetupNames(nm, f, base, n)[base + r] = NoName
  BY SetupFresh
<1> QED BY <1>1

LEMMA CallFresh == TypeOK /\ Call => Fresh
<1> SUFFICES ASSUME TypeOK, IsCall, NEW i \in At("CALL"),
                    Callable(Reg(i.c)),
                    stack' = SetupStack(stack, Reg(i.c).n, baseIndex + i.b, 0),
                    names' = SetupNames(names, Reg(i.c).n, baseIndex + i.b, 0),
                    baseIndex' = baseIndex + i.b, curFunc' = Reg(i.c).n
             PROVE  FreshFor(curFunc')
  BY DEF Call, Fresh, IsCall, calls, Leave, PushFrame, TypeOK
<1> DEFINE v == Reg(i.c)
           base == baseIndex + i.b
<1>1. i.op = "CALL" /\ InRange(i) /\ base \in Nat
  BY FetchedAt DEF TypeOK
<1>2. v.n \in Funcs
  BY DEF Callable
<1>3. Fits(base, WindowSize(v.n))
  <2>1. CanCall(i, 0, <<>>)
    BY <1>1 DEF InRange
  <2>2. Len(<<>>) = 0 /\ 0 <= Len(ParamNames[v.n])
    BY <1>2, WindowSizeBounds
  <2> QED BY <2>1, <2>2, CanCallFits
<1>4. stack' = SetupStack(stack, v.n, base, 0) /\ names' = SetupNames(names, v.n, base, 0)
      /\ baseIndex' = base /\ curFunc' = v.n
  OBVIOUS
<1> HIDE DEF v, base
<1>5. FreshFor(v.n)
  BY <1>1, <1>2, <1>3, <1>4, SetupIsFresh
<1> QED BY <1>4, <1>5 DEF FreshFor

ArgBlkCopying(i, args, call, vals) ==
  LET v     == Reg(call.c)
      base  == baseIndex + call.b
      copied == ArgStack(vals, base)
      named  == ArgNames(vals, v.n, base)
      again  == SetupStack(copied, v.n, base, i.a)[baseIndex + call.c]
  IN  \/ /\ Len(args) < i.a
         /\ stack' = copied /\ names' = named
         /\ Leave("error")
      \/ /\ Len(args) = i.a
         /\ stack' = SetupStack(copied, v.n, base, i.a)
         /\ names' = SetupNames(named, v.n, base, i.a)
         /\ IF Full THEN Leave("error")
            ELSE PushFrame(v.n, funcref_index(again), base,
                           pc + i.a + 2, call.a, funcref_outer_vars(again))

\* ArgBlk's step for the ARGs and the CALL it found.
ArgBlkWith(i, args, call) ==
  LET v     == Reg(call.c)
      legal == call.op = "CALL" /\ Callable(v) /\ i.a <= Len(ParamNames[v.n])
  IN  /\ call.op = "CALL" => CanCall(call, i.a, args)
      /\ \/ ~legal /\ Leave("error") /\ UNCHANGED <<stack, names>>
         \/ /\ legal
            /\ \E vals \in Copies(args, baseIndex + call.b) : ArgBlkCopying(i, args, call, vals)

LEMMA ArgBlkFound ==
  ArgBlk => \E i \in At("ARGBLK") : \E args \in ArgsOf(i) : \E call \in CodeAt(curFunc, pc + 1 + i.a) :
              ArgBlkWith(i, args, call)
BY DEF ArgBlk, ArgBlkWith, ArgBlkCopying

LEMMA ArgBlkFresh == TypeOK /\ ArgBlk => Fresh
<1> SUFFICES ASSUME TypeOK, ArgBlk, callStackTop' # callStackTop
             PROVE  FreshFor(curFunc')
  BY DEF Fresh, IsCall, TypeOK
<1>a. PICK i, args, call : /\ i \in At("ARGBLK") /\ args \in ArgsOf(i)
                           /\ call \in CodeAt(curFunc, pc + 1 + i.a)
                           /\ ArgBlkWith(i, args, call)
  BY ArgBlkFound
<1>b. \A s : ~Leave(s)
  BY DEF Leave, calls
<1>c. /\ call.op = "CALL" /\ Callable(Reg(call.c)) /\ i.a <= Len(ParamNames[Reg(call.c).n])
      /\ CanCall(call, i.a, args)
  BY <1>a, <1>b DEF ArgBlkWith
<1>d. PICK vals : ArgBlkCopying(i, args, call, vals)
  BY <1>a, <1>b, <1>c DEF ArgBlkWith
<1>e. PICK copied, named :
        /\ Len(args) = i.a
        /\ stack' = SetupStack(copied, Reg(call.c).n, baseIndex + call.b, i.a)
        /\ names' = SetupNames(named, Reg(call.c).n, baseIndex + call.b, i.a)
        /\ baseIndex' = baseIndex + call.b /\ curFunc' = Reg(call.c).n
  BY <1>b, <1>d DEF ArgBlkCopying, PushFrame
<1> DEFINE v == Reg(call.c)
           base == baseIndex + call.b
<1>1. i.a \in Nat /\ pc + 1 + i.a \in Nat
  BY <1>a, FetchedAt DEF TypeOK
<1>2. base \in Nat /\ v.n \in Funcs
  BY <1>1, <1>a, <1>c, Fetched DEF TypeOK, Callable
<1>3. Fits(base, WindowSize(v.n))
  BY <1>c, <1>e DEF CanCall
<1>4. stack' = SetupStack(copied, v.n, base, i.a) /\ names' = SetupNames(named, v.n, base, i.a)
      /\ baseIndex' = base /\ curFunc' = v.n
  BY <1>e
<1> HIDE DEF v, base
<1>5. FreshFor(v.n)
  BY <1>1, <1>2, <1>3, <1>4, SetupIsFresh
<1> QED BY <1>4, <1>5 DEF FreshFor

\* LoadC's step for the value and the base it found, and its last disjunct.
LoadCWith(i, v, base) ==
  \/ SetReg(i.a, v) /\ UNCHANGED calls
  \/ \E s : Leave(s)
  \/ /\ Callable(v) /\ ~Full
     /\ stack' = [s \in Slots |-> IF s - base \in 0 .. MaxRegs[v.n] - 1 THEN Null ELSE stack[s]]
     /\ names' = [s \in Slots |-> IF s - base \in 0 .. MaxRegs[v.n] - 1 THEN NoName ELSE names[s]]
     /\ PushFrame(v.n, v.n, base, pc + 1, i.a, v.outer)
LoadCEnters(i, v, base) ==
  /\ v = VarValue(i) /\ Callable(v) /\ ~Full /\ base = baseIndex + MaxRegs[curFunc]
  /\ stack' = [s \in Slots |-> IF s - base \in 0 .. MaxRegs[v.n] - 1 THEN Null ELSE stack[s]]
  /\ names' = [s \in Slots |-> IF s - base \in 0 .. MaxRegs[v.n] - 1 THEN NoName ELSE names[s]]
  /\ baseIndex' = base /\ curFunc' = v.n

LEMMA LoadCFresh == TypeOK /\ LoadC => Fresh
<1> SUFFICES ASSUME TypeOK, NEW i \in At("LOADC"), NEW v, v = VarValue(i), Callable(v), ~Full,
                    NEW base, base = baseIndex + MaxRegs[curFunc],
                    stack' = [s \in Slots |-> IF s - base \in 0 .. MaxRegs[v.n] - 1
                                              THEN Null ELSE stack[s]],
                    names' = [s \in Slots |-> IF s - base \in 0 .. MaxRegs[v.n] - 1
                                              THEN NoName ELSE names[s]],
                    baseIndex' = base, curFunc' = v.n
             PROVE  FreshFor(curFunc')
  <2> SUFFICES ASSUME TypeOK, LoadC, callStackTop' # callStackTop
               PROVE  \E i \in At("LOADC") : \E v, base : LoadCEnters(i, v, base)
    BY DEF Fresh, IsCall, TypeOK, LoadCEnters
  <2>1. PICK i \in At("LOADC") : LoadCWith(i, VarValue(i), ImplicitBase)
    BY DEF LoadC, LoadCWith
  <2>2. LoadCEnters(i, VarValue(i), ImplicitBase)
    BY <2>1 DEF LoadCWith, LoadCEnters, Leave, PushFrame, calls, ImplicitBase
  <2> QED BY <2>2
<1>1. i.op = "LOADC" /\ InRange(i)
  BY FetchedAt DEF TypeOK
<1>2. VarKnown(i)
  <2> SUFFICES ASSUME ~VarKnown(i) PROVE VarValue(i) = Null
    BY DEF Callable, Null
  <2> QED BY DEF VarKnown, VarValue, LookupVariable
<1>3. Fits(base, MaxRegs[v.n])
  <2>1. CanImplicitCall(i)
    BY <1>1 DEF InRange
  <2>2. callStackTop < CallSlots
    BY FramesAssumption DEF Full, TypeOK
  <2> QED BY <1>2, <2>1, <2>2 DEF CanImplicitCall
<1>4. base \in Nat /\ MaxRegs[v.n] \in Nat
  BY MaxRegsNat DEF TypeOK, Callable
<1>5. \A r \in 0 .. MaxRegs[v.n] - 1 : base + r \in Slots /\ (base + r) - base = r
  BY <1>3, <1>4, FramesAssumption DEF Fits, Slots
<1> QED BY <1>5 DEF FreshFor

\* CALLF leaves every slot as it was; no other step calls.
LEMMA OthersFresh ==
  ASSUME TypeOK, [Next]_vars, ~(Call \/ ArgBlk \/ LoadC)
  PROVE  Fresh
<1>1. CASE CallF
  <2>1. UNCHANGED <<stack, names>>
    BY <1>1 DEF CallF
  <2> QED BY <1>1, <2>1 DEF Fresh
<1>2. CASE Return
  BY <1>2 DEF Fresh, IsCall, Return, TypeOK
<1>3. CASE ~CallF /\ ~Return
  <2>1. callStackTop' = callStackTop
    BY <1>3 DEF Next, vars, Load, Assign, Name, LoadV, FuncRef, Locals, Outer, Globals,
                Index, IdxSet, Remove, CallError, ReturnFromMain, OutOfCode, Crash, Leave, calls
  <2> QED BY <2>1 DEF Fresh, IsCall, TypeOK
<1> QED BY <1>1, <1>2, <1>3

\* A callee entered by CALL, ARGBLK or LOADC never meets a value or a name that
\* an earlier activation left in its window, but in its parameters; one entered by
\* CALLF meets whatever was in its window.
THEOREM FreshWindowCorrect == Spec => FreshWindow
<1>1. TypeOK /\ [Next]_vars => Fresh
  BY CallFresh, ArgBlkFresh, LoadCFresh, OthersFresh
<1>2. TypeOK /\ [Next]_vars => [Fresh]_vars
  BY <1>1
<1> QED BY <1>2, TypeCorrect, PTL DEF Spec, FreshWindow, Fresh

-----------------------------------------------------------------------------
(* What a caller finds when it resumes.                                    *)

\* No slot below lo changes, in value or name.
Untouched(lo) == \A s \in Slots : s < lo => stack'[s] = stack[s] /\ names'[s] = names[s]

\* Nor one that no map binds a key to.
UntouchedButBound ==
  \A s \in Slots : s < baseIndex /\ (stack'[s] # stack[s] \/ names'[s] # names[s]) => s \in Bound

\* A register of the running window is set, named or both.
WritesRegister(r) ==
  /\ UNCHANGED stack \/ \E v : SetReg(r, v)
  /\ UNCHANGED names \/ \E k : NameReg(r, k)

LEMMA RegisterWritten ==
  ASSUME TypeOK, NEW r \in Nat, WritesRegister(r)
  PROVE  Untouched(baseIndex)
<1> SUFFICES ASSUME NEW s \in Slots, s < baseIndex
             PROVE  stack'[s] = stack[s] /\ names'[s] = names[s]
  BY DEF Untouched
<1>1. s # baseIndex + r
  BY DEF TypeOK, Slots
<1>2. stack'[s] = stack[s]
  BY <1>1 DEF WritesRegister, SetReg, TypeOK
<1>3. names'[s] = names[s]
  BY <1>1 DEF WritesRegister, NameReg, TypeOK
<1> QED BY <1>2, <1>3

LEMMA SameUntouched == ASSUME UNCHANGED <<stack, names>>, NEW lo PROVE Untouched(lo)
BY DEF Untouched

\* The opcodes that stay in the frame, but the two that go through a map.
InFrame == Load \/ Assign \/ Name \/ LoadV \/ FuncRef \/ Locals \/ Outer \/ Globals \/ Index

LEMMA InFrameWrites == TypeOK /\ InFrame => \E r \in Nat : WritesRegister(r)
<1> SUFFICES ASSUME TypeOK, InFrame PROVE \E r \in Nat : WritesRegister(r)
  OBVIOUS
<1>1. \A op : \A i \in At(op) : i.a \in Nat
  BY FetchedAt DEF TypeOK
<1>2. CASE Load
  BY <1>1, <1>2, Zenon DEF Load, WritesRegister
<1>3. CASE Assign
  BY <1>1, <1>3, Zenon DEF Assign, WritesRegister
<1>4. CASE Name
  BY <1>1, <1>4, Zenon DEF Name, WritesRegister
<1>5. CASE LoadV
  BY <1>1, <1>5, Zenon DEF LoadV, WritesRegister
<1>6. CASE FuncRef
  BY <1>1, <1>6, Zenon DEF FuncRef, WritesRegister
<1>7. CASE Locals
  BY <1>1, <1>7, Zenon DEF Locals, WritesRegister
<1>8. CASE Outer
  BY <1>1, <1>8, Zenon DEF Outer, WritesRegister
<1>9. CASE Globals
  BY <1>1, <1>9, Zenon DEF Globals, WritesRegister
<1>10. CASE Index
  BY <1>1, <1>10, Zenon DEF Index, WritesRegister
<1> QED BY <1>2, <1>3, <1>4, <1>5, <1>6, <1>7, <1>8, <1>9, <1>10 DEF InFrame

\* Through a map a step writes a slot some key is bound to.
LEMMA BoundSlot ==
  ASSUME NEW m \in DOMAIN varMaps, NEW k \in Names
  PROVE  varMaps[m].regs[k] \in Bound
BY DEF Bound

LEMMA IdxSetWrites == TypeOK /\ IdxSet => UntouchedButBound
<1> SUFFICES ASSUME TypeOK, NEW i \in At("IDXSET"),
                    \/ UNCHANGED <<stack, names>>
                    \/ Reg(i.a).kind = "map" /\ MapSet(Reg(i.a).n, i.c, Reg(i.b))
             PROVE  UntouchedButBound
  BY DEF IdxSet
<1>1. i.a \in Nat /\ i.c \in Names /\ baseIndex + i.a \in Slots
  BY FetchedAt DEF TypeOK, Naming, InRange, Operands
<1>2. CASE UNCHANGED <<stack, names>>
  BY <1>2 DEF UntouchedButBound
<1>3. CASE Reg(i.a).kind = "map" /\ MapSet(Reg(i.a).n, i.c, Reg(i.b))
  <2> PICK m : m = Reg(i.a).n
    OBVIOUS
  <2> PICK t : t = varMaps[m].regs[i.c]
    OBVIOUS
  <2>1. m \in DOMAIN varMaps
    BY <1>1, <1>3, MapInReg
  <2>2. t \in Bound
    BY <1>1, <2>1, BoundSlot
  <2>3. \A s \in Slots : s # t => stack'[s] = stack[s] /\ names'[s] = names[s]
    BY <1>3 DEF MapSet, TypeOK
  <2> QED BY <2>2, <2>3 DEF UntouchedButBound
<1> QED BY <1>2, <1>3

LEMMA RemoveWrites == TypeOK /\ Remove => UntouchedButBound
<1> SUFFICES ASSUME TypeOK, Remove PROVE UntouchedButBound
  OBVIOUS
<1>1. PICK i \in At("REMOVE") :
        /\ \/ UNCHANGED names
           \/ /\ Reg(i.a).kind = "map"
              /\ names' = [names EXCEPT ![varMaps[Reg(i.a).n].regs[i.c]] = NoName]
        /\ \E v : SetReg(i.a, v)
  BY DEF Remove
<1>2. i.a \in Nat /\ i.c \in Names /\ baseIndex + i.a \in Slots
  BY FetchedAt DEF TypeOK, Naming, InRange, Operands
<1>3. \A s \in Slots : s < baseIndex => stack'[s] = stack[s]
  <2> SUFFICES ASSUME NEW s \in Slots, s < baseIndex PROVE stack'[s] = stack[s]
    OBVIOUS
  <2>1. s # baseIndex + i.a
    BY <1>2 DEF TypeOK, Slots
  <2> QED BY <1>1, <2>1 DEF SetReg, TypeOK
<1>4. CASE UNCHANGED names
  BY <1>3, <1>4 DEF UntouchedButBound
<1>5. CASE /\ Reg(i.a).kind = "map"
           /\ names' = [names EXCEPT ![varMaps[Reg(i.a).n].regs[i.c]] = NoName]
  <2> PICK t : t = varMaps[Reg(i.a).n].regs[i.c]
    OBVIOUS
  <2>1. t \in Bound
    BY <1>2, <1>5, MapInReg, BoundSlot
  <2>2. \A s \in Slots : s # t => names'[s] = names[s]
    BY <1>5 DEF TypeOK
  <2> QED BY <1>3, <2>1, <2>2 DEF UntouchedButBound
<1> QED BY <1>1, <1>4, <1>5

\* Setting up a window touches nothing below it.
LEMMA SetupUntouched ==
  ASSUME NEW f \in Funcs, NEW base \in Nat, NEW n \in Nat, NEW st, NEW nm,
         NEW s \in Slots, s < base
  PROVE  SetupStack(st, f, base, n)[s] = st[s] /\ SetupNames(nm, f, base, n)[s] = nm[s]
<1>1. Len(ParamNames[f]) \in Nat
  BY ParamAssumption, LenProperties
<1>2. ~Cleared(f, base, s) /\ ~DefaultFrom(f, base, n, s)
  BY <1>1, MaxRegsNat DEF Cleared, DefaultFrom, Slots
<1> QED BY <1>2 DEF SetupStack, SetupNames

LEMMA ArgsUntouched ==
  ASSUME NEW base \in Nat, NEW args, DOMAIN args = 1 .. Len(args), Len(args) \in Nat,
         NEW vals \in Copies(args, base), NEW f, NEW s \in Slots, s < base
  PROVE  ArgStack(vals, base)[s] = stack[s] /\ ArgNames(vals, f, base)[s] = names[s]
<1>1. DOMAIN vals = 1 .. Len(args)
  BY DEF Copies
<1>2. s - base \notin DOMAIN vals
  BY <1>1 DEF Slots
<1> QED BY <1>2 DEF ArgStack, ArgNames

\* Where a call's window may start: above what the caller has in use, or
\* anywhere if the call prepares no window.
StartsAbove(base) ==
  \/ UNCHANGED <<stack, names>>
  \/ /\ baseIndex + MaxRegs[curFunc] <= base
     /\ baseIndex + Len(ParamNames[curFunc]) < base

\* What holds of the four opcodes that call, also when they fail.
CallsAbove ==
  /\ Untouched(baseIndex)
  /\ IsCall => Untouched(baseIndex') /\ StartsAbove(baseIndex')

LEMMA UntouchedBelow ==
  ASSUME NEW lo \in Int, NEW hi \in Int, lo <= hi, Untouched(hi)
  PROVE  Untouched(lo)
BY DEF Untouched, Slots

\* A step that touches nothing below a base behind baseIndex, and goes there if
\* it goes anywhere.
LEMMA CallsAboveIntro ==
  ASSUME TypeOK, NEW base \in Nat, baseIndex <= base, Untouched(base),
         \/ callStackTop' = callStackTop
         \/ baseIndex' = base /\ StartsAbove(base)
  PROVE  CallsAbove
<1>1. Untouched(baseIndex)
  BY UntouchedBelow DEF TypeOK
<1>2. IsCall => baseIndex' = base /\ StartsAbove(base)
  BY DEF IsCall, TypeOK
<1>3. ASSUME IsCall PROVE Untouched(baseIndex') /\ StartsAbove(baseIndex')
  BY <1>2, <1>3 DEF Untouched, StartsAbove
<1> QED BY <1>1, <1>3 DEF CallsAbove

\* What the disciplines say of an instruction that may be fetched.
LEMMA AboveRegisters ==
  ASSUME WindowsAboveRegisters, TypeOK, NEW p \in Nat, NEW i \in CodeAt(curFunc, p)
  PROVE  /\ i.op = "CALL"  => MaxRegs[curFunc] <= i.b /\ Len(ParamNames[curFunc]) < i.b
         /\ i.op = "LOADC" => Len(ParamNames[curFunc]) < MaxRegs[curFunc]
BY DEF CodeAt, WindowsAboveRegisters, TypeOK

LEMMA CallsStart ==
  ASSUME WindowsAboveRegisters, TypeOK, NEW p \in Nat, NEW i \in CodeAt(curFunc, p), i.op = "CALL"
  PROVE  /\ baseIndex + i.b \in Nat /\ baseIndex <= baseIndex + i.b
         /\ StartsAbove(baseIndex + i.b)
<1>1. i.b \in Nat /\ MaxRegs[curFunc] \in Nat /\ Len(ParamNames[curFunc]) \in Nat
  BY Fetched, WindowSizeBounds DEF TypeOK
<1> QED BY <1>1, AboveRegisters DEF StartsAbove, TypeOK

LEMMA CallAbove == WindowsAboveRegisters /\ TypeOK /\ Call => CallsAbove
<1> SUFFICES ASSUME WindowsAboveRegisters, TypeOK, Call PROVE CallsAbove
  OBVIOUS
<1>1. PICK i \in At("CALL") :
        \/ SetReg(i.a, Reg(i.c)) /\ UNCHANGED <<names, calls>>
        \/ UNCHANGED <<stack, names, calls>>
        \/ /\ Callable(Reg(i.c))
           /\ stack' = SetupStack(stack, Reg(i.c).n, baseIndex + i.b, 0)
           /\ names' = SetupNames(names, Reg(i.c).n, baseIndex + i.b, 0)
           /\ callStackTop' = callStackTop \/ baseIndex' = baseIndex + i.b
  BY DEF Call, Leave, PushFrame, calls
<1>2. i.a \in Nat /\ i \in CodeAt(curFunc, pc) /\ i.op = "CALL" /\ pc \in Nat /\ baseIndex \in Nat
  BY FetchedAt DEF TypeOK
<1> PICK base : base = baseIndex + i.b
  OBVIOUS
<1>3. base \in Nat /\ baseIndex <= base /\ StartsAbove(base)
  BY <1>2, CallsStart
<1>4. CASE SetReg(i.a, Reg(i.c)) /\ UNCHANGED <<names, calls>>
  <2>1. WritesRegister(i.a)
    BY <1>4 DEF WritesRegister
  <2> QED BY <1>2, <1>4, <2>1, RegisterWritten, CallsAboveIntro DEF calls
<1>5. CASE UNCHANGED <<stack, names, calls>>
  BY <1>2, <1>5, SameUntouched, CallsAboveIntro DEF calls
<1>6. CASE /\ Callable(Reg(i.c))
           /\ stack' = SetupStack(stack, Reg(i.c).n, baseIndex + i.b, 0)
           /\ names' = SetupNames(names, Reg(i.c).n, baseIndex + i.b, 0)
           /\ callStackTop' = callStackTop \/ baseIndex' = baseIndex + i.b
  <2> PICK f : f = Reg(i.c).n
    OBVIOUS
  <2>1. f \in Funcs /\ stack' = SetupStack(stack, f, base, 0) /\ names' = SetupNames(names, f, base, 0)
    BY <1>6 DEF Callable
  <2>2. ASSUME NEW s \in Slots, s < base PROVE stack'[s] = stack[s] /\ names'[s] = names[s]
    <3>1. /\ SetupStack(stack, f, base, 0)[s] = stack[s]
          /\ SetupNames(names, f, base, 0)[s] = names[s]
      <4>1. f \in Funcs /\ base \in Nat /\ 0 \in Nat /\ s \in Slots /\ s < base
        BY <1>3, <2>1, <2>2
      <4> QED BY ONLY <4>1, SetupUntouched
    <3> QED BY <2>1, <3>1
  <2>3. Untouched(base)
    BY <2>2 DEF Untouched
  <2> QED BY <1>3, <1>6, <2>3, CallsAboveIntro
<1> QED BY <1>1, <1>4, <1>5, <1>6

LEMMA CallFAbove == TypeOK /\ CallF => CallsAbove
BY SameUntouched DEF CallF, CallsAbove, StartsAbove

LEMMA LoadCAbove == WindowsAboveRegisters /\ TypeOK /\ LoadC => CallsAbove
<1> SUFFICES ASSUME WindowsAboveRegisters, TypeOK, LoadC PROVE CallsAbove
  OBVIOUS
<1>1. PICK i \in At("LOADC") : \E v : \E base : base = baseIndex + MaxRegs[curFunc] /\
        \/ SetReg(i.a, v) /\ UNCHANGED <<names, calls>>
        \/ UNCHANGED <<stack, names, calls>>
        \/ /\ Callable(v) /\ baseIndex' = base
           /\ stack' = [s \in Slots |-> IF s - base \in 0 .. MaxRegs[v.n] - 1
                                        THEN Null ELSE stack[s]]
           /\ names' = [s \in Slots |-> IF s - base \in 0 .. MaxRegs[v.n] - 1
                                        THEN NoName ELSE names[s]]
  BY DEF LoadC, ImplicitBase, Leave, PushFrame, calls
<1>2. PICK v, base : base = baseIndex + MaxRegs[curFunc] /\
        \/ SetReg(i.a, v) /\ UNCHANGED <<names, calls>>
        \/ UNCHANGED <<stack, names, calls>>
        \/ /\ Callable(v) /\ baseIndex' = base
           /\ stack' = [s \in Slots |-> IF s - base \in 0 .. MaxRegs[v.n] - 1
                                        THEN Null ELSE stack[s]]
           /\ names' = [s \in Slots |-> IF s - base \in 0 .. MaxRegs[v.n] - 1
                                        THEN NoName ELSE names[s]]
  BY <1>1
<1>3. i.a \in Nat /\ i \in CodeAt(curFunc, pc) /\ i.op = "LOADC" /\ pc \in Nat /\ baseIndex \in Nat
  BY FetchedAt DEF TypeOK
<1>4. MaxRegs[curFunc] \in Nat /\ Len(ParamNames[curFunc]) \in Nat
  BY WindowSizeBounds DEF TypeOK
<1>5. base \in Nat /\ baseIndex <= base /\ StartsAbove(base)
  BY <1>2, <1>3, <1>4, AboveRegisters DEF StartsAbove
<1>6. CASE SetReg(i.a, v) /\ UNCHANGED <<names, calls>>
  <2>1. WritesRegister(i.a)
    BY <1>6 DEF WritesRegister
  <2> QED BY <1>3, <1>6, <2>1, RegisterWritten, CallsAboveIntro DEF calls
<1>7. CASE UNCHANGED <<stack, names, calls>>
  BY <1>3, <1>7, SameUntouched, CallsAboveIntro DEF calls
<1>8. CASE /\ Callable(v) /\ baseIndex' = base
           /\ stack' = [s \in Slots |-> IF s - base \in 0 .. MaxRegs[v.n] - 1
                                        THEN Null ELSE stack[s]]
           /\ names' = [s \in Slots |-> IF s - base \in 0 .. MaxRegs[v.n] - 1
                                        THEN NoName ELSE names[s]]
  <2>1. \A s \in Slots : s < base => s - base \notin 0 .. MaxRegs[v.n] - 1
    BY <1>5 DEF Slots
  <2>2. Untouched(base)
    BY <1>8, <2>1 DEF Untouched
  <2> QED BY <1>5, <1>8, <2>2, CallsAboveIntro
<1> QED BY <1>2, <1>6, <1>7, <1>8

LEMMA ArgBlkAbove == WindowsAboveRegisters /\ TypeOK /\ ArgBlk => CallsAbove
<1> SUFFICES ASSUME WindowsAboveRegisters, TypeOK, ArgBlk PROVE CallsAbove
  OBVIOUS
<1>1. PICK i, args, call : /\ i \in At("ARGBLK") /\ args \in ArgsOf(i)
                           /\ call \in CodeAt(curFunc, pc + 1 + i.a)
                           /\ ArgBlkWith(i, args, call)
  BY ArgBlkFound
<1>2. i.a \in Nat /\ pc + 1 + i.a \in Nat /\ baseIndex \in Nat
  BY <1>1, FetchedAt DEF TypeOK
<1>3. DOMAIN args = 1 .. Len(args) /\ Len(args) \in Nat
  BY <1>1, <1>2, ArgsOfType
<1> PICK base : base = baseIndex + call.b
  OBVIOUS
<1> PICK f : f = Reg(call.c).n
  OBVIOUS
<1>4. CASE UNCHANGED <<stack, names>> /\ UNCHANGED calls
  BY <1>2, <1>4, SameUntouched, CallsAboveIntro DEF calls
<1>5. ASSUME call.op = "CALL", f \in Funcs, NEW vals \in Copies(args, base),
             ArgBlkCopying(i, args, call, vals)
      PROVE  CallsAbove
  <2>1. base \in Nat /\ baseIndex <= base /\ StartsAbove(base)
    BY <1>1, <1>2, <1>5, CallsStart
  <2> PICK copied, named : copied = ArgStack(vals, base) /\ named = ArgNames(vals, f, base)
    OBVIOUS
  <2>2. \A s \in Slots : s < base => copied[s] = stack[s] /\ named[s] = names[s]
    BY <1>3, <1>5, <2>1, ArgsUntouched
  <2>3. /\ \/ stack' = copied /\ names' = named
           \/ stack' = SetupStack(copied, f, base, i.a) /\ names' = SetupNames(named, f, base, i.a)
        /\ callStackTop' = callStackTop \/ baseIndex' = base
    BY <1>5 DEF ArgBlkCopying, Leave, PushFrame, calls
  <2>4. ASSUME NEW s \in Slots, s < base PROVE stack'[s] = stack[s] /\ names'[s] = names[s]
    <3> PICK n : n = i.a
      OBVIOUS
    <3>1. f \in Funcs /\ base \in Nat /\ n \in Nat
      BY <1>2, <1>5, <2>1
    <3>2. /\ SetupStack(copied, f, base, n)[s] = copied[s]
          /\ SetupNames(named, f, base, n)[s] = named[s]
      BY ONLY <2>4, <3>1, SetupUntouched
    <3> QED BY <2>2, <2>3, <2>4, <3>2
  <2>6. Untouched(base)
    BY <2>4 DEF Untouched
  <2> QED BY <2>1, <2>3, <2>6, CallsAboveIntro
<1>6. \/ UNCHANGED <<stack, names>> /\ UNCHANGED calls
      \/ /\ call.op = "CALL" /\ f \in Funcs
         /\ \E vals \in Copies(args, base) : ArgBlkCopying(i, args, call, vals)
  BY <1>1 DEF ArgBlkWith, Leave, Callable
<1> QED BY <1>4, <1>5, <1>6

\* A return writes the one register its record names.
LEMMA ReturnOnlyResult == TypeOK /\ Return => OnlyOwnWindowWritten
<1> SUFFICES ASSUME TypeOK, Return PROVE OnlyOwnWindowWritten
  OBVIOUS
<1> PICK info : info = callStack[callStackTop - 1]
  OBVIOUS
<1>1. callStackTop \in 1 .. CallSlots - 1 /\ callStackTop' = callStackTop - 1
  BY GatherDone DEF Return
<1>2. IsReturn /\ ~IsCall
  BY <1>1 DEF IsReturn, IsCall
<1>3. callStack[callStackTop'] = info
  BY <1>1
<1>4. baseIndex' = info.ReturnBase /\ UNCHANGED names
  BY DEF Return
<1> PICK t : t = info.ReturnBase + info.CopyResultToReg
  OBVIOUS
<1>5. UNCHANGED stack \/ stack' = [stack EXCEPT ![t] = Reg(0)]
  BY DEF Return
<1>6. \A s \in Slots : s # t => stack'[s] = stack[s]
  BY <1>5 DEF TypeOK
<1> QED BY <1>2, <1>3, <1>4, <1>6 DEF OnlyOwnWindowWritten

\* Gathering stores what a key was bound to, unless its variable was removed.
LEMMA GatherKeeps ==
  ASSUME TypeOK, BoundOnly, NEW m \in DOMAIN varMaps, varMaps'[m] = Gather(m), NEW k \in Names
  PROVE  /\ HasKey(m, k)' = HasKey(m, k)
         /\ HasKey(m, k) => Lookup(m, k)' = Lookup(m, k)
<1>1. varMaps'[m].regs[k] = Unmapped
  BY DEF Gather
<1>2. varMaps'[m].items[k] = IF Mapped(m, k) /\ HasKey(m, k) THEN Lookup(m, k) ELSE varMaps[m].items[k]
  BY DEF Gather
<1>3. ~Mapped(m, k)'
  BY <1>1 DEF Mapped
<1>4. HasKey(m, k)' = (varMaps'[m].items[k] # Absent) /\ Lookup(m, k)' = varMaps'[m].items[k]
  BY <1>3 DEF HasKey, Lookup
<1>0. HasKey(m, k) \in BOOLEAN
  BY DEF HasKey
<1>5. CASE Mapped(m, k) /\ HasKey(m, k)
  <2>1. Lookup(m, k) # Absent
    BY <1>5, LookupType DEF Values, Absent, Null
  <2> QED BY <1>0, <1>2, <1>4, <1>5, <2>1
<1>6. CASE Mapped(m, k) /\ ~HasKey(m, k)
  <2>1. varMaps[m].items[k] = Absent
    BY <1>6 DEF BoundOnly
  <2> QED BY <1>0, <1>2, <1>4, <1>6, <2>1
<1>7. CASE ~Mapped(m, k)
  BY <1>2, <1>4, <1>7 DEF HasKey, Lookup
<1> QED BY <1>5, <1>6, <1>7

LEMMA ReturnKeepsVariables == TypeOK /\ MapsInv /\ Return => GatherKeepsVariables
<1> SUFFICES ASSUME TypeOK, MapsInv, Return, NEW m \in DOMAIN varMaps, home[m] = callStackTop,
                    NEW k \in Names
             PROVE  /\ HasKey(m, k)' = HasKey(m, k)
                    /\ HasKey(m, k) => Lookup(m, k)' = Lookup(m, k)
  BY DEF GatherKeepsVariables
<1>1. callStackTop \in 1 .. CallSlots - 1
  BY GatherDone
<1>2. callStack[callStackTop].LocalVarMap = m
  BY <1>1 DEF MapsInv, HomesFound
<1>3. varMaps'[m] = Gather(m)
  BY <1>2, GatherDone
<1> QED BY <1>3, GatherKeeps DEF MapsInv

\* Every step is one of those above, or writes no register at all.
LEMMA KeptStep ==
  ASSUME WindowsAboveRegisters, TypeOK, MapsInv, [Next]_vars, TypeOK'
  PROVE  /\ OnlyOwnWindowWritten
         /\ IsCall => OwnRegistersKept
         /\ IsReturn => GatherKeepsVariables
<1>1. CASE Return
  <2>1. ~IsCall
    BY <1>1, GatherDone DEF Return, IsCall
  <2> QED BY <1>1, <2>1, ReturnOnlyResult, ReturnKeepsVariables
<1>2. CASE Call \/ ArgBlk \/ CallF \/ LoadC
  <2>1. CallsAbove
    BY <1>2, CallAbove, ArgBlkAbove, CallFAbove, LoadCAbove
  <2>2. ~IsReturn
    BY <1>2 DEF IsReturn, Call, ArgBlk, CallF, LoadC, Leave, PushFrame, calls, TypeOK
  <2>3. OnlyOwnWindowWritten
    BY <2>1, <2>2 DEF OnlyOwnWindowWritten, CallsAbove, Untouched
  <2>4. IsCall => OwnRegistersKept
    <3> SUFFICES ASSUME IsCall, NEW s \in baseIndex .. StackSlots - 1, names[s] # NoName,
                        \/ s - baseIndex \in 1 .. Len(ParamNames[curFunc])
                        \/ s < baseIndex + MaxRegs[curFunc]
                 PROVE  stack'[s] = stack[s] /\ names'[s] = names[s]
      BY DEF OwnRegistersKept
    <3>1. /\ MaxRegs[curFunc] \in Nat /\ Len(ParamNames[curFunc]) \in Nat
          /\ baseIndex \in Nat /\ baseIndex' \in Nat
      BY WindowSizeBounds DEF TypeOK
    <3>2. Untouched(baseIndex') /\ StartsAbove(baseIndex')
      BY <2>1 DEF CallsAbove
    <3>3. CASE UNCHANGED <<stack, names>>
      BY <3>3
    <3>4. CASE /\ baseIndex + MaxRegs[curFunc] <= baseIndex'
               /\ baseIndex + Len(ParamNames[curFunc]) < baseIndex'
      <4>1. s \in Slots /\ s < baseIndex'
        BY <3>1, <3>4 DEF Slots
      <4> QED BY <3>2, <4>1 DEF Untouched
    <3> QED BY <3>2, <3>3, <3>4 DEF StartsAbove
  <2> QED BY <2>2, <2>3, <2>4
<1>3. CASE ~(Return \/ Call \/ ArgBlk \/ CallF \/ LoadC)
  <2>1. callStackTop' = callStackTop
    BY <1>3 DEF Next, vars, Load, Assign, Name, LoadV, FuncRef, Locals, Outer, Globals,
                Index, IdxSet, Remove, CallError, ReturnFromMain, OutOfCode, Crash, Leave, calls
  <2>2. ~IsCall /\ ~IsReturn
    BY <2>1 DEF IsCall, IsReturn, TypeOK
  <2>3. UntouchedButBound
    <3>1. CASE InFrame
      BY <3>1, InFrameWrites, RegisterWritten DEF Untouched, UntouchedButBound
    <3>2. CASE CallError \/ ReturnFromMain \/ OutOfCode \/ Crash \/ UNCHANGED vars
      <4>1. UNCHANGED <<stack, names>>
        BY <3>2 DEF CallError, ReturnFromMain, OutOfCode, Crash, vars
      <4> QED BY <4>1 DEF UntouchedButBound
    <3> QED BY <1>3, <3>1, <3>2, IdxSetWrites, RemoveWrites DEF Next, InFrame
  <2> QED BY <2>2, <2>3 DEF OnlyOwnWindowWritten, UntouchedButBound
<1> QED BY <1>1, <1>2, <1>3

\* Callers find their registers as they left them, whatever is called in
\* between, for every program whose windows start above the registers in use,
\* and its callee's variables are still there for the closures that want them.
THEOREM CallerKeptCorrect ==
  WindowsAboveFuncRef /\ WindowsAboveRegisters /\ CapturesComeLast => (Spec => CallerKept)
<1> SUFFICES ASSUME WindowsAboveFuncRef, WindowsAboveRegisters, CapturesComeLast
             PROVE  Spec => CallerKept
  OBVIOUS
<1>1. Init => MainRecord
  BY FramesAssumption DEF Init, MainRecord, CallInfo
<1>2. TypeOK /\ FrameChain /\ MainRecord /\ TypeOK' /\ [Next]_vars => FrameChain' /\ MainRecord'
  BY ChainStep
<1>3. TypeOK /\ FrameChain /\ MainRecord /\ MapsInv /\ [Next]_vars /\ TypeOK' => MapsInv'
  BY MapsStep
<1>4. TypeOK /\ MapsInv /\ [Next]_vars /\ TypeOK'
        => [OnlyOwnWindowWritten /\ (IsCall => OwnRegistersKept) /\ (IsReturn => GatherKeepsVariables)]_vars
  BY KeptStep
<1> QED
  BY <1>1, <1>2, <1>3, <1>4, ChainInit, MapsInit, TypeCorrect, PTL DEF Spec, CallerKept
=============================================================================
