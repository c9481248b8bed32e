------------------------ MODULE RendezvousPairProofs ------------------------
(***************************************************************************)
(* Two rendezvous points used in succession are a barrier, for any number  *)
(* of processors from two up and any number of joins.                      *)
(*                                                                         *)
(* At any time the processors are in two neighbouring rounds, K - 1 and K. *)
(* The point of round K counts those that have come so far; the point of   *)
(* round K - 1, which is the one that round K + 1 will use again, has its  *)
(* flag up for the stragglers.  Round K + 1 can only start when the flag   *)
(* of round K is up, and by then everybody has left round K - 1.           *)
(***************************************************************************)
EXTENDS RendezvousPair, FiniteSetTheorems, TLAPS

(* The two points alternate.                                               *)
LEMMA Alternate ==
    /\ \A k \in Nat : PointOf(k) \in Points /\ PointOf(k + 1) # PointOf(k)
    /\ \A k \in Nat \ {0} : PointOf(k - 1) = PointOf(k + 1) /\ PointOf(k - 1) # PointOf(k)
    /\ \A k \in Nat, r \in Points : r = PointOf(k) \/ r = PointOf(k + 1)
    /\ PointOf(1) = "first"
BY DEF PointOf, Points

Untouched(r) == count[r] = 0 /\ reset[r] = 0 /\ cond[r] = 0

(* Round 0 has no point: both points are as rendezvous_init left them.     *)
CurrentPoint(K) ==
    IF K = 0 THEN Untouched(PointOf(0))
    ELSE /\ count[PointOf(K)] = Cardinality({c \in Cpu : joined[c] = K})
         /\ \E c \in Cpu : joined[c] = K
         /\ reset[PointOf(K)] = 1 <=> \A c \in Cpu : joined[c] = K
         /\ cond[PointOf(K)] = 1 <=> \A c \in Cpu : joined[c] = K /\ pc[c] # "set"

(* The point that round K + 1 will use.                                    *)
OtherPoint(K) ==
    IF K < 2 THEN Untouched(PointOf(K + 1))
    ELSE reset[PointOf(K + 1)] = 1 /\ cond[PointOf(K + 1)] = 1

Processors(K) ==
    \A c \in Cpu :
        /\ joined[c] = K \/ joined[c] = K - 1
        /\ pc[c] = "free" /\ joined[c] = K /\ K > 0 => cond[PointOf(K)] = 1
        /\ pc[c] = "set" => /\ K > 0
                            /\ \A d \in Cpu : joined[d] = K /\ (d # c => pc[d] = "spin")

RoundIs(K) == CurrentPoint(K) /\ OtherPoint(K) /\ Processors(K)

IInv == TypeOK /\ \E K \in 0 .. MaxJoins : RoundIs(K)

-----------------------------------------------------------------------------
(* Every step keeps the types.                                             *)
LEMMA TypeStep == TypeOK /\ [Next]_vars => TypeOK'
<1> SUFFICES ASSUME TypeOK, [Next]_vars PROVE TypeOK'
  OBVIOUS
<1> USE MaxJoinsAssumption, CpuAssumption DEF TypeOK, RendezvousTypeOK
<1>1. CASE UNCHANGED vars
  BY <1>1 DEF vars
<1>2. ASSUME NEW c \in Cpu, Join(c) PROVE TypeOK'
  <2> DEFINE r == PointOf(joined[c] + 1)
  <2>0. r \in Points /\ joined[c] + 1 \in 0 .. MaxJoins
    BY <1>2, Alternate DEF Join
  <2> HIDE DEF r
  <2>1. CASE JoinCount(c, r)
    BY <1>2, <2>0, <2>1 DEF Join, Arrive, JoinCount, Enter, r
  <2>2. CASE JoinReset(c, r)
    BY <1>2, <2>0, <2>2 DEF Join, Arrive, JoinReset, Enter, r
  <2> QED
    BY <1>2, <2>1, <2>2 DEF Join, Arrive, r
<1>3. ASSUME NEW c \in Cpu, Return(c) PROVE TypeOK'
  <2>1. left[c] + 1 \in 0 .. MaxJoins
    BY <1>3 DEF Return, Depart, SetCond, SpinEnd
  <2> QED
    BY <1>3, <2>1 DEF Return, Depart, SetCond, SpinEnd
<1> QED
  BY <1>1, <1>2, <1>3 DEF Next, Finished

-----------------------------------------------------------------------------
(* The last processor to come completes the count, and only the last.      *)
LEMMA CountComplete ==
    ASSUME NEW S, S \subseteq Cpu, NEW c \in Cpu, c \notin S
    PROVE  /\ Cardinality(S \cup {c}) = Cardinality(S) + 1
           /\ Cardinality(S \cup {c}) = max <=> S \cup {c} = Cpu
<1>1. IsFiniteSet(S)
  BY CpuAssumption, FS_Subset
<1>2. Cardinality(S \cup {c}) = Cardinality(S) + 1
  BY <1>1, FS_AddElement
<1>3. Cardinality(S \cup {c}) = max => S \cup {c} = Cpu
  BY CpuAssumption, MaxAssumption, FS_Subset
<1> QED
  BY <1>2, <1>3, MaxAssumption

(* A processor joins the current round.                                    *)
LEMMA JoinCurrent ==
    ASSUME TypeOK, NEW K \in 0 .. MaxJoins, RoundIs(K),
           NEW c \in Cpu, Join(c), joined[c] # K
    PROVE  RoundIs(K)'
<1> USE MaxJoinsAssumption DEF TypeOK, RendezvousTypeOK
<1> DEFINE S == {d \in Cpu : joined[d] = K}
           r == PointOf(K)
<1>0. K \in Nat \ {0} /\ joined[c] = K - 1
  BY DEF RoundIs, Processors
<1>1. r \in Points /\ r # PointOf(K + 1) /\ Arrive(c, r)
  BY <1>0, Alternate DEF Join
<1>2. reset[r] = 0 /\ JoinCount(c, r)
  BY <1>0, <1>1 DEF RoundIs, CurrentPoint, Arrive, JoinReset
<1>3. joined' = [joined EXCEPT ![c] = K] /\ c \notin S /\ S' = S \cup {c}
  BY <1>0 DEF Join
<1>4. count'[r] = Cardinality(S \cup {c}) /\ (count'[r] = max <=> S \cup {c} = Cpu)
  <2>1. count[r] = Cardinality(S)
    BY <1>0 DEF RoundIs, CurrentPoint
  <2>2. count'[r] = count[r] + 1
    BY <1>1, <1>2 DEF JoinCount
  <2>3. S \subseteq Cpu /\ c \notin S
    BY <1>3
  <2>4. /\ Cardinality(S \cup {c}) = Cardinality(S) + 1
        /\ Cardinality(S \cup {c}) = max <=> S \cup {c} = Cpu
    BY <2>3, CountComplete
  <2> QED
    BY <2>1, <2>2, <2>4
<1>5. \A d \in Cpu : pc[d] # "set"
  BY <1>0 DEF RoundIs, Processors
<1>6. \A d \in Cpu : joined[d] = K => pc[d] = "spin"
  BY <1>0, <1>5 DEF RoundIs, Processors, CurrentPoint
<1>7. S \cup {c} = Cpu <=> \A d \in Cpu : joined'[d] = K
  BY <1>3
<1>8. pc' = [pc EXCEPT ![c] = IF S \cup {c} = Cpu THEN "set" ELSE "spin"]
  BY <1>2, <1>4 DEF JoinCount, Enter
<1>9. CurrentPoint(K)'
  <2>1. count'[r] = Cardinality({d \in Cpu : joined'[d] = K})
    BY <1>3, <1>4
  <2>2. reset'[r] = 1 <=> \A d \in Cpu : joined'[d] = K
    BY <1>1, <1>2, <1>4, <1>7 DEF JoinCount
  <2>3. cond'[r] # 1
    BY <1>0, <1>2 DEF JoinCount, RoundIs, CurrentPoint
  <2>4. ~ \A d \in Cpu : joined'[d] = K /\ pc'[d] # "set"
    BY <1>7, <1>8
  <2>5. joined'[c] = K
    BY <1>3
  <2> QED
    BY <1>0, <2>1, <2>2, <2>3, <2>4, <2>5 DEF CurrentPoint
<1>10. OtherPoint(K)'
  BY <1>0, <1>1, <1>2, Alternate DEF JoinCount, RoundIs, OtherPoint, Untouched
<1>11. Processors(K)'
  <2> SUFFICES ASSUME NEW d \in Cpu
               PROVE  /\ joined'[d] = K \/ joined'[d] = K - 1
                      /\ pc'[d] = "free" => joined'[d] # K
                      /\ pc'[d] = "set" =>
                            \A e \in Cpu : joined'[e] = K /\ (e # d => pc'[e] = "spin")
    BY <1>0 DEF Processors
  <2>1. joined'[d] = K \/ joined'[d] = K - 1
    BY <1>3 DEF RoundIs, Processors
  <2>2. pc'[d] = "free" => joined'[d] # K
    BY <1>3, <1>6, <1>8
  <2>3. pc'[d] = "set" => d = c /\ S \cup {c} = Cpu
    BY <1>5, <1>8
  <2> QED
    BY <1>3, <1>6, <1>7, <1>8, <2>1, <2>2, <2>3
<1> QED
  BY <1>9, <1>10, <1>11 DEF RoundIs

(* A processor opens the next round.                                       *)
LEMMA JoinNext ==
    ASSUME TypeOK, NEW K \in 0 .. MaxJoins, RoundIs(K),
           NEW c \in Cpu, Join(c), joined[c] = K
    PROVE  K + 1 \in 0 .. MaxJoins /\ RoundIs(K + 1)'
<1> USE MaxJoinsAssumption DEF TypeOK, RendezvousTypeOK
<1> DEFINE r == PointOf(K + 1)
<1>0. K \in Nat /\ K + 1 \in 0 .. MaxJoins /\ K + 1 # 0 /\ pc[c] = "free"
  BY DEF Join, Arrive
<1>1. /\ r \in Points /\ PointOf(K) \in Points /\ r # PointOf(K)
      /\ PointOf(K + 2) = PointOf(K) /\ Arrive(c, r)
  BY <1>0, Alternate DEF Join
<1>2. \A d \in Cpu : joined[d] = K /\ pc[d] # "set"
  <2>1. CASE K = 0
    BY <2>1 DEF RoundIs, Processors
  <2>2. CASE K > 0
    BY <1>0, <2>2 DEF RoundIs, Processors, CurrentPoint
  <2> QED
    BY <1>0, <2>1, <2>2
<1>3. joined' = [joined EXCEPT ![c] = K + 1]
  BY DEF Join
<1>4. /\ count'[r] = 1 /\ reset'[r] = 0 /\ cond'[r] = 0
      /\ count'[PointOf(K)] = count[PointOf(K)]
      /\ reset'[PointOf(K)] = reset[PointOf(K)]
      /\ cond'[PointOf(K)] = cond[PointOf(K)]
      /\ pc' = [pc EXCEPT ![c] = "spin"]
  <2>1. CASE K < 2
    <3>1. JoinCount(c, r) /\ count[r] = 0 /\ cond[r] = 0
      BY <1>1, <2>1 DEF RoundIs, OtherPoint, Untouched, Arrive, JoinReset
    <3>2. count'[r] = 1 /\ max # 1
      BY <1>1, <3>1, MaxAssumption DEF JoinCount
    <3> QED
      BY <1>1, <3>1, <3>2 DEF JoinCount, Enter
  <2>2. CASE ~ (K < 2)
    <3>1. JoinReset(c, r)
      BY <1>1, <2>2 DEF RoundIs, OtherPoint, Arrive, JoinCount
    <3> QED
      BY <1>1, <3>1 DEF JoinReset, Enter
  <2> QED
    BY <2>1, <2>2
<1>5. \E d \in Cpu : d # c
  <2> SUFFICES ASSUME Cpu = {c} PROVE FALSE
    OBVIOUS
  <2> QED
    <3>1. Cardinality({c}) = 1
      BY FS_Singleton
    <3> QED
      BY <3>1, MaxAssumption
<1>6. CurrentPoint(K + 1)'
  <2>1. {d \in Cpu : joined'[d] = K + 1} = {c}
    BY <1>0, <1>2, <1>3
  <2>2. Cardinality({c}) = 1
    BY FS_Singleton
  <2>3. ~ \A d \in Cpu : joined'[d] = K + 1
    BY <1>0, <1>2, <1>3, <1>5
  <2> QED
    <3>1. count'[r] = Cardinality({d \in Cpu : joined'[d] = K + 1})
      BY <1>4, <2>1, <2>2
    <3>2. joined'[c] = K + 1
      BY <1>3
    <3>3. reset'[r] # 1 /\ cond'[r] # 1
      BY <1>4
    <3> QED
      BY <1>0, <2>3, <3>1, <3>2, <3>3 DEF CurrentPoint
<1>7. OtherPoint(K + 1)'
  <2>0. K + 1 + 1 = K + 2
    BY <1>0
  <2>1. CASE K = 0
    BY <1>0, <1>1, <1>4, <2>0, <2>1 DEF OtherPoint, RoundIs, CurrentPoint, Untouched
  <2>2. CASE K > 0
    <3>1. reset[PointOf(K)] = 1 /\ cond[PointOf(K)] = 1
      BY <1>0, <1>2, <2>2 DEF RoundIs, CurrentPoint
    <3>2. ~ (K + 1 < 2)
      BY <1>0, <2>2
    <3> QED
      BY <1>1, <1>4, <2>0, <3>1, <3>2 DEF OtherPoint
  <2> QED
    BY <1>0, <2>1, <2>2
<1>8. Processors(K + 1)'
  BY <1>0, <1>2, <1>3, <1>4 DEF Processors
<1> QED
  BY <1>0, <1>6, <1>7, <1>8 DEF RoundIs

(* A processor raises the flag, or sees it raised.                         *)
LEMMA ReturnKeepsRound ==
    ASSUME TypeOK, NEW K \in 0 .. MaxJoins, RoundIs(K), NEW c \in Cpu, Return(c)
    PROVE  RoundIs(K)' /\ \A d \in Cpu : joined[c] <= joined[d]
<1> USE MaxJoinsAssumption DEF TypeOK, RendezvousTypeOK
<1>0. joined' = joined /\ pc' = [pc EXCEPT ![c] = "free"] /\ count' = count /\ reset' = reset
  BY DEF Return, Depart, SetCond, SpinEnd
<1>1. CASE SetCond(c)
  <2>1. /\ K \in Nat \ {0} /\ at[c] = PointOf(K)
        /\ \A d \in Cpu : joined[d] = K /\ (d # c => pc[d] = "spin")
    BY <1>1 DEF SetCond, RoundIs, Processors
  <2>2. PointOf(K) \in Points /\ PointOf(K + 1) # PointOf(K)
    BY <2>1, Alternate
  <2>3. cond' = [cond EXCEPT ![PointOf(K)] = 1]
    BY <1>1, <2>1 DEF SetCond
  <2>4. CurrentPoint(K)'
    BY <1>0, <2>1, <2>2, <2>3 DEF RoundIs, CurrentPoint
  <2>5. OtherPoint(K)'
    BY <1>0, <2>1, <2>2, <2>3 DEF RoundIs, OtherPoint, Untouched
  <2>6. Processors(K)'
    BY <1>0, <2>1, <2>2, <2>3 DEF RoundIs, Processors
  <2> QED
    BY <2>1, <2>4, <2>5, <2>6 DEF RoundIs
<1>2. CASE SpinEnd(c)
  <2>0. K \in Nat /\ cond' = cond /\ pc[c] = "spin" /\ cond[PointOf(joined[c])] = 1
    BY <1>2 DEF SpinEnd
  <2>1. joined[c] = K /\ K > 0 => \A d \in Cpu : joined[d] = K /\ pc[d] # "set"
    BY <2>0 DEF RoundIs, CurrentPoint
  <2>2. CurrentPoint(K)'
    <3>1. (\A d \in Cpu : joined[d] = K /\ pc[d] # "set")
             <=> \A d \in Cpu : joined'[d] = K /\ pc'[d] # "set"
      BY <1>0, <2>0
    <3> QED
      BY <1>0, <2>0, <3>1 DEF RoundIs, CurrentPoint, Untouched
  <2>3. OtherPoint(K)'
    BY <1>0, <2>0 DEF RoundIs, OtherPoint, Untouched
  <2>4. \A d \in Cpu : pc[d] # "set"
    BY <2>0, <2>1 DEF RoundIs, Processors
  <2>5. Processors(K)'
    BY <1>0, <2>0, <2>1, <2>4 DEF RoundIs, Processors
  <2>6. \A d \in Cpu : joined[c] <= joined[d]
    BY <2>0, <2>1 DEF RoundIs, Processors
  <2> QED
    BY <2>2, <2>3, <2>5, <2>6 DEF RoundIs
<1> QED
  BY <1>1, <1>2 DEF Return, Depart

LEMMA InitIInv == Init => IInv
<1> SUFFICES ASSUME Init PROVE IInv
  OBVIOUS
<1>1. TypeOK
  BY MaxJoinsAssumption DEF Init, RendezvousInit, TypeOK, RendezvousTypeOK, Points
<1>2. RoundIs(0)
  <2>1. PointOf(0) \in Points /\ PointOf(0 + 1) \in Points
    BY Alternate
  <2> QED
    BY <2>1 DEF Init, RendezvousInit, RoundIs, CurrentPoint, OtherPoint, Untouched, Processors
<1> QED
  BY <1>1, <1>2, MaxJoinsAssumption DEF IInv

LEMMA StepIInv == IInv /\ [Next]_vars => IInv'
<1> SUFFICES ASSUME IInv, [Next]_vars PROVE IInv'
  OBVIOUS
<1>1. TypeOK'
  BY TypeStep DEF IInv
<1>2. PICK K \in 0 .. MaxJoins : RoundIs(K)
  BY DEF IInv
<1>3. CASE UNCHANGED vars
  <2>1. CurrentPoint(K)' /\ OtherPoint(K)' /\ Processors(K)'
    BY <1>2, <1>3 DEF vars, RoundIs, CurrentPoint, OtherPoint, Untouched, Processors
  <2> QED
    BY <1>1, <2>1 DEF IInv, RoundIs
<1>4. ASSUME NEW c \in Cpu, Join(c) PROVE IInv'
  BY <1>1, <1>2, <1>4, JoinCurrent, JoinNext DEF IInv
<1>5. ASSUME NEW c \in Cpu, Return(c) PROVE IInv'
  BY <1>1, <1>2, <1>5, ReturnKeepsRound DEF IInv
<1> QED
  BY <1>3, <1>4, <1>5 DEF Next, Finished

(* The round invariant holds in every reachable state.                     *)
THEOREM RoundInvariant == Spec => []IInv
BY InitIInv, StepIInv, PTL DEF Spec

(* Types, and the correspondence of program counters and joins.            *)
THEOREM TypeCorrect == Spec => []TypeOK
<1>1. IInv => TypeOK
  BY DEF IInv
<1> QED
  BY <1>1, RoundInvariant, PTL

(* The flag is never lowered under a processor that has still to see it.   *)
THEOREM StragglersSeeFlag == Spec => []NobodyLeftBehind
<1>1. IInv => NobodyLeftBehind
  <2> SUFFICES ASSUME IInv, NEW c \in Cpu, NEW d \in Cpu,
                      joined[d] > joined[c], pc[c] = "spin"
               PROVE  cond[at[c]] = 1
    BY DEF NobodyLeftBehind
  <2>1. PICK K \in 0 .. MaxJoins : RoundIs(K)
    BY DEF IInv
  <2>2. K \in Nat \ {0} /\ joined[c] = K - 1 /\ joined[c] \in Nat \ {0} /\ at[c] = PointOf(K - 1)
    BY <2>1, MaxJoinsAssumption DEF IInv, TypeOK, RendezvousTypeOK, RoundIs, Processors
  <2>3. PointOf(K - 1) = PointOf(K + 1) /\ ~ (K < 2)
    BY <2>2, Alternate
  <2> QED
    BY <2>1, <2>2, <2>3 DEF RoundIs, OtherPoint
<1> QED
  BY <1>1, RoundInvariant, PTL

(* The pair of points is a barrier: nobody leaves a rendezvous before      *)
(* everybody has joined it.                                                *)
THEOREM Refinement == Spec => ImplementsCpuBarrier
<1>1. Init => Barrier!Init
  BY DEF Init, Barrier!Init
<1>2. IInv /\ [Next]_vars => [Barrier!Next]_(Barrier!vars)
  <2> SUFFICES ASSUME IInv, [Next]_vars PROVE [Barrier!Next]_(Barrier!vars)
    OBVIOUS
  <2> USE MaxJoinsAssumption DEF IInv, TypeOK, RendezvousTypeOK
  <2>1. CASE UNCHANGED vars \/ Finished
    BY <2>1 DEF vars, Finished, Barrier!vars
  <2>2. ASSUME NEW c \in Cpu, Join(c) PROVE Barrier!Join(c)
    BY <2>2 DEF Join, Arrive, Barrier!Join
  <2>3. ASSUME NEW c \in Cpu, Return(c) PROVE Barrier!Leave(c)
    <3>1. \A d \in Cpu : joined[c] <= joined[d]
      BY <2>3, ReturnKeepsRound
    <3>2. pc[c] # "free"
      BY <2>3 DEF Return, Depart, SetCond, SpinEnd
    <3> QED
      BY <2>3, <3>1, <3>2 DEF Return, Barrier!Leave
  <2> QED
    BY <2>1, <2>2, <2>3 DEF Next, Barrier!Next
<1> QED
  BY <1>1, <1>2, RoundInvariant, PTL DEF Spec, ImplementsCpuBarrier, Barrier!Spec
=============================================================================
