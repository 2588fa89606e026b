---------------------------- MODULE LineFlow_proofs ----------------------------
(***************************************************************************)
(* What follows from LineFlow alone, for any order and any quantities: it  *)
(* holds of Fulfillment because Fulfillment implements LineFlow.           *)
(***************************************************************************)
EXTENDS LineFlow, TLAPS

(* The unit counts stay natural numbers. *)
THEOREM TypeCorrect ==
  ASSUME Qty \in [Lines -> Nat]
  PROVE  Spec => []TypeOK
<1>1. Init => TypeOK
  BY DEF Init, TypeOK
<1>2. TypeOK /\ [Next]_vars => TypeOK'
  <2> SUFFICES ASSUME TypeOK, [Next]_vars PROVE TypeOK'
    OBVIOUS
  <2> USE DEF TypeOK
  <2>1. CASE Hold
    <3>1. \A l \in Lines : held[l] + short[l] - short'[l] \in Nat
      BY <2>1 DEF Hold
    <3> QED BY <2>1, <3>1 DEF Hold
  <2>2. CASE Send
    <3>1. \A l \in Lines : gone[l] + held[l] - held'[l] \in Nat
      BY <2>2 DEF Send
    <3> QED BY <2>2, <3>1 DEF Send
  <2>3. CASE UNCHANGED vars
    BY <2>3 DEF vars
  <2> QED BY <2>1, <2>2, <2>3 DEF Next
<1> QED BY <1>1, <1>2, PTL DEF Spec

(* Every unit ordered is short, held or gone, and counted once.              *)
THEOREM UnitsConserved ==
  ASSUME Qty \in [Lines -> Nat]
  PROVE  Spec => []Conserved
<1>1. Init => Conserved
  <2> SUFFICES ASSUME Init, NEW l \in Lines
               PROVE  short[l] + held[l] + gone[l] = Qty[l]
    BY DEF Conserved
  <2>1. Qty[l] \in Nat
    OBVIOUS
  <2> QED BY <2>1 DEF Init
<1>2. TypeOK /\ Conserved /\ [Next]_vars => Conserved'
  <2> SUFFICES ASSUME TypeOK, Conserved, [Next]_vars, NEW l \in Lines
               PROVE  short'[l] + held'[l] + gone'[l] = Qty[l]
    BY DEF Conserved
  <2>1. /\ short[l] \in Nat /\ held[l] \in Nat /\ gone[l] \in Nat
        /\ short[l] + held[l] + gone[l] = Qty[l]
    BY DEF TypeOK, Conserved
  <2>2. CASE Hold
    <3>1. /\ short'[l] \in Nat
          /\ held'[l] = held[l] + short[l] - short'[l]
          /\ gone'[l] = gone[l]
      BY <2>2 DEF Hold
    <3> QED BY <2>1, <3>1
  <2>3. CASE Send
    <3>1. /\ held'[l] \in Nat
          /\ gone'[l] = gone[l] + held[l] - held'[l]
          /\ short'[l] = short[l]
      BY <2>3 DEF Send
    <3> QED BY <2>1, <3>1
  <2>4. CASE UNCHANGED vars
    BY <2>1, <2>4 DEF vars
  <2> QED BY <2>2, <2>3, <2>4 DEF Next
<1> QED BY <1>1, <1>2, TypeCorrect, PTL DEF Spec

(* No line is ever delivered more than was ordered of it.                    *)
THEOREM NothingOverdelivered ==
  ASSUME Qty \in [Lines -> Nat]
  PROVE  Spec => []NeverOverdelivered
<1>1. TypeOK /\ Conserved => NeverOverdelivered
  <2> SUFFICES ASSUME TypeOK, Conserved, NEW l \in Lines
               PROVE  gone[l] <= Qty[l]
    BY DEF NeverOverdelivered
  <2>1. /\ short[l] \in Nat /\ held[l] \in Nat /\ gone[l] \in Nat
        /\ short[l] + held[l] + gone[l] = Qty[l]
    BY DEF TypeOK, Conserved
  <2> QED BY <2>1
<1> QED BY <1>1, TypeCorrect, UnitsConserved, PTL
===============================================================================
