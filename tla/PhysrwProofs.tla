---------------------------- MODULE PhysrwProofs ----------------------------
(***************************************************************************)
(* What Physrw promises, for every size of a page, every address and       *)
(* length of a text and every set of mapped pages.                         *)
(***************************************************************************)
EXTENDS Physrw, TLAPS

(***************************************************************************)
(* While the loop runs, the bytes before cnt have been copied and vpage    *)
(* and offset are where byte cnt is, unless the text is at its end.        *)
(***************************************************************************)
Running ==
  result = -1 =>
    /\ cnt + size = len
    /\ size > 0 => vpage * PAGE_SIZE + offset = addr + cnt
    /\ \A i \in 0..(cnt - 1) : \E b \in moved : b.i = i

IInv == TypeOK /\ MovesWhereMmuGoes /\ NothingSkipped /\ Running

USE PhysrwAssumption

(***************************************************************************)
(* The address behind a page is that of the page after it, and an address  *)
(* is in one page only.                                                    *)
(***************************************************************************)
LEMMA NextPage ==
  ASSUME NEW p \in Nat PROVE (p + 1) * PAGE_SIZE = p * PAGE_SIZE + PAGE_SIZE
  OBVIOUS

LEMMA LaterPage ==
  ASSUME NEW p \in Nat, NEW q \in Nat, p < q
  PROVE  p * PAGE_SIZE + PAGE_SIZE <= q * PAGE_SIZE
<1> DEFINE d == q - p - 1
<1>1. d \in Nat /\ q = p + 1 + d
  OBVIOUS
<1>2. d * PAGE_SIZE \in Nat
  BY <1>1
<1>3. q * PAGE_SIZE = p * PAGE_SIZE + PAGE_SIZE + d * PAGE_SIZE
  BY <1>1
<1> QED
  BY <1>2, <1>3

LEMMA OnePage ==
  ASSUME NEW p \in Nat, NEW q \in Nat, NEW o \in Byte, NEW r \in Byte,
         p * PAGE_SIZE + o = q * PAGE_SIZE + r
  PROVE  p = q
<1>1. p * PAGE_SIZE \in Nat /\ q * PAGE_SIZE \in Nat
  OBVIOUS
<1>2. ~(p < q)
  BY <1>1, LaterPage DEF Byte
<1>3. ~(q < p)
  BY <1>1, LaterPage DEF Byte
<1> QED
  BY <1>2, <1>3

LEMMA CharsInPage ==
  ASSUME TypeOK, size > 0
  PROVE  /\ Chars \in Nat \ {0} /\ Chars <= size
         /\ offset + Chars <= PAGE_SIZE
         /\ Chars # size => offset + Chars = PAGE_SIZE
BY DEF Chars, TypeOK, Byte

LEMMA InitHolds == Init => IInv
<1> SUFFICES ASSUME Init PROVE IInv
  OBVIOUS
<1>1. vpage * PAGE_SIZE \in Nat
  BY DEF Init, Page
<1>2. TypeOK
  BY <1>1 DEF Init, TypeOK, Page, Byte
<1> QED
  BY <1>1, <1>2 DEF Init, IInv, MovesWhereMmuGoes, NothingSkipped, Running, Page, Byte

(***************************************************************************)
(* A turn that copies: the new bytes are those from cnt on, in this page,  *)
(* and the next one, if there is any, is the first of the next page.       *)
(***************************************************************************)
LEMMA CopyTurn ==
  ASSUME IInv, Turn, vpage \in mapped
  PROVE  IInv'
<1> DEFINE new == {[i |-> cnt + j, page |-> vpage, off |-> offset + j] : j \in 0..(Chars - 1)}
<1>1. /\ result = -1 /\ size > 0 /\ size' = size - Chars /\ cnt' = cnt + Chars
      /\ moved' = moved \cup new /\ offset' = 0 /\ vpage' = vpage + 1
      /\ UNCHANGED <<mapped, addr, len, result>>
  BY DEF Turn, NextOffset
<1>2. /\ vpage \in Page /\ vpage \in Nat /\ offset \in Nat /\ offset < PAGE_SIZE
      /\ size \in Nat /\ cnt \in Nat /\ addr \in Nat /\ len \in Nat
      /\ cnt + size = len
      /\ vpage * PAGE_SIZE + offset = addr + cnt
  BY <1>1 DEF IInv, TypeOK, Running, Byte
<1>3. /\ Chars \in Nat \ {0} /\ Chars <= size /\ offset + Chars <= PAGE_SIZE
      /\ Chars # size => offset + Chars = PAGE_SIZE
  BY <1>1, CharsInPage DEF IInv
<1> HIDE DEF new
<1>4. \A b \in new : \E j \in 0..(Chars - 1) :
        b = [i |-> cnt + j, page |-> vpage, off |-> offset + j]
  BY DEF new
<1>5. \A b \in new : /\ b \in [i : Nat, page : Page, off : Byte]
                     /\ b.page = vpage /\ b.i < len
                     /\ b.page * PAGE_SIZE + b.off = addr + b.i
  <2> SUFFICES ASSUME NEW b \in new
               PROVE  /\ b \in [i : Nat, page : Page, off : Byte]
                      /\ b.page = vpage /\ b.i < len
                      /\ b.page * PAGE_SIZE + b.off = addr + b.i
    OBVIOUS
  <2>1. PICK j \in 0..(Chars - 1) :
          b = [i |-> cnt + j, page |-> vpage, off |-> offset + j]
    BY <1>4
  <2>2. cnt + j \in Nat /\ offset + j \in Byte /\ cnt + j < len
    BY <1>2, <1>3, <2>1 DEF Byte
  <2>3. vpage * PAGE_SIZE \in Nat
    BY <1>2
  <2> QED
    BY <1>2, <2>1, <2>2, <2>3
<1>6. TypeOK'
  BY <1>1, <1>2, <1>3, <1>5 DEF IInv, TypeOK, Byte
<1>7. MovesWhereMmuGoes'
  BY <1>1, <1>5 DEF IInv, MovesWhereMmuGoes
<1>8. NothingSkipped'
  BY <1>1 DEF NothingSkipped
<1>9. Running'
  <2>1. cnt' + size' = len'
    BY <1>1, <1>2, <1>3
  <2>2. size' > 0 => vpage' * PAGE_SIZE + offset' = addr' + cnt'
    <3>1. (vpage + 1) * PAGE_SIZE = vpage * PAGE_SIZE + PAGE_SIZE
      BY <1>2, NextPage
    <3>2. vpage * PAGE_SIZE \in Nat
      BY <1>2
    <3> QED
      BY <1>1, <1>2, <1>3, <3>1, <3>2
  <2>3. ASSUME NEW k \in 0..(cnt' - 1)
        PROVE  \E b \in moved' : b.i = k
    <3>1. CASE k \in 0..(cnt - 1)
      BY <1>1, <3>1 DEF IInv, Running
    <3>2. CASE ~(k \in 0..(cnt - 1))
      <4> DEFINE j == k - cnt
      <4>1. j \in 0..(Chars - 1) /\ cnt + j = k
        BY <1>1, <1>2, <1>3, <2>3, <3>2
      <4>2. [i |-> cnt + j, page |-> vpage, off |-> offset + j] \in new
        BY <4>1 DEF new
      <4> QED
        BY <1>1, <4>1, <4>2
    <3> QED
      BY <3>1, <3>2
  <2> QED
    BY <2>1, <2>2, <2>3 DEF Running
<1> QED
  BY <1>6, <1>7, <1>8, <1>9 DEF IInv

(***************************************************************************)
(* A turn that ends the loop: the byte at addr + cnt is in this page and   *)
(* in no other, so that it is mapped nowhere.                              *)
(***************************************************************************)
LEMMA LastTurn ==
  ASSUME IInv, Turn, vpage \notin mapped
  PROVE  IInv'
<1>1. /\ result = -1 /\ size > 0 /\ size' = size - Chars /\ cnt' = cnt + Chars
      /\ result' = cnt'
      /\ UNCHANGED <<mapped, addr, len, moved, offset, vpage>>
  BY DEF Turn
<1>2. /\ vpage \in Nat /\ offset \in Byte /\ size \in Nat /\ cnt \in Nat
      /\ addr \in Nat /\ len \in Nat /\ mapped \subseteq Page
      /\ cnt + size = len
      /\ vpage * PAGE_SIZE + offset = addr + cnt
      /\ \A i \in 0..(cnt - 1) : \E b \in moved : b.i = i
  BY <1>1 DEF IInv, TypeOK, Running
<1>3. Chars \in Nat \ {0} /\ Chars <= size
  BY <1>1, CharsInPage DEF IInv
<1>4. TypeOK'
  BY <1>1, <1>2, <1>3 DEF IInv, TypeOK
<1>5. MovesWhereMmuGoes'
  BY <1>1 DEF IInv, MovesWhereMmuGoes
<1>6. \A p \in mapped, o \in Byte : p * PAGE_SIZE + o # addr + cnt
  <2> SUFFICES ASSUME NEW p \in mapped, NEW o \in Byte,
                      p * PAGE_SIZE + o = addr + cnt
               PROVE  FALSE
    OBVIOUS
  <2>1. p \in Nat
    BY <1>2 DEF Page
  <2>2. p = vpage
    BY <1>2, <2>1, OnePage
  <2> QED
    BY <2>2
<1>7. NothingSkipped'
  <2> SUFFICES ASSUME NEW i \in 0..(len - 1)
               PROVE  \/ \E b \in moved : b.i = i
                      \/ \E k \in 0..i : \A p \in mapped, o \in Byte :
                                           p * PAGE_SIZE + o # addr + k
    BY <1>1 DEF NothingSkipped
  <2>1. CASE i < cnt
    BY <1>2, <2>1
  <2>2. CASE cnt <= i
    <3>1. cnt \in 0..i
      BY <1>2, <2>2
    <3> QED
      BY <1>6, <3>1
  <2> QED
    BY <1>2, <2>1, <2>2
<1>8. Running'
  BY <1>1, <1>2, <1>3 DEF Running
<1> QED
  BY <1>4, <1>5, <1>7, <1>8 DEF IInv

LEMMA ReturnHolds ==
  ASSUME IInv, Return
  PROVE  IInv'
<1>1. /\ result = -1 /\ size = 0 /\ result' = cnt
      /\ UNCHANGED <<mapped, addr, len, vpage, offset, size, cnt, moved>>
  BY DEF Return
<1>2. cnt \in Nat /\ cnt = len /\ \A i \in 0..(cnt - 1) : \E b \in moved : b.i = i
  BY <1>1 DEF IInv, TypeOK, Running
<1>3. TypeOK'
  BY <1>1, <1>2 DEF IInv, TypeOK
<1>4. MovesWhereMmuGoes' /\ NothingSkipped' /\ Running'
  BY <1>1, <1>2 DEF IInv, MovesWhereMmuGoes, NothingSkipped, Running
<1> QED
  BY <1>3, <1>4 DEF IInv

(***************************************************************************)
(* The inductive invariant holds at each turn of the loop.                 *)
(***************************************************************************)
THEOREM Invariant == Spec => []IInv
<1>1. IInv /\ [Next]_vars => IInv'
  <2> SUFFICES ASSUME IInv, [Next]_vars PROVE IInv'
    OBVIOUS
  <2>1. CASE Turn
    BY <2>1, CopyTurn, LastTurn
  <2>2. CASE Return
    BY <2>2, ReturnHolds
  <2>3. CASE UNCHANGED vars
    BY <2>3 DEF vars, IInv, TypeOK, MovesWhereMmuGoes, NothingSkipped, Running
  <2> QED
    BY <2>1, <2>2, <2>3 DEF Next
<1> QED
  BY InitHolds, <1>1, PTL DEF Spec

(***************************************************************************)
(* The variables of the loop keep their types, for pages of every size.    *)
(***************************************************************************)
THEOREM TypeCorrect == Spec => []TypeOK
<1>1. IInv => TypeOK
  BY DEF IInv
<1> QED
  BY Invariant, <1>1, PTL

(***************************************************************************)
(* Byte i of a text is copied at address addr + i of the other task, in    *)
(* a mapped page, for every size of a page and every length of the text.   *)
(***************************************************************************)
THEOREM MovesSafe == Spec => []MovesWhereMmuGoes
<1>1. IInv => MovesWhereMmuGoes
  BY DEF IInv
<1> QED
  BY Invariant, <1>1, PTL

(***************************************************************************)
(* A copy that has ended has left out nothing before the first byte that   *)
(* is in no mapped page.                                                   *)
(***************************************************************************)
THEOREM NothingSkippedSafe == Spec => []NothingSkipped
<1>1. IInv => NothingSkipped
  BY DEF IInv
<1> QED
  BY Invariant, <1>1, PTL
=============================================================================
