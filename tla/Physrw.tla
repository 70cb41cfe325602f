------------------------------- MODULE Physrw -------------------------------
(***************************************************************************)
(* physrw() of kernel/ipc/kmail.c, which copies the text of a mail between *)
(* the running task and the memory of another one: each turn of its loop   *)
(* looks up one page in the page tables of the other task and copies the   *)
(* part of the text in it through the kernel's address of the frame.       *)
(***************************************************************************)
EXTENDS Integers, FiniteSets

CONSTANTS
  PAGE_SIZE,  \* bytes in a page (0x1000 in the code)
  LastPage,   \* the pages of the other task are 0..LastPage
  MaxSize     \* bound on the length of a text

ASSUME PhysrwAssumption == PAGE_SIZE \in Nat \ {0} /\ LastPage \in Nat /\ MaxSize \in Nat

Page == 0..LastPage
Byte == 0..(PAGE_SIZE - 1)

VARIABLES
  mapped,     \* the pages with an entry in the tables of task pid
  addr, len,  \* the arguments addr2 and size
  vpage,      \* vaddr >> 12
  offset, size, cnt,  \* the local variables of the loop
  moved,      \* the bytes copied: [i, page, off], byte i of the text being
              \* byte off of the page
  result      \* the value returned, or -1

vars == <<mapped, addr, len, vpage, offset, size, cnt, moved, result>>

Init ==
  /\ mapped \in SUBSET Page
  /\ vpage \in Page /\ offset \in Byte
  /\ size \in 0..MaxSize
  /\ addr = vpage * PAGE_SIZE + offset
  /\ len = size
  /\ cnt = 0 /\ moved = {} /\ result = -1

\* Mutant: a part can be longer than what is left of the text.
WholeRest == PAGE_SIZE - offset

Chars == IF PAGE_SIZE - offset > size THEN size ELSE PAGE_SIZE - offset

\* Mutant: the offset in the first page is kept for the others.
KeptOffset == offset

NextOffset == 0

(***************************************************************************)
(* One turn of the loop: the part of the text in this page is counted,     *)
(* then copied unless the page is not mapped, which ends the loop.         *)
(***************************************************************************)
Turn ==
  /\ result = -1 /\ size > 0
  /\ size' = size - Chars
  /\ cnt' = cnt + Chars
  /\ IF vpage \in mapped
     THEN /\ moved' = moved \cup
               {[i |-> cnt + j, page |-> vpage, off |-> offset + j] : j \in 0..(Chars - 1)}
          /\ offset' = NextOffset
          /\ vpage' = vpage + 1
          /\ UNCHANGED result
     ELSE /\ result' = cnt'
          /\ UNCHANGED <<moved, offset, vpage>>
  /\ UNCHANGED <<mapped, addr, len>>

Return ==
  /\ result = -1 /\ size = 0
  /\ result' = cnt
  /\ UNCHANGED <<mapped, addr, len, vpage, offset, size, cnt, moved>>

Next == Turn \/ Return

Spec == Init /\ [][Next]_vars
-----------------------------------------------------------------------------
TypeOK ==
  /\ mapped \subseteq Page
  /\ addr \in Nat /\ len \in Nat /\ vpage \in Nat
  /\ offset \in Byte /\ size \in Nat /\ cnt \in Nat
  /\ moved \subseteq [i : Nat, page : Page, off : Byte]
  /\ result \in Nat \cup {-1}

(***************************************************************************)
(* The kernel's walk of the tables agrees with the MMU's: byte i of the    *)
(* text is copied from or to the byte at address addr + i, in a page that  *)
(* is mapped, however the text lies across the pages.                      *)
(***************************************************************************)
MovesWhereMmuGoes ==
  \A b \in moved :
    /\ b.page \in mapped
    /\ b.i < len
    /\ b.page * PAGE_SIZE + b.off = addr + b.i

(***************************************************************************)
(* Nothing is left out: what is copied is the text up to the end or to the *)
(* first page that is not mapped.                                          *)
(***************************************************************************)
NothingSkipped ==
  result # -1 =>
    \A i \in 0..(len - 1) :
      \/ \E b \in moved : b.i = i
      \/ \E k \in 0..i : \A p \in mapped, o \in Byte : p * PAGE_SIZE + o # addr + k

=============================================================================
