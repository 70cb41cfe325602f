----------------------------- MODULE BufferProofs -----------------------------
(***************************************************************************)
(* What is proved about the buffer cache.                                  *)
(***************************************************************************)
EXTENDS Buffer, FiniteSetTheorems, SequenceTheorems, TLAPS

(***************************************************************************)
(* The ends of the search of find_buffer() meet, or become neighbours, in  *)
(* the middle of the chain.                                                *)
(***************************************************************************)
LEMMA TurnsMeet ==
  ASSUME NEW n \in Nat \ {0}
  PROVE  /\ Turns(n) \in 1..n
         /\ n = 2 * Turns(n) \/ n = 2 * Turns(n) - 1
<1> DEFINE Stops(u) == u = n + 1 - u \/ (u % n) + 1 = n + 1 - u
           Middle(t) == n = 2 * t \/ n = 2 * t - 1
<1>1. \A u \in 1..(n - 1) : u % n = u
  OBVIOUS
<1>2. n % n = 0
  OBVIOUS
<1>3. PICK m \in 1..n : Middle(m)
  <2>1. (n + 1) \div 2 \in 1..n /\ Middle((n + 1) \div 2)
    OBVIOUS
  <2>2. QED
    BY <2>1
<1>4. \A u \in 1..(m - 1) : ~Stops(u)
  BY <1>1, <1>3
<1>5. Stops(m)
  <2>1. CASE m < n
    BY <1>1, <1>3, <2>1
  <2>2. CASE m = n
    BY <1>2, <1>3, <2>2
  <2>3. QED
    BY <1>3, <2>1, <2>2
<1>6. ASSUME NEW t \in 1..n, Stops(t), \A u \in 1..(t - 1) : ~Stops(u)
      PROVE  t = m
  <2>1. m \in Nat /\ t \in Nat
    OBVIOUS
  <2>2. ~(t < m)
    <3>1. t < m => t \in 1..(m - 1)
      OBVIOUS
    <3>2. QED
      BY <1>4, <1>6, <3>1
  <2>3. ~(m < t)
    <3>1. m < t => m \in 1..(t - 1)
      OBVIOUS
    <3>2. QED
      BY <1>5, <1>6, <3>1
  <2>4. QED
    BY <2>1, <2>2, <2>3
<1>7. Turns(n) = CHOOSE t \in 1..n : Stops(t) /\ \A u \in 1..(t - 1) : ~Stops(u)
  BY DEF Turns
<1>8. QED
  BY <1>3, <1>4, <1>5, <1>6, <1>7

(***************************************************************************)
(* find_buffer() looks at every buffer of a chain, whatever its length     *)
(* (buffer.c:84-94): a cached block is never read into a second buffer.    *)
(***************************************************************************)
THEOREM SearchIsComplete ==
  ASSUME NEW S, NEW chain \in Seq(S)
  PROVE  Looked(chain) = {chain[k] : k \in 1..Len(chain)}
<1> DEFINE n == Len(chain)
           t == Turns(n)
<1>1. n \in Nat
  OBVIOUS
<1>2. CASE n = 0
  BY <1>2 DEF Looked
<1>3. CASE n # 0
  <2>1. t \in 1..n /\ (n = 2 * t \/ n = 2 * t - 1)
    BY <1>1, <1>3, TurnsMeet
  <2>2. Looked(chain) = {chain[k] : k \in 1..t} \cup {chain[n + 1 - k] : k \in 1..t}
    BY <1>3 DEF Looked
  <2>3. ASSUME NEW k \in 1..n
        PROVE  chain[k] \in Looked(chain)
    <3>1. CASE k =< t
      BY <2>1, <2>2, <3>1
    <3>2. CASE k > t
      <4>1. n + 1 - k \in 1..t /\ n + 1 - (n + 1 - k) = k
        BY <1>1, <2>1, <3>2
      <4>2. QED
        BY <2>2, <4>1
    <3>3. QED
      BY <2>1, <3>1, <3>2
  <2>4. ASSUME NEW k \in 1..t
        PROVE  k \in 1..n /\ n + 1 - k \in 1..n
    BY <1>1, <2>1
  <2>5. QED
    BY <2>2, <2>3, <2>4
<1>4. QED
  BY <1>2, <1>3

-----------------------------------------------------------------------------
(***************************************************************************)
(* The loops over the buffers: induction on the turns of a loop, and a     *)
(* loop whose turns keep to a set S has a run.                             *)
(***************************************************************************)
LEMMA LeastNumber ==
  ASSUME NEW T \in SUBSET Nat, IsFiniteSet(T), T # {}
  PROVE  \E m \in T : \A x \in T : m =< x
<1> DEFINE Below(x) == {y \in T : y < x}
<1> DEFINE F == {Below(x) : x \in T}
<1>1. F \subseteq FiniteSubsetsOf(T) /\ F # {}
  <2>1. \A x : Below(x) \in SUBSET T
    OBVIOUS
  <2>2. \A A \in SUBSET T : IsFiniteSet(A)
    BY FS_Subset
  <2> QED
    BY <2>1, <2>2 DEF FiniteSubsetsOf
<1>2. PICK A \in F : \A B \in F : <<B, A>> \notin StrictSubsetOrdering(T)
  BY <1>1, FS_StrictSubsetOrderingWellFounded, WFMin
<1>3. PICK m \in T : A = Below(m)
  OBVIOUS
<1>4. ASSUME NEW y \in Below(m) PROVE FALSE
  <2>1. m \in Nat /\ y \in Nat /\ y < m /\ y \in T
    BY <1>4
  <2>2. Below(y) \subseteq Below(m)
    <3>1. ASSUME NEW z \in Below(y) PROVE z \in Below(m)
      <4>1. z \in Nat /\ z < y /\ z \in T
        BY <3>1
      <4> QED
        BY <4>1, <2>1
    <3> QED
      BY <3>1
  <2>3. Below(y) \subseteq T /\ Below(m) \subseteq T /\ y \in Below(m) /\ y \notin Below(y)
    BY <2>1
  <2>4. <<Below(y), Below(m)>> \in StrictSubsetOrdering(T)
    BY <2>2, <2>3 DEF StrictSubsetOrdering
  <2>5. Below(y) \in F
    BY <2>1
  <2> QED
    BY <2>4, <2>5, <1>2, <1>3
<1>5. \A x \in T : ~(x < m)
  BY <1>4
<1> QED
  BY <1>5

LEMMA TurnByTurn ==
  ASSUME NEW N \in Nat, NEW P, P[0], \A t \in 1..N : P[t - 1] => P[t]
  PROVE  \A t \in 0..N : P[t]
<1> DEFINE T == {t \in 0..N : ~P[t]}
<1> SUFFICES ASSUME T # {} PROVE FALSE
  OBVIOUS
<1>1. T \in SUBSET Nat /\ IsFiniteSet(T)
  <2>1. IsFiniteSet(0..N)
    BY FS_Interval
  <2> QED
    BY <2>1, FS_Subset
<1>2. PICK m \in T : \A x \in T : m =< x
  BY <1>1, LeastNumber
<1>3. m \in 1..N
  <2>1. m # 0 /\ m \in 0..N
    OBVIOUS
  <2> QED
    BY <2>1
<1>4. m - 1 \in 0..N /\ ~(m =< m - 1)
  BY <1>3
<1>5. P[m - 1]
  BY <1>2, <1>4
<1> QED
  BY <1>3, <1>5

RunOf(f, N, S, x0, step) ==
  /\ f \in [0..N -> S] /\ f[0] = x0
  /\ \A t \in 1..N : f[t] = step[t][f[t - 1]]

LEMMA RunExists ==
  ASSUME NEW N \in Nat, NEW S, NEW x0 \in S, NEW step \in [1..N -> [S -> S]]
  PROVE  \E f : RunOf(f, N, S, x0, step)
<1> DEFINE Run(n) == \E f \in [0..n -> S] :
                       f[0] = x0 /\ \A t \in 1..n : f[t] = step[t][f[t - 1]]
<1> DEFINE P == [n \in 0..N |-> Run(n)]
<1>1. P[0]
  <2>1. [t \in 0..0 |-> x0] \in [0..0 -> S] /\ 0 \in 0..0 /\ 1..0 = {}
    OBVIOUS
  <2>2. Run(0)
    BY <2>1
  <2> QED
    BY <2>2
<1>2. ASSUME NEW n \in 1..N, P[n - 1] PROVE P[n]
  <2>1. n \in Nat /\ n - 1 \in 0..N
    OBVIOUS
  <2>2. PICK f \in [0..(n - 1) -> S] :
          f[0] = x0 /\ \A t \in 1..(n - 1) : f[t] = step[t][f[t - 1]]
    BY <1>2, <2>1
  <2> DEFINE g == [t \in 0..n |-> IF t = n THEN step[n][f[n - 1]] ELSE f[t]]
  <2>3. f[n - 1] \in S
    BY <2>1
  <2>4. step[n] \in [S -> S]
    OBVIOUS
  <2>5. g \in [0..n -> S]
    <3>1. \A t \in 0..n : t # n => t \in 0..(n - 1)
      BY <2>1
    <3> QED
      BY <2>3, <2>4, <3>1
  <2>6. g[0] = x0
    BY <2>1, <2>2
  <2>7. ASSUME NEW t \in 1..n PROVE g[t] = step[t][g[t - 1]]
    <3>1. t - 1 \in 0..n /\ t - 1 # n /\ t \in 0..n /\ (t # n => t \in 1..(n - 1))
      BY <2>1
    <3>2. g[t - 1] = f[t - 1]
      BY <3>1
    <3> QED
      BY <3>1, <3>2, <2>2
  <2> HIDE DEF g
  <2>8. Run(n) /\ n \in 0..N
    BY <2>5, <2>6, <2>7
  <2> HIDE DEF Run
  <2> QED
    BY <2>8
<1> HIDE DEF P, Run
<1>3. P[N]
  <2>1. \A n \in 0..N : P[n]
    BY <1>1, <1>2, TurnByTurn
  <2>2. N \in 0..N
    OBVIOUS
  <2> QED
    BY <2>1, <2>2
<1> QED
  <2>1. N \in 0..N
    OBVIOUS
  <2>2. Run(N)
    BY <2>1, <1>3 DEF P
  <2> QED
    BY <2>2 DEF Run, RunOf

-----------------------------------------------------------------------------
(***************************************************************************)
(* The free list and the rows: sequences without repetition.               *)
(***************************************************************************)
LEMMA AppendOnce ==
  ASSUME NEW S, NEW s \in Seq(S), NoRepeat(s), NEW e \in S, e \notin ToSet(s)
  PROVE  /\ Append(s, e) \in Seq(S) /\ NoRepeat(Append(s, e)) /\ Append(s, e) # <<>>
         /\ ToSet(Append(s, e)) = ToSet(s) \cup {e}
<1> DEFINE a == Append(s, e)
<1> DEFINE n == Len(s)
<1>1. /\ n \in Nat /\ DOMAIN s = 1..n /\ a \in Seq(S) /\ DOMAIN a = 1..(n + 1) /\ a # <<>>
      /\ a[n + 1] = e /\ \A k \in 1..n : a[k] = s[k]
  BY AppendProperties
<1> HIDE DEF a, n
<1>2. \A k \in 1..n : s[k] # e
  BY <1>1 DEF ToSet
<1>3. NoRepeat(a)
  <2> SUFFICES ASSUME NEW k \in 1..(n + 1), NEW l \in 1..(n + 1), a[k] = a[l] PROVE k = l
    BY <1>1 DEF NoRepeat
  <2>1. (k = n + 1 \/ k \in 1..n) /\ (l = n + 1 \/ l \in 1..n)
    BY <1>1
  <2> QED
    BY <2>1, <1>1, <1>2 DEF NoRepeat
<1>4. ToSet(a) = ToSet(s) \cup {e}
  <2>1. 1..(n + 1) = 1..n \cup {n + 1}
    BY <1>1
  <2>2. \A x : x \in ToSet(a) <=> \E k \in 1..n \cup {n + 1} : x = a[k]
    BY <1>1, <2>1 DEF ToSet
  <2>3. \A x : x \in ToSet(s) <=> \E k \in 1..n : x = s[k]
    BY <1>1 DEF ToSet
  <2> QED
    BY <1>1, <2>2, <2>3
<1> QED
  BY <1>1, <1>3, <1>4 DEF a

LEMMA TailOnce ==
  ASSUME NEW S, NEW s \in Seq(S), NoRepeat(s), s # <<>>
  PROVE  /\ Head(s) \in S /\ Head(s) \in ToSet(s)
         /\ Tail(s) \in Seq(S) /\ NoRepeat(Tail(s))
         /\ ToSet(Tail(s)) = ToSet(s) \ {Head(s)}
<1> DEFINE a == Tail(s)
<1> DEFINE n == Len(s)
<1>1. /\ n \in Nat /\ n # 0 /\ DOMAIN s = 1..n /\ a \in Seq(S) /\ DOMAIN a = 1..(n - 1)
      /\ Head(s) = s[1] /\ \A k \in 1..(n - 1) : a[k] = s[k + 1]
      /\ Head(s) \in S
  BY HeadTailProperties
<1> HIDE DEF a, n
<1>2. \A k \in 1..(n - 1) : k + 1 \in 1..n /\ k + 1 # 1
  BY <1>1
<1>3. 1 \in 1..n
  BY <1>1
<1>4. NoRepeat(a)
  <2> SUFFICES ASSUME NEW k \in 1..(n - 1), NEW l \in 1..(n - 1), a[k] = a[l] PROVE k = l
    BY <1>1 DEF NoRepeat
  <2>1. k + 1 = l + 1
    BY <1>1, <1>2 DEF NoRepeat
  <2> QED
    BY <2>1
<1>5. \A k \in 1..n : k # 1 => k - 1 \in 1..(n - 1) /\ a[k - 1] = s[k]
  <2> SUFFICES ASSUME NEW k \in 1..n, k # 1 PROVE k - 1 \in 1..(n - 1) /\ a[k - 1] = s[k]
    OBVIOUS
  <2>1. k - 1 \in 1..(n - 1) /\ (k - 1) + 1 = k
    BY <1>1
  <2> QED
    BY <2>1, <1>1
<1>6. ToSet(a) = ToSet(s) \ {Head(s)}
  <2>1. ASSUME NEW x \in ToSet(a) PROVE x \in ToSet(s) /\ x # Head(s)
    <3>1. PICK k \in 1..(n - 1) : x = a[k]
      BY <1>1 DEF ToSet
    <3> QED
      BY <3>1, <1>1, <1>2, <1>3 DEF ToSet, NoRepeat
  <2>2. ASSUME NEW x \in ToSet(s), x # Head(s) PROVE x \in ToSet(a)
    <3>1. PICK k \in 1..n : x = s[k]
      BY <1>1 DEF ToSet
    <3>2. k # 1
      BY <3>1, <2>2, <1>1
    <3> QED
      BY <3>1, <3>2, <1>1, <1>5 DEF ToSet
  <2> QED
    BY <2>1, <2>2
<1> QED
  BY <1>1, <1>3, <1>4, <1>6 DEF a, ToSet

LEMMA RemoveOnce ==
  ASSUME NEW S, NEW s \in Seq(S), NoRepeat(s), NEW e \in ToSet(s)
  PROVE  LET r == RemoveAt(s, CHOOSE k \in DOMAIN s : s[k] = e)
         IN  r \in Seq(S) /\ NoRepeat(r) /\ ToSet(r) = ToSet(s) \ {e}
<1> DEFINE n == Len(s)
<1> DEFINE i == CHOOSE k \in DOMAIN s : s[k] = e
<1> DEFINE r == RemoveAt(s, i)
<1>1. n \in Nat /\ DOMAIN s = 1..n
  OBVIOUS
<1>2. i \in 1..n /\ s[i] = e
  BY <1>1 DEF ToSet
<1> HIDE DEF i
<1> DEFINE front == SubSeq(s, 1, i - 1)
<1> DEFINE back == SubSeq(s, i + 1, n)
<1>3. /\ front \in Seq(S) /\ Len(front) = i - 1 /\ \A k \in 1..(i - 1) : front[k] = s[k]
  <2>1. /\ 1 \in Int /\ i - 1 \in Int
        /\ \A k \in 1..(i - 1) : k \in 1..n
    BY <1>1, <1>2
  <2> QED
    BY <2>1, <1>1, <1>2, SubSeqProperties
<1>4. back \in Seq(S) /\ Len(back) = n - i /\ \A k \in 1..(n - i) : back[k] = s[i + k]
  <2>1. /\ i + 1 \in Int /\ n \in Int
        /\ \A k \in (i + 1)..n : k \in 1..n
    BY <1>1, <1>2
  <2>2. /\ back \in Seq(S)
        /\ Len(back) = IF i + 1 =< n THEN n - (i + 1) + 1 ELSE 0
        /\ \A k \in 1..(n - (i + 1) + 1) : back[k] = s[(i + 1) + k - 1]
    BY <2>1, <1>1, <1>2, SubSeqProperties
  <2> HIDE DEF back, n
  <2>3. n - (i + 1) + 1 = n - i /\ (IF i + 1 =< n THEN n - (i + 1) + 1 ELSE 0) = n - i
    BY <1>1, <1>2
  <2>4. \A k \in 1..(n - i) : (i + 1) + k - 1 = i + k
    BY <1>1, <1>2
  <2> QED
    BY <2>2, <2>3, <2>4
<1>5. /\ r \in Seq(S) /\ Len(r) = n - 1
      /\ \A k \in 1..(n - 1) : r[k] = IF k < i THEN s[k] ELSE s[k + 1]
  <2>1. r = front \o back
    BY DEF RemoveAt
  <2>2. /\ r \in Seq(S) /\ Len(r) = Len(front) + Len(back)
        /\ \A k \in 1..(Len(front) + Len(back)) :
              r[k] = IF k =< Len(front) THEN front[k] ELSE back[k - Len(front)]
    BY <2>1, <1>3, <1>4, ConcatProperties
  <2> HIDE DEF r, front, back, n
  <2>3. Len(front) + Len(back) = n - 1
    BY <1>1, <1>2, <1>3, <1>4
  <2>4. ASSUME NEW k \in 1..(n - 1) PROVE r[k] = IF k < i THEN s[k] ELSE s[k + 1]
    <3>1. CASE k < i
      <4>1. k \in 1..(i - 1) /\ k =< Len(front)
        BY <3>1, <1>1, <1>2, <1>3
      <4> QED
        BY <4>1, <3>1, <2>2, <2>3, <1>3
    <3>2. CASE ~(k < i)
      <4>1. /\ ~(k =< Len(front)) /\ k - Len(front) \in 1..(n - i)
            /\ i + (k - Len(front)) = k + 1
        BY <3>2, <1>1, <1>2, <1>3
      <4>2. r[k] = back[k - Len(front)] /\ back[k - Len(front)] = s[i + (k - Len(front))]
        BY <4>1, <2>2, <2>3, <1>4
      <4> QED
        BY <4>1, <4>2, <3>2
    <3> QED
      BY <3>1, <3>2
  <2> QED
    BY <2>2, <2>3, <2>4
<1>6. DOMAIN r = 1..(n - 1)
  BY <1>5, LenProperties
<1> HIDE DEF r, n, front, back
<1> DEFINE at(k) == IF k < i THEN k ELSE k + 1
<1>7. \A k \in 1..(n - 1) : at(k) \in 1..n /\ at(k) # i /\ r[k] = s[at(k)]
  BY <1>1, <1>2, <1>5
<1>8. \A k, l \in 1..(n - 1) : at(k) = at(l) => k = l
  BY <1>1, <1>2
<1>9. \A m \in 1..n : m # i => \E k \in 1..(n - 1) : at(k) = m
  <2> SUFFICES ASSUME NEW m \in 1..n, m # i PROVE \E k \in 1..(n - 1) : at(k) = m
    OBVIOUS
  <2>1. CASE m < i
    <3>1. m \in 1..(n - 1) /\ at(m) = m
      BY <2>1, <1>1, <1>2
    <3> QED
      BY <3>1
  <2>2. CASE ~(m < i)
    <3>1. m - 1 \in 1..(n - 1) /\ at(m - 1) = m
      BY <2>2, <1>1, <1>2
    <3> QED
      BY <3>1
  <2> QED
    BY <2>1, <2>2
<1> HIDE DEF at
<1>10. NoRepeat(r)
  BY <1>1, <1>6, <1>7, <1>8 DEF NoRepeat
<1>11. ToSet(r) = ToSet(s) \ {e}
  <2>1. ASSUME NEW x \in ToSet(r) PROVE x \in ToSet(s) /\ x # e
    <3>1. PICK k \in 1..(n - 1) : x = r[k]
      BY <1>6 DEF ToSet
    <3> QED
      BY <3>1, <1>1, <1>2, <1>7 DEF ToSet, NoRepeat
  <2>2. ASSUME NEW x \in ToSet(s), x # e PROVE x \in ToSet(r)
    <3>1. PICK m \in 1..n : x = s[m]
      BY <1>1 DEF ToSet
    <3>2. PICK k \in 1..(n - 1) : at(k) = m
      BY <3>1, <2>2, <1>2, <1>9
    <3> QED
      BY <3>1, <3>2, <1>6, <1>7 DEF ToSet
  <2> QED
    BY <2>1, <2>2
<1> QED
  BY <1>5, <1>10, <1>11 DEF r, i

-----------------------------------------------------------------------------
(***************************************************************************)
(* The caches, and what the functions of the model do with a good one.     *)
(***************************************************************************)
Header == [blk : Block \cup {None}, cnt : Nat, valid : BOOLEAN, dirt : BOOLEAN, data : Data]
Rows == {Row[b] : b \in Block}

Cache == [bh : [BufferHead -> Header], free : Seq(BufferHead),
          hash : [Rows -> Seq(BufferHead)], pos : BufferHead, device : [Block -> Data]]

Good(c) == c \in Cache /\ ListsOK(c) /\ BuffersOK(c)

Blank == [blk |-> None, cnt |-> 0, valid |-> FALSE, dirt |-> FALSE, data |-> Zero]

LEMMA BlankIsHeader == Blank \in Header /\ None \notin Block
BY BufferAssumption DEF Blank, Header, None

LEMMA FindEffect ==
  ASSUME NEW c \in Cache, ListsOK(c), NEW b \in Block
  PROVE  /\ FindBuffer(c, b) = None => \A i \in BufferHead : c.bh[i].blk # b
         /\ FindBuffer(c, b) # None =>
              FindBuffer(c, b) \in BufferHead /\ c.bh[FindBuffer(c, b)].blk = b
<1> DEFINE chain == c.hash[Row[b]]
<1> DEFINE hit == {i \in Looked(chain) : c.bh[i].blk = b}
<1>1. Row[b] \in Rows /\ chain \in Seq(BufferHead)
  BY DEF Rows, Cache
<1>2. Looked(chain) = ToSet(chain) /\ ToSet(chain) \subseteq BufferHead
  <2>1. DOMAIN chain = 1..Len(chain)
    BY <1>1
  <2>2. \A k \in 1..Len(chain) : chain[k] \in BufferHead
    BY <1>1, ElementOfSeq
  <2> QED
    BY <1>1, <2>1, <2>2, SearchIsComplete DEF ToSet
<1>3. \A i \in BufferHead : i \in hit <=> c.bh[i].blk = b
  BY <1>1, <1>2, BlankIsHeader DEF ListsOK, Rows
<1>4. \A i \in hit : i \in BufferHead /\ i # None
  BY <1>2, BufferAssumption DEF BufferHead, None
<1>5. FindBuffer(c, b) = IF hit = {} THEN None ELSE CHOOSE i \in hit : TRUE
  BY DEF FindBuffer
<1> HIDE DEF hit
<1> QED
  BY <1>3, <1>4, <1>5

LEMMA FreeEffect ==
  ASSUME NEW c \in Cache, ListsOK(c), NEW i \in BufferHead, c.bh[i].blk # None
  PROVE  /\ FreeBuffer(c, i) \in Cache /\ ListsOK(FreeBuffer(c, i))
         /\ FreeBuffer(c, i).bh = [c.bh EXCEPT ![i] = Blank]
         /\ FreeBuffer(c, i).device = c.device /\ FreeBuffer(c, i).pos = c.pos
         /\ FreeBuffer(c, i).free # <<>>
<1> DEFINE f == FreeBuffer(c, i)
<1> DEFINE row == Row[c.bh[i].blk]
<1> DEFINE chain == c.hash[row]
<1> DEFINE rest == RemoveAt(chain, CHOOSE k \in DOMAIN chain : chain[k] = i)
<1>1. /\ c.bh \in [BufferHead -> Header] /\ c.free \in Seq(BufferHead)
      /\ c.hash \in [Rows -> Seq(BufferHead)] /\ c.pos \in BufferHead
      /\ c.device \in [Block -> Data] /\ c.bh[i].blk \in Block
  BY DEF Cache, Header
<1>2. row \in Rows
  BY <1>1 DEF Rows
<1>3. /\ f.bh = [c.bh EXCEPT ![i] = Blank] /\ f.free = Append(c.free, i)
      /\ f.hash = [c.hash EXCEPT ![row] = rest]
      /\ f.pos = c.pos /\ f.device = c.device
      /\ f = [bh |-> f.bh, free |-> f.free, hash |-> f.hash, pos |-> f.pos, device |-> f.device]
  <2>1. c = [bh |-> c.bh, free |-> c.free, hash |-> c.hash, pos |-> c.pos, device |-> c.device]
    BY DEF Cache
  <2>2. f = [c EXCEPT !.hash = [c.hash EXCEPT ![row] = rest],
                      !.free = Append(c.free, i), !.bh = [c.bh EXCEPT ![i] = Blank]]
    BY DEF FreeBuffer, Blank
  <2> HIDE DEF f, rest, chain, row
  <2> QED
    BY <2>1, <2>2
<1> HIDE DEF f
<1>4. chain \in Seq(BufferHead) /\ NoRepeat(chain) /\ i \in ToSet(chain)
  BY <1>1, <1>2 DEF ListsOK, Rows
<1>5. rest \in Seq(BufferHead) /\ NoRepeat(rest) /\ ToSet(rest) = ToSet(chain) \ {i}
  <2> HIDE DEF chain, row
  <2> QED
    BY <1>4, RemoveOnce
<1>6. i \notin ToSet(c.free) /\ NoRepeat(c.free)
  BY DEF ListsOK
<1>7. /\ f.free \in Seq(BufferHead) /\ NoRepeat(f.free) /\ f.free # <<>>
      /\ ToSet(f.free) = ToSet(c.free) \cup {i}
  <2> DEFINE s == c.free
  <2>1. s \in Seq(BufferHead) /\ NoRepeat(s) /\ i \notin ToSet(s) /\ f.free = Append(s, i)
    BY <1>1, <1>3, <1>6
  <2> HIDE DEF s
  <2>2. /\ Append(s, i) \in Seq(BufferHead) /\ NoRepeat(Append(s, i)) /\ Append(s, i) # <<>>
        /\ ToSet(Append(s, i)) = ToSet(s) \cup {i}
    BY <2>1, AppendOnce
  <2> QED
    BY <2>1, <2>2 DEF s
<1> HIDE DEF rest
<1>8. f \in Cache
  <2>1. f.bh \in [BufferHead -> Header] /\ f.hash \in [Rows -> Seq(BufferHead)]
    BY <1>1, <1>2, <1>3, <1>5, BlankIsHeader
  <2> QED
    BY <2>1, <1>1, <1>3, <1>7 DEF Cache
<1>9. ListsOK(f)
  <2>0. /\ f.bh[i].blk = None
        /\ \A j \in BufferHead \ {i} : f.bh[j] = c.bh[j]
    BY <1>1, <1>3 DEF Blank
  <2>1. \A j, k \in BufferHead : f.bh[j].blk = f.bh[k].blk /\ f.bh[j].blk # None => j = k
    BY <2>0 DEF ListsOK
  <2>2. \A j \in BufferHead : j \in ToSet(f.free) <=> f.bh[j].blk = None
    BY <2>0, <1>7 DEF ListsOK
  <2>3. ASSUME NEW r \in Rows
        PROVE  /\ NoRepeat(f.hash[r])
               /\ \A j \in BufferHead :
                    j \in ToSet(f.hash[r]) <=> f.bh[j].blk # None /\ Row[f.bh[j].blk] = r
    <3>1. CASE r = row
      <4>1. f.hash[r] = rest
        BY <3>1, <1>1, <1>3
      <4>2. \A j \in BufferHead : j \in ToSet(chain) <=> c.bh[j].blk # None /\ Row[c.bh[j].blk] = r
        BY <3>1, <1>2 DEF ListsOK, Rows
      <4> QED
        BY <4>1, <4>2, <2>0, <1>5
    <3>2. CASE r # row
      <4>1. f.hash[r] = c.hash[r] /\ NoRepeat(c.hash[r])
        BY <3>2, <1>1, <1>3 DEF ListsOK, Rows
      <4>2. \A j \in BufferHead :
              j \in ToSet(c.hash[r]) <=> c.bh[j].blk # None /\ Row[c.bh[j].blk] = r
        BY DEF ListsOK, Rows
      <4>3. i \notin ToSet(c.hash[r])
        BY <4>2, <3>2
      <4> QED
        BY <4>1, <4>2, <4>3, <2>0
    <3> QED
      BY <3>1, <3>2
  <2> QED
    BY <2>1, <2>2, <2>3, <1>7 DEF ListsOK, Rows
<1> QED
  BY <1>3, <1>7, <1>8, <1>9 DEF f

LEMMA ListsSame ==
  ASSUME NEW c, NEW d, ListsOK(c), d.free = c.free, d.hash = c.hash,
         \A i \in BufferHead : d.bh[i].blk = c.bh[i].blk
  PROVE  ListsOK(d)
BY DEF ListsOK

(***************************************************************************)
(* What a block reads as: its buffer if there is a valid one.              *)
(***************************************************************************)
LEMMA ViewOfBuffer ==
  ASSUME NEW c, ListsOK(c), NEW i \in BufferHead, c.bh[i].blk # None, c.bh[i].valid
  PROVE  ViewIn(c, c.bh[i].blk) = c.bh[i].data
<1>1. CachedIn(c, c.bh[i].blk) = {i}
  BY DEF CachedIn, ListsOK
<1> QED
  BY <1>1 DEF ViewIn

LEMMA ViewOfDevice ==
  ASSUME NEW c, NEW b, \A i \in BufferHead : c.bh[i].blk = b => ~c.bh[i].valid
  PROVE  ViewIn(c, b) = c.device[b]
BY DEF ViewIn, CachedIn

LEMMA ViewSame ==
  ASSUME NEW c, NEW d, NEW b, CachedIn(d, b) = CachedIn(c, b),
         \A i \in CachedIn(d, b) : d.bh[i] = c.bh[i], d.device[b] = c.device[b]
  PROVE  ViewIn(d, b) = ViewIn(c, b)
BY DEF ViewIn

(***************************************************************************)
(* r is c after some buffers have been written back or given up.           *)
(***************************************************************************)
Synced(c, r) ==
  /\ \A b \in Block \ Broken :
       ViewIn(r, b) = ViewIn(c, b) /\ r.device[b] \in {c.device[b], ViewIn(c, b)}
  /\ \A b \in Broken : r.device[b] = c.device[b]
  /\ \A i \in BufferHead :
       /\ r.bh[i].cnt = c.bh[i].cnt
       /\ r.bh[i].blk # c.bh[i].blk => r.bh[i].blk = None /\ c.bh[i].cnt = 0
       /\ r.bh[i].blk = c.bh[i].blk => r.bh[i].valid = c.bh[i].valid

LEMMA SyncedReflexive ==
  ASSUME NEW c PROVE Synced(c, c)
BY DEF Synced

LEMMA SyncedTransitive ==
  ASSUME NEW c, NEW d, NEW e, Synced(c, d), Synced(d, e)
  PROVE  Synced(c, e)
BY DEF Synced

LEMMA WriteBackEffect ==
  ASSUME NEW c, Good(c), NEW i \in BufferHead, c.bh[i].blk # None
  PROVE  LET w == WriteBack(c, i)
         IN  /\ w \in Cache /\ ListsOK(w)
             /\ w.bh = [c.bh EXCEPT ![i].dirt = FALSE]
             /\ \A b \in Block :
                  w.device[b] = IF b = c.bh[i].blk /\ b \notin Broken /\ c.bh[i].dirt
                                THEN c.bh[i].data ELSE c.device[b]
             /\ w.free = c.free /\ w.pos = c.pos
<1> DEFINE w == WriteBack(c, i)
<1> DEFINE blk == c.bh[i].blk
<1>1. /\ c.bh \in [BufferHead -> Header] /\ c.free \in Seq(BufferHead)
      /\ c.hash \in [Rows -> Seq(BufferHead)] /\ c.pos \in BufferHead
      /\ c.device \in [Block -> Data]
      /\ c = [bh |-> c.bh, free |-> c.free, hash |-> c.hash, pos |-> c.pos, device |-> c.device]
      /\ ListsOK(c) /\ (c.bh[i].dirt => c.bh[i].valid) /\ c.bh[i] \in Header
  BY DEF Good, Cache, BuffersOK, BufferOK
<1>2. blk \in Block /\ c.bh[i].data \in Data /\ c.bh[i].dirt \in BOOLEAN
  BY <1>1 DEF Header
<1>3. CASE ~c.bh[i].dirt
  <2>1. w = c
    BY <1>3 DEF WriteBack
  <2>2. [c.bh EXCEPT ![i].dirt = FALSE] = c.bh
    BY <1>1, <1>3 DEF Header
  <2>3. c \in Cache
    BY DEF Good
  <2> QED
    BY <2>1, <2>2, <2>3, <1>1, <1>3
<1>4. CASE c.bh[i].dirt
  <2> DEFINE nbh == [c.bh EXCEPT ![i].dirt = FALSE]
  <2> DEFINE ndev == [c.device EXCEPT ![blk] = IF blk \in Broken THEN @ ELSE c.bh[i].data]
  <2>1. w = [c EXCEPT !.bh = nbh, !.device = ndev]
    BY <1>1, <1>4 DEF WriteBack
  <2>2. nbh \in [BufferHead -> Header]
    BY <1>1 DEF Header
  <2>3. ndev \in [Block -> Data]
    BY <1>1, <1>2
  <2> HIDE DEF w
  <2>4. w = [bh |-> nbh, free |-> c.free, hash |-> c.hash, pos |-> c.pos, device |-> ndev]
    <3> HIDE DEF nbh, ndev
    <3> QED
      BY <2>1, <1>1
  <2>5. w \in Cache
    <3> HIDE DEF nbh, ndev
    <3> QED
      BY <2>2, <2>3, <2>4, <1>1 DEF Cache
  <2>6. \A j \in BufferHead : w.bh[j].blk = c.bh[j].blk
    BY <2>4, <1>1 DEF Header
  <2>7. w.free = c.free /\ w.hash = c.hash /\ w.pos = c.pos /\ w.bh = nbh /\ w.device = ndev
    BY <2>4
  <2>8. ListsOK(w)
    BY <2>6, <2>7, <1>1, ListsSame
  <2>9. \A b \in Block : ndev[b] = IF b = blk /\ b \notin Broken THEN c.bh[i].data ELSE c.device[b]
    BY <1>1, <1>2
  <2> QED
    BY <2>5, <2>7, <2>8, <2>9, <1>4 DEF w
<1> QED
  BY <1>2, <1>3, <1>4

(***************************************************************************)
(* One turn of sync_blks() at a cached buffer.                             *)
(***************************************************************************)
LEMMA SyncTurnEffect ==
  ASSUME NEW c, Good(c), NEW i \in BufferHead, c.bh[i].blk # None
  PROVE  LET r == SyncTurn(c, i)
         IN  /\ Good(r) /\ Synced(c, r)
             /\ ~r.bh[i].dirt /\ \A j \in BufferHead \ {i} : r.bh[j] = c.bh[j]
             /\ c.bh[i].cnt = 0 => r.bh[i].blk = None /\ r.free # <<>>
             /\ c.bh[i].cnt # 0 => r.free = c.free
             /\ r.pos = c.pos
<1> DEFINE blk == c.bh[i].blk
<1> DEFINE w == WriteBack(c, i)
<1> DEFINE r == SyncTurn(c, i)
<1>1. /\ c \in Cache /\ ListsOK(c) /\ BuffersOK(c) /\ c.bh \in [BufferHead -> Header]
      /\ c.bh[i] \in Header /\ blk \in Block
  <2>1. c \in Cache /\ ListsOK(c) /\ BuffersOK(c) /\ c.bh \in [BufferHead -> Header]
    BY DEF Good, Cache
  <2> QED
    BY <2>1 DEF Header
<1>2. /\ w \in Cache /\ ListsOK(w)
      /\ w.bh = [c.bh EXCEPT ![i].dirt = FALSE]
      /\ \A b \in Block : w.device[b] = IF b = blk /\ b \notin Broken /\ c.bh[i].dirt
                                       THEN c.bh[i].data ELSE c.device[b]
      /\ w.free = c.free /\ w.pos = c.pos
  BY WriteBackEffect
<1>3. r = IF w.bh[i].cnt = 0 THEN FreeBuffer(w, i) ELSE w
  BY DEF SyncTurn
<1> HIDE DEF w, r
<1>4. /\ \A j \in BufferHead \ {i} : w.bh[j] = c.bh[j]
      /\ w.bh[i].blk = blk /\ w.bh[i].cnt = c.bh[i].cnt /\ w.bh[i].valid = c.bh[i].valid
      /\ w.bh[i].data = c.bh[i].data /\ w.bh[i].dirt = FALSE
  BY <1>1, <1>2 DEF Header
<1>5. \A j \in BufferHead \ {i} : c.bh[j].blk # blk
  BY <1>1 DEF ListsOK
<1>6. /\ c.bh[i].dirt => c.bh[i].valid
      /\ c.bh[i].valid /\ ~c.bh[i].dirt /\ blk \notin Broken => c.bh[i].data = c.device[blk]
  BY <1>1 DEF BuffersOK, BufferOK
<1>v. c.bh[i].valid \in BOOLEAN /\ c.bh[i].dirt \in BOOLEAN
  BY <1>1 DEF Header
<1>7. ~c.bh[i].valid => ViewIn(c, blk) = c.device[blk]
  BY <1>5, ViewOfDevice
<1>8. c.bh[i].valid => ViewIn(c, blk) = c.bh[i].data
  BY <1>1, ViewOfBuffer
<1>9. \A b \in Block :
        /\ b \notin Broken => w.device[b] \in {c.device[b], ViewIn(c, b)}
        /\ b \in Broken => w.device[b] = c.device[b]
        /\ b # blk => w.device[b] = c.device[b]
  BY <1>2, <1>6, <1>8
<1>10. \A j \in BufferHead \ {i} : BufferOK(c, j) /\ c.bh[j].blk \in Block \cup {None}
  BY <1>1 DEF BuffersOK, Header
<1>11. ASSUME NEW d, d.device = w.device, ListsOK(d),
              \A j \in BufferHead \ {i} : d.bh[j] = c.bh[j]
       PROVE  /\ \A j \in BufferHead \ {i} : BufferOK(d, j)
              /\ \A b \in Block :
                   b # blk /\ (d.bh[i].valid => d.bh[i].blk # b) => ViewIn(d, b) = ViewIn(c, b)
  <2>1. ASSUME NEW j \in BufferHead \ {i} PROVE BufferOK(d, j)
    BY <1>5, <1>9, <1>10, <1>11 DEF BufferOK
  <2>2. ASSUME NEW b \in Block, b # blk, d.bh[i].valid => d.bh[i].blk # b
        PROVE  ViewIn(d, b) = ViewIn(c, b)
    <3>1. CASE \E j \in BufferHead : c.bh[j].blk = b /\ c.bh[j].valid
      <4>1. PICK j \in BufferHead : c.bh[j].blk = b /\ c.bh[j].valid
        BY <3>1
      <4>2. j # i /\ b # None
        BY <4>1, <2>2, BlankIsHeader
      <4>3. d.bh[j] = c.bh[j]
        BY <4>2, <1>11
      <4> QED
        BY <4>1, <4>2, <4>3, <1>1, <1>11, ViewOfBuffer
    <3>2. CASE \A j \in BufferHead : c.bh[j].blk = b => ~c.bh[j].valid
      <4>1. ViewIn(c, b) = c.device[b]
        BY <3>2, ViewOfDevice
      <4>2. ViewIn(d, b) = d.device[b]
        BY <3>2, <2>2, <1>11, ViewOfDevice
      <4> QED
        BY <4>1, <4>2, <2>2, <1>9, <1>11
    <3> QED
      BY <3>1, <3>2
  <2> QED
    BY <2>1, <2>2
<1>12. CASE c.bh[i].cnt = 0
  <2>1. r = FreeBuffer(w, i)
    BY <1>3, <1>4, <1>12
  <2>2. /\ r \in Cache /\ ListsOK(r) /\ r.bh = [w.bh EXCEPT ![i] = Blank]
        /\ r.device = w.device /\ r.pos = w.pos /\ r.free # <<>>
    BY <2>1, <1>2, <1>4, FreeEffect
  <2>3. r.bh[i] = Blank /\ \A j \in BufferHead \ {i} : r.bh[j] = c.bh[j]
    BY <2>2, <1>2, <1>4 DEF Cache
  <2>4. /\ r.bh[i].blk = None /\ r.bh[i].cnt = 0 /\ ~r.bh[i].valid /\ ~r.bh[i].dirt
    BY <2>3 DEF Blank
  <2>5. BuffersOK(r)
    BY <2>2, <2>3, <2>4, <1>11 DEF BuffersOK, BufferOK
  <2>6. ViewIn(r, blk) = w.device[blk]
    <3>1. \A j \in BufferHead : r.bh[j].blk = blk => ~r.bh[j].valid
      BY <2>3, <2>4, <1>5
    <3>2. ViewIn(r, blk) = r.device[blk]
      <4> HIDE DEF blk
      <4> QED
        BY <3>1, ViewOfDevice
    <3> QED
      BY <3>2, <2>2
  <2>7. blk \notin Broken => ViewIn(r, blk) = ViewIn(c, blk)
    BY <2>6, <1>1, <1>2, <1>6, <1>7, <1>8, <1>v
  <2>8. \A b \in Block \ Broken : ViewIn(r, b) = ViewIn(c, b)
    BY <2>2, <2>3, <2>4, <2>7, <1>11
  <2>9. Synced(c, r)
    BY <2>2, <2>3, <2>4, <2>8, <1>9, <1>12, BlankIsHeader, BufferAssumption DEF Synced
  <2> QED
    BY <2>2, <2>3, <2>4, <2>5, <2>9, <1>2, <1>12 DEF Good, r
<1>13. CASE c.bh[i].cnt # 0
  <2>1. r = w
    BY <1>3, <1>4, <1>13
  <2>2. BufferOK(w, i)
    BY <1>1, <1>2, <1>4, <1>6, <1>13, <1>v DEF BufferOK
  <2>3. BuffersOK(w)
    BY <2>2, <1>2, <1>4, <1>11 DEF BuffersOK
  <2>4. ViewIn(w, blk) = ViewIn(c, blk)
    <3>1. CASE c.bh[i].valid
      <4>1. w.bh[i].blk # None /\ w.bh[i].valid
        BY <3>1, <1>4
      <4>2. ViewIn(w, w.bh[i].blk) = w.bh[i].data
        BY <4>1, <1>2, ViewOfBuffer
      <4> QED
        BY <4>2, <3>1, <1>4, <1>8
    <3>2. CASE ~c.bh[i].valid
      <4>1. \A j \in BufferHead : w.bh[j].blk = blk => ~w.bh[j].valid
        BY <3>2, <1>4, <1>5
      <4>2. ViewIn(w, blk) = w.device[blk]
        <5> HIDE DEF blk
        <5> QED
          BY <4>1, ViewOfDevice
      <4> QED
        BY <3>2, <4>2, <1>1, <1>2, <1>6, <1>7
    <3> QED
      BY <3>1, <3>2, <1>v
  <2>5. \A b \in Block : ViewIn(w, b) = ViewIn(c, b)
    BY <2>4, <1>2, <1>4, <1>11
  <2>6. Synced(c, w)
    BY <2>5, <1>4, <1>9, BufferAssumption DEF Synced
  <2> QED
    BY <2>1, <2>3, <2>6, <1>2, <1>4, <1>13 DEF Good, r
<1> QED
  BY <1>12, <1>13

-----------------------------------------------------------------------------
(***************************************************************************)
(* sync_blks() goes once round the buffers: Place(p, t) is where it is     *)
(* after t turns when it begins behind p.                                  *)
(***************************************************************************)
Place(p, t) == IF p + t < NR_BUFFERS THEN p + t ELSE p + t - NR_BUFFERS

LEMMA PlaceFacts ==
  ASSUME NEW p \in BufferHead
  PROVE  /\ Place(p, 0) = p
         /\ (p + 1) % NR_BUFFERS \in BufferHead
         /\ \A t \in 1..NR_BUFFERS : (Place(p, t - 1) + 1) % NR_BUFFERS = Place(p, t)
         /\ \A i \in BufferHead : \E t \in 1..NR_BUFFERS : Place(p, t) = i
<1> DEFINE N == NR_BUFFERS
<1>1. N \in Nat \ {0} /\ BufferHead = 0..(N - 1) /\ p \in 0..(N - 1)
  BY BufferAssumption DEF BufferHead
<1>2. \A x \in 0..(N - 1) : (x + 1) % N = IF x + 1 = N THEN 0 ELSE x + 1
  <2> SUFFICES ASSUME NEW x \in 0..(N - 1) PROVE (x + 1) % N = IF x + 1 = N THEN 0 ELSE x + 1
    OBVIOUS
  <2>1. N % N = 0
    BY <1>1
  <2>2. CASE x + 1 = N
    BY <2>1, <2>2
  <2>3. CASE x + 1 # N
    <3>1. x + 1 \in 0..(N - 1)
      BY <2>3, <1>1
    <3> HIDE DEF N
    <3> QED
      BY <3>1, <2>3, <1>1
  <2> QED
    BY <2>2, <2>3
<1>3. \A t \in 0..N : Place(p, t) = IF p + t < N THEN p + t ELSE p + t - N
  BY DEF Place
<1> HIDE DEF N
<1>4. \A t \in 1..N : (Place(p, t - 1) + 1) % N = Place(p, t)
  <2> SUFFICES ASSUME NEW t \in 1..N PROVE (Place(p, t - 1) + 1) % N = Place(p, t)
    OBVIOUS
  <2>1. t - 1 \in 0..N /\ t \in 0..N
    BY <1>1
  <2> DEFINE x == Place(p, t - 1)
  <2>2. x = IF p + (t - 1) < N THEN p + (t - 1) ELSE p + (t - 1) - N
    BY <1>3, <2>1
  <2>3. x \in 0..(N - 1)
    BY <1>1, <2>1, <2>2
  <2>4. (x + 1) % N = IF x + 1 = N THEN 0 ELSE x + 1
    BY <1>2, <2>3
  <2> HIDE DEF x
  <2>5. Place(p, t) = IF p + t < N THEN p + t ELSE p + t - N
    BY <1>3, <2>1
  <2>6. (x + 1) % N = Place(p, t)
    BY <1>1, <2>1, <2>2, <2>4, <2>5
  <2> QED
    BY <2>6 DEF x
<1>5. ASSUME NEW i \in 0..(N - 1) PROVE \E t \in 1..N : Place(p, t) = i
  <2>1. CASE i > p
    <3>1. i - p \in 1..N /\ i - p \in 0..N /\ Place(p, i - p) = i
      BY <2>1, <1>1, <1>3
    <3> QED
      BY <3>1
  <2>2. CASE ~(i > p)
    <3>1. i + N - p \in 1..N /\ i + N - p \in 0..N /\ Place(p, i + N - p) = i
      BY <2>2, <1>1, <1>3
    <3> QED
      BY <3>1
  <2> QED
    BY <2>1, <2>2
<1>6. Place(p, 0) = p /\ (p + 1) % N \in BufferHead
  BY <1>1, <1>2, <1>3
<1> QED
  BY <1>1, <1>4, <1>5, <1>6 DEF N

Turns0 == [c : {c \in Cache : Good(c)}, cnt : Nat]

LEMMA MovePos ==
  ASSUME NEW c, Good(c), NEW i \in BufferHead
  PROVE  LET d == [c EXCEPT !.pos = i]
         IN  /\ Good(d) /\ Synced(c, d) /\ d.pos = i
             /\ d.bh = c.bh /\ d.free = c.free
<1> DEFINE d == [c EXCEPT !.pos = i]
<1>1. /\ d.bh = c.bh /\ d.free = c.free /\ d.hash = c.hash /\ d.pos = i
      /\ d.device = c.device /\ d \in Cache
  BY DEF Good, Cache
<1> HIDE DEF d
<1>2. ListsOK(d) /\ BuffersOK(d)
  BY <1>1 DEF Good, ListsOK, BuffersOK, BufferOK
<1>3. \A b : ViewIn(d, b) = ViewIn(c, b)
  BY <1>1 DEF ViewIn, CachedIn
<1> QED
  BY <1>1, <1>2, <1>3 DEF Good, Synced, d

LEMMA SyncNextEffect ==
  ASSUME NEW s \in Turns0, NEW out \in Int
  PROVE  LET n == SyncNext(s, out)
             i == (s.c.pos + 1) % NR_BUFFERS
         IN  /\ n \in Turns0 /\ Synced(s.c, n.c)
             /\ s.cnt > out => n = s
             /\ s.cnt =< n.cnt /\ n.cnt =< s.cnt + 1
             /\ (s.cnt > 0 => s.c.free # <<>>) => (n.cnt > 0 => n.c.free # <<>>)
             /\ s.cnt =< out =>
                  /\ i \in BufferHead /\ n.c.pos = i /\ ~n.c.bh[i].dirt
                  /\ n.c.bh[i].cnt = 0 => n.c.bh[i].blk = None
                  /\ \A j \in BufferHead \ {i} : n.c.bh[j] = s.c.bh[j]
<1> DEFINE i == (s.c.pos + 1) % NR_BUFFERS
<1> DEFINE d == [s.c EXCEPT !.pos = i]
<1> DEFINE n == SyncNext(s, out)
<1>1. s.cnt \in Nat /\ Good(s.c) /\ s = [c |-> s.c, cnt |-> s.cnt] /\ s.c.pos \in BufferHead
  BY DEF Turns0, Cache
<1>2. i \in BufferHead
  BY <1>1, PlaceFacts
<1>3. /\ Good(d) /\ Synced(s.c, d) /\ d.pos = i /\ d.bh = s.c.bh /\ d.free = s.c.free
  BY <1>1, <1>2, MovePos
<1>4. n = IF s.cnt > out THEN s
          ELSE IF d.bh[i].blk = None THEN [s EXCEPT !.c = d]
          ELSE [c |-> SyncTurn(d, i), cnt |-> IF d.bh[i].cnt = 0 THEN s.cnt + 1 ELSE s.cnt]
  BY DEF SyncNext, SyncEnds
<1> HIDE DEF d, n, i
<1>5. CASE s.cnt > out
  <2>1. n = s /\ Synced(s.c, s.c)
    BY <1>4, <1>5, SyncedReflexive
  <2>2. ~(s.cnt =< out) /\ s.cnt =< s.cnt /\ s.cnt =< s.cnt + 1
    BY <1>1, <1>5
  <2> QED
    BY <2>1, <2>2 DEF n, i
<1>6. CASE ~(s.cnt > out) /\ d.bh[i].blk = None
  <2>1. n = [c |-> d, cnt |-> s.cnt]
    BY <1>1, <1>4, <1>6
  <2>2. n \in Turns0 /\ n.c = d /\ n.cnt = s.cnt
    BY <2>1, <1>1, <1>3 DEF Turns0, Good
  <2>3. ~d.bh[i].dirt
    BY <1>2, <1>3, <1>6 DEF Good, BuffersOK, BufferOK
  <2>4. s.cnt =< n.cnt /\ n.cnt =< s.cnt + 1 /\ ~(s.cnt > out)
    BY <2>2, <1>1, <1>6
  <2> QED
    BY <2>2, <2>3, <2>4, <1>2, <1>3, <1>6 DEF n, i
<1>7. CASE ~(s.cnt > out) /\ d.bh[i].blk # None
  <2> DEFINE r == SyncTurn(d, i)
  <2>1. /\ Good(r) /\ Synced(d, r)
        /\ ~r.bh[i].dirt /\ \A j \in BufferHead \ {i} : r.bh[j] = d.bh[j]
        /\ d.bh[i].cnt = 0 => r.bh[i].blk = None /\ r.free # <<>>
        /\ d.bh[i].cnt # 0 => r.free = d.free
        /\ r.pos = d.pos
    BY <1>2, <1>3, <1>7, SyncTurnEffect
  <2>2. n = [c |-> r, cnt |-> IF d.bh[i].cnt = 0 THEN s.cnt + 1 ELSE s.cnt]
    BY <1>4, <1>7
  <2> HIDE DEF r
  <2>3. n \in Turns0 /\ n.c = r /\ n.cnt = IF d.bh[i].cnt = 0 THEN s.cnt + 1 ELSE s.cnt
    BY <2>1, <2>2, <1>1 DEF Turns0, Good
  <2>4. s.cnt =< n.cnt /\ n.cnt =< s.cnt + 1 /\ ~(s.cnt > out)
    BY <2>3, <1>1, <1>7
  <2>5. Synced(s.c, r)
    BY <2>1, <1>3, SyncedTransitive
  <2>6. r.bh[i].cnt = d.bh[i].cnt
    BY <2>1, <1>2 DEF Synced
  <2>7. (s.cnt > 0 => s.c.free # <<>>) => (n.cnt > 0 => r.free # <<>>)
    BY <2>1, <2>3, <1>3
  <2> QED
    BY <2>1, <2>3, <2>4, <2>5, <2>6, <2>7, <1>2, <1>3, <1>7 DEF n, i
<1> QED
  BY <1>5, <1>6, <1>7

(***************************************************************************)
(* What sync_blks() achieves: it frees a buffer unless all are pinned, and *)
(* leaves none dirty when it goes all the way round.                       *)
(***************************************************************************)
LEMMA SyncRunStarts ==
  ASSUME NEW c, Good(c), NEW out \in Int
  PROVE  /\ SyncRun(c, out)[0] = [c |-> c, cnt |-> 0] /\ [c |-> c, cnt |-> 0] \in Turns0
         /\ \A t \in 1..NR_BUFFERS :
              /\ SyncRun(c, out)[t - 1] \in Turns0
              /\ SyncRun(c, out)[t] = SyncNext(SyncRun(c, out)[t - 1], out)
         /\ SyncRun(c, out)[NR_BUFFERS] \in Turns0
<1> DEFINE N == NR_BUFFERS
<1> DEFINE x0 == [c |-> c, cnt |-> 0]
<1> DEFINE step == [t \in 1..N |-> [s \in Turns0 |-> SyncNext(s, out)]]
<1> DEFINE IsRun(f) == f = [t \in 0..N |-> IF t = 0 THEN x0 ELSE SyncNext(f[t - 1], out)]
<1> DEFINE run == CHOOSE f : IsRun(f)
<1>1. N \in Nat /\ x0 \in Turns0
  BY BufferAssumption DEF Turns0, Good
<1>2. \A s \in Turns0 : SyncNext(s, out) \in Turns0
  BY SyncNextEffect
<1>3. step \in [1..N -> [Turns0 -> Turns0]] /\ \A t \in 1..N, s \in Turns0 : step[t][s] = SyncNext(s, out)
  BY <1>2
<1> HIDE DEF step, x0, N
<1>4. \E f : RunOf(f, N, Turns0, x0, step)
  <2>1. step \in [1..N -> [Turns0 -> Turns0]]
    BY <1>3
  <2> QED
    BY <2>1, <1>1, RunExists
<1>5. PICK f \in [0..N -> Turns0] : f[0] = x0 /\ \A t \in 1..N : f[t] = step[t][f[t - 1]]
  BY <1>4 DEF RunOf
<1>6. \A t \in 0..N : t # 0 => t \in 1..N /\ t - 1 \in 0..N
  BY <1>1
<1>7. IsRun(f)
  <2>1. ASSUME NEW t \in 0..N, t # 0 PROVE f[t] = SyncNext(f[t - 1], out)
    <3>1. t \in 1..N /\ f[t - 1] \in Turns0
      BY <2>1, <1>6
    <3> QED
      BY <3>1, <1>3, <1>5
  <2>2. \A t \in 0..N : f[t] = IF t = 0 THEN x0 ELSE SyncNext(f[t - 1], out)
    BY <2>1, <1>5
  <2> QED
    BY <2>2
<1>8. IsRun(run)
  <2> HIDE DEF IsRun
  <2> QED
    BY <1>7
<1>9. SyncRun(c, out) = run
  BY DEF SyncRun, x0, N
<1> HIDE DEF run
<1>10. run[0] = x0 /\ \A t \in 1..N : run[t] = SyncNext(run[t - 1], out)
  <2>1. 0 \in 0..N /\ \A t \in 1..N : t \in 0..N /\ t # 0
    BY <1>1
  <2> QED
    BY <2>1, <1>8
<1> DEFINE P == [t \in 0..N |-> run[t] \in Turns0]
<1>11. \A t \in 0..N : P[t]
  <2>1. P[0]
    <3>1. 0 \in 0..N
      BY <1>1
    <3> QED
      BY <3>1, <1>1, <1>10
  <2>2. \A t \in 1..N : P[t - 1] => P[t]
    <3> SUFFICES ASSUME NEW t \in 1..N, P[t - 1] PROVE P[t]
      OBVIOUS
    <3>1. t - 1 \in 0..N /\ t \in 0..N
      BY <1>1
    <3> QED
      BY <3>1, <1>2, <1>10
  <2> HIDE DEF P
  <2> QED
    BY <2>1, <2>2, <1>1, TurnByTurn
<1>12. ASSUME NEW t \in 0..N PROVE run[t] \in Turns0
  BY <1>11
<1>13. N \in 0..N /\ \A t \in 1..N : t - 1 \in 0..N
  BY <1>1
<1> QED
  BY <1>1, <1>9, <1>10, <1>12, <1>13 DEF x0, N

LEMMA SyncBlksEffect ==
  ASSUME NEW c, Good(c), NEW out \in Nat
  PROVE  LET r == SyncBlks(c, out)
         IN  /\ Good(r) /\ Synced(c, r)
             /\ r.free = <<>> => \A i \in BufferHead : c.bh[i].cnt # 0
             /\ out = NR_BUFFERS - 1 => \A i \in BufferHead : ~r.bh[i].dirt
<1> DEFINE N == NR_BUFFERS
<1> DEFINE p == c.pos
<1> DEFINE run == SyncRun(c, out)
<1> DEFINE Clean(x, u) == ~x.bh[Place(p, u)].dirt /\
                          (x.bh[Place(p, u)].cnt = 0 => x.bh[Place(p, u)].blk = None)
<1> DEFINE Seen(t) == run[t].c.pos = Place(p, t) /\ \A u \in 1..t : Clean(run[t].c, u)
<1> DEFINE Q(t) ==
             /\ Synced(c, run[t].c) /\ run[t].cnt =< t
             /\ run[t].cnt > 0 => run[t].c.free # <<>>
             /\ run[t].cnt =< out \/ t - 1 =< out => Seen(t)
<1> DEFINE P == [t \in 0..N |-> Q(t)]
<1>1. N \in Nat \ {0} /\ p \in BufferHead /\ out \in Int /\ out \in Nat
  <2>1. out \in Int
    OBVIOUS
  <2> QED
    BY <2>1, BufferAssumption DEF Good, Cache
<1>2. /\ run[0] = [c |-> c, cnt |-> 0]
      /\ \A t \in 1..N : run[t - 1] \in Turns0 /\ run[t] = SyncNext(run[t - 1], out)
      /\ run[N] \in Turns0
  <2>1. out \in Int
    BY <1>1
  <2> QED
    BY <2>1, SyncRunStarts
<1>3. /\ Place(p, 0) = p
      /\ \A t \in 1..N : (Place(p, t - 1) + 1) % N = Place(p, t)
      /\ \A i \in BufferHead : \E t \in 1..N : Place(p, t) = i
  BY <1>1, PlaceFacts
<1>r. \A x : x = c => x.pos = p
  OBVIOUS
<1> HIDE DEF run, p
<1>4. P[0]
  <2>1. 0 \in 0..N /\ 1..0 = {} /\ 0 =< 0 /\ ~(0 > 0)
    BY <1>1
  <2>2. run[0].c = c /\ run[0].cnt = 0
    BY <1>2
  <2>3. Seen(0)
    BY <2>1, <2>2, <1>3, <1>r
  <2> HIDE DEF Seen
  <2>4. Q(0)
    BY <2>1, <2>2, <2>3, SyncedReflexive
  <2> QED
    BY <2>1, <2>4
<1>5. ASSUME NEW t \in 1..N, P[t - 1] PROVE P[t]
  <2> DEFINE s == run[t - 1]
  <2> DEFINE n == run[t]
  <2> DEFINE i == (s.c.pos + 1) % N
  <2>1. t \in Nat /\ t \in 0..N /\ t - 1 \in 0..N /\ t - 1 \in Nat
    BY <1>1
  <2>2. /\ Synced(c, s.c) /\ s.cnt =< t - 1 /\ (s.cnt > 0 => s.c.free # <<>>)
        /\ s.cnt =< out \/ (t - 1) - 1 =< out => Seen(t - 1)
    <3>1. Q(t - 1)
      <4> HIDE DEF Q
      <4> QED
        BY <1>5, <2>1
    <3> HIDE DEF Seen
    <3> QED
      BY <3>1
  <2>3. s \in Turns0 /\ n = SyncNext(s, out)
    BY <1>2
  <2>4. /\ n \in Turns0 /\ Synced(s.c, n.c)
        /\ s.cnt > out => n = s
        /\ s.cnt =< n.cnt /\ n.cnt =< s.cnt + 1
        /\ (s.cnt > 0 => s.c.free # <<>>) => (n.cnt > 0 => n.c.free # <<>>)
        /\ s.cnt =< out =>
             /\ i \in BufferHead /\ n.c.pos = i /\ ~n.c.bh[i].dirt
             /\ n.c.bh[i].cnt = 0 => n.c.bh[i].blk = None
             /\ \A j \in BufferHead \ {i} : n.c.bh[j] = s.c.bh[j]
    <3> HIDE DEF s, n
    <3> QED
      BY <2>3, <1>1, SyncNextEffect
  <2>5. s.cnt \in Nat /\ n.cnt \in Nat
    BY <2>3, <2>4 DEF Turns0
  <2>s. Seen(t - 1) => s.c.pos = Place(p, t - 1) /\ \A u \in 1..(t - 1) : Clean(s.c, u)
    BY DEF Seen
  <2>t. Seen(t) <=> n.c.pos = Place(p, t) /\ \A u \in 1..t : Clean(n.c, u)
    BY DEF Seen
  <2> HIDE DEF s, n, Seen, Q
  <2>6. Synced(c, n.c) /\ n.cnt =< t /\ (n.cnt > 0 => n.c.free # <<>>)
    <3>1. Synced(c, n.c)
      BY <2>2, <2>4, SyncedTransitive
    <3>2. n.cnt =< t
      BY <2>1, <2>2, <2>4, <2>5
    <3> QED
      BY <3>1, <3>2, <2>2, <2>4
  <2>7. ASSUME n.cnt =< out \/ t - 1 =< out PROVE Seen(t)
    <3>1. s.cnt =< out
      BY <1>1, <2>1, <2>2, <2>4, <2>5, <2>7
    <3>2. Seen(t - 1)
      BY <2>2, <3>1
    <3>3. s.c.pos = Place(p, t - 1) /\ \A u \in 1..(t - 1) : Clean(s.c, u)
      BY <2>s, <3>2
    <3>4. i = Place(p, t)
      BY <3>3, <1>3
    <3> HIDE DEF i
    <3>5. n.c.pos = Place(p, t)
      BY <2>4, <3>1, <3>4
    <3>6. ASSUME NEW u \in 1..t PROVE Clean(n.c, u)
      <4>1. CASE Place(p, u) = i
        BY <4>1, <2>4, <3>1
      <4>2. CASE Place(p, u) # i
        <5>1. u # t
          BY <4>2, <3>4
        <5>2. u \in 1..(t - 1)
          BY <5>1, <2>1
        <5>3. Place(p, u) \in BufferHead
          <6>1. u \in Nat /\ u =< N /\ 1 =< u
            BY <1>1, <2>1
          <6> QED
            BY <6>1, <1>1 DEF Place, BufferHead
        <5>4. n.c.bh[Place(p, u)] = s.c.bh[Place(p, u)]
          BY <4>2, <5>3, <2>4, <3>1
        <5> QED
          BY <5>2, <5>4, <3>3
      <4> QED
        BY <4>1, <4>2
    <3> HIDE DEF Clean
    <3> QED
      BY <3>5, <3>6, <2>t
  <2>8. Q(t)
    BY <2>6, <2>7 DEF Q, n
  <2> QED
    BY <2>1, <2>8
<1> DEFINE last == run[N]
<1> DEFINE r == last.c
<1>6. Synced(c, r) /\ (last.cnt > 0 => r.free # <<>>) /\ last.cnt =< N /\
      (last.cnt =< out \/ N - 1 =< out => \A u \in 1..N : Clean(r, u))
  <2>1. N \in 0..N /\ N \in Nat
    BY <1>1
  <2>2. P[N]
    <3> HIDE DEF P, N
    <3> QED
      BY <1>1, <1>4, <1>5, <2>1, TurnByTurn
  <2>3. Q(N)
    <3> HIDE DEF Q
    <3> QED
      BY <2>1, <2>2
  <2>4. Seen(N) => \A u \in 1..N : Clean(r, u)
    <3> HIDE DEF Clean
    <3> QED
      OBVIOUS
  <2> HIDE DEF Seen, Clean
  <2> QED
    BY <2>3, <2>4
<1>7. Good(r) /\ last.cnt \in Nat
  BY <1>2 DEF Turns0
<1>8. SyncBlks(c, out) = r
  BY DEF SyncBlks, run
<1> HIDE DEF last
<1>9. ASSUME r.free = <<>>, NEW i \in BufferHead PROVE c.bh[i].cnt # 0
  <2>1. last.cnt = 0
    BY <1>6, <1>7, <1>9
  <2>2. PICK u \in 1..N : Place(p, u) = i
    BY <1>3
  <2>3. last.cnt =< out
    BY <2>1, <1>1
  <2>4. Clean(r, u)
    BY <2>3, <1>6
  <2>5. r.bh[i].cnt = 0 => r.bh[i].blk = None
    BY <2>2, <2>4
  <2>6. r.bh[i].blk # None
    <3>1. ToSet(r.free) = {}
      BY <1>9 DEF ToSet
    <3> QED
      BY <3>1, <1>7 DEF Good, ListsOK
  <2>7. r.bh[i].cnt = c.bh[i].cnt
    BY <1>6 DEF Synced
  <2> QED
    BY <2>5, <2>6, <2>7
<1>10. ASSUME out = N - 1, NEW i \in BufferHead PROVE ~r.bh[i].dirt
  <2>1. PICK u \in 1..N : Place(p, u) = i
    BY <1>3
  <2>2. N - 1 =< out
    BY <1>1, <1>10
  <2>3. Clean(r, u)
    BY <2>2, <1>6
  <2> QED
    BY <2>1, <2>3
<1> QED
  BY <1>6, <1>7, <1>8, <1>9, <1>10 DEF N

(***************************************************************************)
(* sync_dev_blks() goes once over the buffers of a device.                 *)
(***************************************************************************)
GoodCaches == {c \in Cache : Good(c)}

LEMMA SyncDevTurnEffect ==
  ASSUME NEW c \in GoodCaches, NEW i \in BufferHead, NEW dev
  PROVE  SyncDevTurn(c, i, dev) \in GoodCaches /\ Synced(c, SyncDevTurn(c, i, dev))
<1> DEFINE r == SyncDevTurn(c, i, dev)
<1>1. Good(c) /\ Synced(c, c)
  BY SyncedReflexive DEF GoodCaches
<1>2. r = c \/ (c.bh[i].blk # None /\ r = SyncTurn(c, i))
  BY DEF SyncDevTurn
<1>3. c.bh[i].blk # None => Good(SyncTurn(c, i)) /\ Synced(c, SyncTurn(c, i))
  BY <1>1, SyncTurnEffect
<1> HIDE DEF r
<1>4. Good(r) /\ Synced(c, r)
  BY <1>1, <1>2, <1>3
<1>5. r \in GoodCaches
  BY <1>4 DEF GoodCaches, Good
<1> QED
  BY <1>4, <1>5 DEF r

LEMMA SyncDevEffect ==
  ASSUME NEW c, Good(c), NEW dev
  PROVE  /\ Good(SyncDevRun(c, dev)[NR_BUFFERS])
         /\ Synced(c, SyncDevRun(c, dev)[NR_BUFFERS])
<1> DEFINE N == NR_BUFFERS
<1> DEFINE step == [t \in 1..N |-> [s \in GoodCaches |-> SyncDevTurn(s, t - 1, dev)]]
<1> DEFINE IsRun(f) == f = [t \in 0..N |-> IF t = 0 THEN c ELSE SyncDevTurn(f[t - 1], t - 1, dev)]
<1> DEFINE run == CHOOSE f : IsRun(f)
<1>1. N \in Nat /\ c \in GoodCaches /\ Synced(c, c) /\ \A t \in 1..N : t - 1 \in BufferHead
  BY BufferAssumption, SyncedReflexive DEF GoodCaches, Good, BufferHead
<1>2. \A t \in 1..N, s \in GoodCaches :
        /\ SyncDevTurn(s, t - 1, dev) \in GoodCaches
        /\ Synced(s, SyncDevTurn(s, t - 1, dev))
  BY <1>1, SyncDevTurnEffect
<1>3. /\ step \in [1..N -> [GoodCaches -> GoodCaches]]
      /\ \A t \in 1..N, s \in GoodCaches : step[t][s] = SyncDevTurn(s, t - 1, dev)
  BY <1>2
<1> HIDE DEF step, N
<1>4. \E f : RunOf(f, N, GoodCaches, c, step)
  <2>1. step \in [1..N -> [GoodCaches -> GoodCaches]]
    BY <1>3
  <2> QED
    BY <2>1, <1>1, RunExists
<1>5. PICK f \in [0..N -> GoodCaches] : f[0] = c /\ \A t \in 1..N : f[t] = step[t][f[t - 1]]
  BY <1>4 DEF RunOf
<1>6. \A t \in 0..N : t # 0 => t \in 1..N /\ t - 1 \in 0..N
  BY <1>1
<1>7. IsRun(f)
  <2>1. ASSUME NEW t \in 0..N, t # 0 PROVE f[t] = SyncDevTurn(f[t - 1], t - 1, dev)
    <3>1. t \in 1..N /\ f[t - 1] \in GoodCaches
      BY <2>1, <1>6
    <3> QED
      BY <3>1, <1>3, <1>5
  <2>2. \A t \in 0..N : f[t] = IF t = 0 THEN c ELSE SyncDevTurn(f[t - 1], t - 1, dev)
    BY <2>1, <1>5
  <2> QED
    BY <2>2
<1>8. IsRun(run)
  <2> HIDE DEF IsRun
  <2> QED
    BY <1>7
<1>9. SyncDevRun(c, dev) = run
  BY DEF SyncDevRun, N
<1> HIDE DEF run
<1>10. run[0] = c /\ \A t \in 1..N : run[t] = SyncDevTurn(run[t - 1], t - 1, dev)
  <2>1. 0 \in 0..N /\ \A t \in 1..N : t \in 0..N /\ t # 0
    BY <1>1
  <2> QED
    BY <2>1, <1>8
<1> DEFINE P == [t \in 0..N |-> run[t] \in GoodCaches /\ Synced(c, run[t])]
<1>11. \A t \in 0..N : P[t]
  <2>1. P[0]
    <3>1. 0 \in 0..N
      BY <1>1
    <3> QED
      BY <3>1, <1>1, <1>10
  <2>2. \A t \in 1..N : P[t - 1] => P[t]
    <3> SUFFICES ASSUME NEW t \in 1..N, P[t - 1] PROVE P[t]
      OBVIOUS
    <3>1. t - 1 \in 0..N /\ t \in 0..N
      BY <1>1
    <3>2. run[t - 1] \in GoodCaches /\ Synced(c, run[t - 1])
      BY <3>1
    <3>3. run[t] \in GoodCaches /\ Synced(run[t - 1], run[t])
      BY <3>2, <1>2, <1>10
    <3>4. Synced(c, run[t])
      BY <3>2, <3>3, SyncedTransitive
    <3> QED
      BY <3>1, <3>3, <3>4
  <2> HIDE DEF P
  <2> QED
    BY <2>1, <2>2, <1>1, TurnByTurn
<1>12. N \in 0..N
  BY <1>1
<1>13. run[N] \in GoodCaches /\ Synced(c, run[N])
  BY <1>11, <1>12
<1> QED
  BY <1>9, <1>13 DEF N, GoodCaches

(***************************************************************************)
(* The pins on all buffers together are more than those on one; and there  *)
(* are as many as buffers when each has one.                               *)
(***************************************************************************)
LEMMA PinsFacts ==
  ASSUME \A i \in BufferHead : bh[i].cnt \in Nat
  PROVE  /\ Pins \in Nat /\ \A i \in BufferHead : bh[i].cnt =< Pins
         /\ (\A i \in BufferHead : bh[i].cnt # 0) => NR_BUFFERS =< Pins
<1> DEFINE N == NR_BUFFERS
<1> DEFINE step == [t \in 1..N |-> [x \in Nat |-> x + bh[t - 1].cnt]]
<1> DEFINE IsRun(f) == f = [n \in 0..N |-> IF n = 0 THEN 0 ELSE f[n - 1] + bh[n - 1].cnt]
<1> DEFINE run == CHOOSE f : IsRun(f)
<1>1. N \in Nat /\ 0 \in Nat /\ \A t \in 1..N : t - 1 \in BufferHead
  BY BufferAssumption DEF BufferHead
<1>2. \A t \in 1..N, x \in Nat : x + bh[t - 1].cnt \in Nat
  BY <1>1
<1>3. /\ step \in [1..N -> [Nat -> Nat]]
      /\ \A t \in 1..N, x \in Nat : step[t][x] = x + bh[t - 1].cnt
  BY <1>2
<1>b. \A i \in BufferHead : i + 1 \in 1..N /\ (i + 1) - 1 = i
  BY BufferAssumption DEF BufferHead
<1> HIDE DEF step, N
<1>4. \E f : RunOf(f, N, Nat, 0, step)
  <2>1. step \in [1..N -> [Nat -> Nat]]
    BY <1>3
  <2> QED
    BY <2>1, <1>1, RunExists
<1>5. PICK f \in [0..N -> Nat] : f[0] = 0 /\ \A t \in 1..N : f[t] = step[t][f[t - 1]]
  BY <1>4 DEF RunOf
<1>6. \A t \in 0..N : t # 0 => t \in 1..N /\ t - 1 \in 0..N
  BY <1>1
<1>7. IsRun(f)
  <2>1. ASSUME NEW t \in 0..N, t # 0 PROVE f[t] = f[t - 1] + bh[t - 1].cnt
    <3>1. t \in 1..N /\ f[t - 1] \in Nat
      BY <2>1, <1>6
    <3> QED
      BY <3>1, <1>3, <1>5
  <2>2. \A t \in 0..N : f[t] = IF t = 0 THEN 0 ELSE f[t - 1] + bh[t - 1].cnt
    BY <2>1, <1>5
  <2> QED
    BY <2>2
<1>8. IsRun(run)
  <2> HIDE DEF IsRun
  <2> QED
    BY <1>7
<1>9. PinsBelow = run
  BY DEF PinsBelow, N
<1> HIDE DEF run
<1>10. run[0] = 0 /\ \A t \in 1..N : run[t] = run[t - 1] + bh[t - 1].cnt
  <2>1. 0 \in 0..N /\ \A t \in 1..N : t \in 0..N /\ t # 0
    BY <1>1
  <2> QED
    BY <2>1, <1>8
<1> DEFINE AllPinned == \A i \in BufferHead : bh[i].cnt # 0
<1> DEFINE Q(t) ==
             /\ run[t] \in Nat /\ \A u \in 1..t : bh[u - 1].cnt =< run[t]
             /\ AllPinned => t =< run[t]
<1> DEFINE P == [t \in 0..N |-> Q(t)]
<1>11. \A t \in 0..N : P[t]
  <2>1. P[0]
    <3>1. 0 \in 0..N /\ 1..0 = {} /\ 0 =< 0
      BY <1>1
    <3> QED
      BY <3>1, <1>10
  <2>2. \A t \in 1..N : P[t - 1] => P[t]
    <3> SUFFICES ASSUME NEW t \in 1..N, P[t - 1] PROVE P[t]
      OBVIOUS
    <3>1. t - 1 \in 0..N /\ t \in 0..N /\ t - 1 \in BufferHead /\ t \in Nat
      BY <1>1
    <3>2. Q(t - 1)
      <4> HIDE DEF Q
      <4> QED
        BY <3>1
    <3> DEFINE x == run[t - 1]
    <3> DEFINE y == bh[t - 1].cnt
    <3>3. x \in Nat /\ y \in Nat /\ run[t] = x + y
      BY <3>1, <3>2, <1>10
    <3>4. \A u \in 1..(t - 1) : bh[u - 1].cnt =< x /\ bh[u - 1].cnt \in Nat
      <4>1. \A u \in 1..(t - 1) : u \in 1..N
        BY <3>1, <1>1
      <4> QED
        BY <4>1, <3>2, <1>1
    <3>5. AllPinned => t - 1 =< x /\ y # 0
      BY <3>1, <3>2
    <3> HIDE DEF x, y, AllPinned
    <3>6. \A u \in 1..t : bh[u - 1].cnt =< x + y
      <4> SUFFICES ASSUME NEW u \in 1..t PROVE bh[u - 1].cnt =< x + y
        OBVIOUS
      <4>1. u \in 1..(t - 1) \/ u = t
        BY <3>1
      <4>2. CASE u \in 1..(t - 1)
        <5>1. bh[u - 1].cnt =< x /\ bh[u - 1].cnt \in Nat
          BY <4>2, <3>4
        <5> QED
          BY <5>1, <3>3
      <4>3. CASE u = t
        <5>1. bh[u - 1].cnt = y
          BY <4>3 DEF y
        <5> QED
          BY <5>1, <3>3
      <4> QED
        BY <4>1, <4>2, <4>3
    <3>7. AllPinned => t =< x + y
      BY <3>1, <3>3, <3>5
    <3>8. x + y \in Nat
      BY <3>3
    <3> QED
      BY <3>1, <3>3, <3>6, <3>7, <3>8
  <2> HIDE DEF P
  <2> QED
    BY <2>1, <2>2, <1>1, TurnByTurn
<1>12. N \in 0..N
  BY <1>1
<1>13. Q(N)
  <2> HIDE DEF Q
  <2> QED
    BY <1>11, <1>12
<1>14. Pins = run[N]
  BY <1>9 DEF Pins, N
<1>15. \A i \in BufferHead : bh[i].cnt =< run[N]
  <2> SUFFICES ASSUME NEW i \in BufferHead PROVE bh[i].cnt =< run[N]
    OBVIOUS
  <2>1. i + 1 \in 1..N /\ (i + 1) - 1 = i
    BY <1>b
  <2>2. bh[(i + 1) - 1].cnt =< run[N]
    BY <2>1, <1>13
  <2> QED
    BY <2>1, <2>2
<1> QED
  BY <1>13, <1>14, <1>15 DEF N

-----------------------------------------------------------------------------
(***************************************************************************)
(* One buffer of a good cache gets a new header, for the same block.       *)
(***************************************************************************)
Headed(c, i, h) == [c EXCEPT !.bh[i] = h]

LEMMA ChangeHeader ==
  ASSUME NEW c, Good(c), NEW i \in BufferHead, NEW h \in Header, h.blk = c.bh[i].blk
  PROVE  LET d == Headed(c, i, h)
         IN  /\ d \in Cache /\ ListsOK(d) /\ d.bh = [c.bh EXCEPT ![i] = h]
             /\ d.bh[i] = h /\ \A j \in BufferHead \ {i} : d.bh[j] = c.bh[j]
             /\ d.free = c.free /\ d.hash = c.hash /\ d.pos = c.pos /\ d.device = c.device
             /\ BufferOK(d, i) => Good(d)
             /\ \A b \in Block : b # h.blk => ViewIn(d, b) = ViewIn(c, b)
             /\ h.blk # None => ViewIn(d, h.blk) = IF h.valid THEN h.data ELSE c.device[h.blk]
<1> DEFINE nbh == [c.bh EXCEPT ![i] = h]
<1> DEFINE d == [c EXCEPT !.bh = nbh]
<1>1. /\ c.bh \in [BufferHead -> Header] /\ c.free \in Seq(BufferHead)
      /\ c.hash \in [Rows -> Seq(BufferHead)] /\ c.pos \in BufferHead
      /\ c.device \in [Block -> Data] /\ ListsOK(c) /\ BuffersOK(c)
      /\ c = [bh |-> c.bh, free |-> c.free, hash |-> c.hash, pos |-> c.pos, device |-> c.device]
  BY DEF Good, Cache
<1>2. nbh \in [BufferHead -> Header] /\ nbh[i] = h /\ \A j \in BufferHead \ {i} : nbh[j] = c.bh[j]
  BY <1>1
<1> HIDE DEF nbh
<1>3. d = [bh |-> nbh, free |-> c.free, hash |-> c.hash, pos |-> c.pos, device |-> c.device]
  BY <1>1
<1> HIDE DEF d
<1>4. /\ d.bh = nbh /\ d.free = c.free /\ d.hash = c.hash /\ d.pos = c.pos
      /\ d.device = c.device /\ d \in Cache
  BY <1>1, <1>2, <1>3 DEF Cache
<1>5. ListsOK(d)
  <2>1. \A j \in BufferHead : d.bh[j].blk = c.bh[j].blk
    BY <1>2, <1>4
  <2> QED
    BY <2>1, <1>1, <1>4, ListsSame
<1>6. BufferOK(d, i) => Good(d)
  <2>1. \A j \in BufferHead \ {i} : BufferOK(c, j) => BufferOK(d, j)
    BY <1>2, <1>4 DEF BufferOK
  <2> QED
    BY <2>1, <1>1, <1>4, <1>5 DEF Good, BuffersOK
<1>7. ASSUME NEW b \in Block, b # h.blk PROVE ViewIn(d, b) = ViewIn(c, b)
  <2>1. CachedIn(d, b) = CachedIn(c, b) /\ i \notin CachedIn(d, b)
    BY <1>2, <1>4, <1>7 DEF CachedIn
  <2>2. \A j \in CachedIn(d, b) : d.bh[j] = c.bh[j]
    BY <2>1, <1>2, <1>4 DEF CachedIn
  <2> QED
    BY <2>1, <2>2, <1>4 DEF ViewIn
<1>8. ASSUME h.blk # None
      PROVE  ViewIn(d, h.blk) = IF h.valid THEN h.data ELSE c.device[h.blk]
  <2> DEFINE b == h.blk
  <2>1. d.bh[i] = h /\ \A j \in BufferHead : d.bh[j].blk = b => j = i
    BY <1>2, <1>4, <1>5, <1>8 DEF ListsOK
  <2>2. CASE h.valid
    <3>1. ViewIn(d, d.bh[i].blk) = d.bh[i].data
      BY <2>1, <2>2, <1>5, <1>8, ViewOfBuffer
    <3> QED
      BY <3>1, <2>1, <2>2
  <2>3. CASE ~h.valid
    <3>1. \A j \in BufferHead : d.bh[j].blk = b => ~d.bh[j].valid
      BY <2>1, <2>3
    <3> HIDE DEF b
    <3>2. ViewIn(d, b) = d.device[b]
      BY <3>1, ViewOfDevice
    <3> QED
      BY <3>2, <2>3, <1>4 DEF b
  <2> QED
    BY <2>2, <2>3
<1>9. Headed(c, i, h) = d
  BY DEF d, nbh, Headed
<1> QED
  BY <1>2, <1>4, <1>5, <1>6, <1>7, <1>8, <1>9 DEF nbh

(***************************************************************************)
(* get_buffer() finds a free buffer unless every one is pinned.            *)
(***************************************************************************)
LEMMA RoomEffect ==
  ASSUME NEW c, Good(c)
  PROVE  /\ Good(Room(c)) /\ Synced(c, Room(c))
         /\ Room(c).free = <<>> => \A i \in BufferHead : c.bh[i].cnt # 0
<1>1. CASE c.free # <<>>
  BY <1>1, SyncedReflexive DEF Room
<1>2. CASE c.free = <<>>
  <2>1. Room(c) = SyncBlks(c, OUT_BLKS) /\ OUT_BLKS \in Nat
    BY <1>2, BufferAssumption DEF Room
  <2> QED
    BY <2>1, SyncBlksEffect
<1> QED
  BY <1>1, <1>2

(***************************************************************************)
(* get_blk() pins the buffer of the block: in the cache as it is or, when  *)
(* the block is not cached, as get_buffer() leaves it.                     *)
(***************************************************************************)
Searched(c, b) == IF FindBuffer(c, b) = None THEN Room(c) ELSE c

Pinned(x, b, n) == [x EXCEPT !.blk = b, !.cnt = n]

LEMMA PinnedHeader ==
  ASSUME NEW x \in Header, NEW b \in Block, NEW n \in Nat
  PROVE  LET h == Pinned(x, b, n)
         IN  /\ h \in Header /\ h.blk = b /\ h.cnt = n
             /\ h.valid = x.valid /\ h.data = x.data /\ h.dirt = x.dirt
             /\ x.blk = b => [x EXCEPT !.cnt = n] = h
BY DEF Header, Pinned

LEMMA GetBlkEffect ==
  ASSUME NEW c, Good(c), NEW b \in Block, ~Stuck(c, b)
  PROVE  LET i == GetBlk(c, b).i
             d == GetBlk(c, b).c
             r == Searched(c, b)
         IN  /\ Good(r) /\ Synced(c, r)
             /\ i \in BufferHead /\ d \in Cache /\ Good(d)
             /\ d.bh[i] = Pinned(r.bh[i], b, r.bh[i].cnt + 1)
             /\ r.bh[i].blk \in {b, None}
             /\ \A j \in BufferHead \ {i} : d.bh[j] = r.bh[j]
             /\ d.device = r.device
             /\ \A a \in Block : ViewIn(d, a) = ViewIn(r, a)
<1> DEFINE r == Searched(c, b)
<1> DEFINE i == GetBlk(c, b).i
<1> DEFINE d == GetBlk(c, b).c
<1>1. c \in Cache /\ ListsOK(c) /\ BuffersOK(c)
  BY DEF Good
<1>2. CASE FindBuffer(c, b) # None
  <2>1. /\ r = c /\ i = FindBuffer(c, b)
        /\ d = [c EXCEPT !.bh[FindBuffer(c, b)].cnt = @ + 1]
    BY <1>2 DEF GetBlk, Searched
  <2>2. i \in BufferHead /\ c.bh[i].blk = b
    BY <1>1, <1>2, <2>1, FindEffect
  <2> DEFINE x == c.bh[i]
  <2> DEFINE h == Pinned(x, b, x.cnt + 1)
  <2>3. x \in Header /\ x.cnt + 1 \in Nat /\ x.cnt + 1 # 0
    <3>1. x \in Header
      BY <1>1, <2>2 DEF Cache
    <3>2. x.cnt \in Nat
      BY <3>1 DEF Header
    <3> HIDE DEF x
    <3> QED
      BY <3>1, <3>2
  <2>5. /\ h \in Header /\ h.blk = b /\ h.cnt = x.cnt + 1 /\ h.valid = x.valid
        /\ h.data = x.data /\ h.dirt = x.dirt
        /\ x.blk = b => [x EXCEPT !.cnt = x.cnt + 1] = h
    <3> HIDE DEF x
    <3> QED
      BY <2>3, PinnedHeader
  <2>4. d = Headed(c, i, h)
    <3>1. d = [c EXCEPT !.bh[i] = [x EXCEPT !.cnt = x.cnt + 1]]
      BY <2>1
    <3> HIDE DEF h, d
    <3> QED
      BY <3>1, <2>2, <2>5 DEF Headed
  <2> HIDE DEF h, r, i, d
  <2>6. /\ d \in Cache /\ ListsOK(d) /\ d.bh = [c.bh EXCEPT ![i] = h]
        /\ d.bh[i] = h /\ \A j \in BufferHead \ {i} : d.bh[j] = c.bh[j]
        /\ d.free = c.free /\ d.hash = c.hash /\ d.pos = c.pos /\ d.device = c.device
        /\ BufferOK(d, i) => Good(d)
        /\ \A a \in Block : a # h.blk => ViewIn(d, a) = ViewIn(c, a)
        /\ h.blk # None => ViewIn(d, h.blk) = IF h.valid THEN h.data ELSE c.device[h.blk]
    BY <2>2, <2>4, <2>5, ChangeHeader
  <2>7. b # None
    BY BlankIsHeader
  <2>8. BufferOK(c, i)
    BY <1>1, <2>2 DEF BuffersOK
  <2>9. Good(d)
    <3>1. BufferOK(d, i)
      BY <2>2, <2>3, <2>5, <2>6, <2>7, <2>8 DEF BufferOK
    <3> QED
      BY <3>1, <2>6
  <2>10. ViewIn(d, b) = ViewIn(c, b)
    <3>1. CASE c.bh[i].valid
      <4>1. ViewIn(c, c.bh[i].blk) = c.bh[i].data
        BY <3>1, <2>2, <2>7, <1>1, ViewOfBuffer
      <4> QED
        BY <3>1, <4>1, <2>2, <2>5, <2>6, <2>7
    <3>2. CASE ~c.bh[i].valid
      <4>1. \A j \in BufferHead : c.bh[j].blk = b => ~c.bh[j].valid
        BY <3>2, <2>2, <2>7, <1>1 DEF ListsOK
      <4>2. ViewIn(c, b) = c.device[b]
        BY <4>1, ViewOfDevice
      <4> QED
        BY <3>2, <4>2, <2>5, <2>6, <2>7
    <3> QED
      BY <3>1, <3>2
  <2>11. \A a \in Block : ViewIn(d, a) = ViewIn(c, a)
    BY <2>5, <2>6, <2>10
  <2>12. Synced(c, c)
    BY SyncedReflexive
  <2> QED
    BY <2>1, <2>2, <2>5, <2>6, <2>9, <2>11, <2>12 DEF r, i, d, h
<1>3. CASE FindBuffer(c, b) = None
  <2>1. /\ r = Room(c) /\ i = Head(r.free)
        /\ d = [r EXCEPT !.free = Tail(@), !.hash[Row[b]] = Append(@, i),
                        !.bh[i] = [@ EXCEPT !.blk = b, !.cnt = 1]]
    BY <1>3 DEF GetBlk, Searched
  <2>2. Good(r) /\ Synced(c, r) /\ r.free # <<>>
    BY <1>3, <2>1, RoomEffect DEF Stuck
  <2> HIDE DEF r, i, d
  <2>3. /\ r.bh \in [BufferHead -> Header] /\ r.free \in Seq(BufferHead)
        /\ r.hash \in [Rows -> Seq(BufferHead)] /\ r.pos \in BufferHead
        /\ r.device \in [Block -> Data] /\ ListsOK(r) /\ BuffersOK(r)
        /\ r = [bh |-> r.bh, free |-> r.free, hash |-> r.hash, pos |-> r.pos, device |-> r.device]
    BY <2>2 DEF Good, Cache
  <2>4. \A j \in BufferHead : r.bh[j].blk # b
    <3>1. \A j \in BufferHead : c.bh[j].blk # b
      BY <1>1, <1>3, FindEffect
    <3> QED
      BY <3>1, <2>2, BlankIsHeader DEF Synced
  <2>5. /\ i \in BufferHead /\ i \in ToSet(r.free) /\ Tail(r.free) \in Seq(BufferHead)
        /\ NoRepeat(Tail(r.free)) /\ ToSet(Tail(r.free)) = ToSet(r.free) \ {i}
    <3> DEFINE s == r.free
    <3>1. s \in Seq(BufferHead) /\ NoRepeat(s) /\ s # <<>> /\ i = Head(s)
      BY <2>1, <2>2, <2>3 DEF ListsOK
    <3> HIDE DEF s
    <3>2. /\ Head(s) \in BufferHead /\ Head(s) \in ToSet(s)
          /\ Tail(s) \in Seq(BufferHead) /\ NoRepeat(Tail(s))
          /\ ToSet(Tail(s)) = ToSet(s) \ {Head(s)}
      BY <3>1, TailOnce
    <3> QED
      BY <3>1, <3>2 DEF s
  <2>6. r.bh[i].blk = None /\ r.bh[i].cnt = 0 /\ ~r.bh[i].valid /\ ~r.bh[i].dirt /\ r.bh[i] \in Header
    BY <2>3, <2>5 DEF ListsOK, BuffersOK, BufferOK
  <2> DEFINE row == Row[b]
  <2> DEFINE chain == r.hash[row]
  <2>7. row \in Rows /\ chain \in Seq(BufferHead)
    BY <2>3 DEF Rows
  <2> HIDE DEF row
  <2>8. NoRepeat(chain) /\ i \notin ToSet(chain)
    BY <2>3, <2>5, <2>6, <2>7 DEF ListsOK, Rows
  <2> DEFINE ext == Append(chain, i)
  <2>9. ext \in Seq(BufferHead) /\ NoRepeat(ext) /\ ToSet(ext) = ToSet(chain) \cup {i}
    <3> HIDE DEF chain
    <3> QED
      BY <2>5, <2>7, <2>8, AppendOnce
  <2> DEFINE y == r.bh[i]
  <2> DEFINE h == Pinned(y, b, y.cnt + 1)
  <2> DEFINE nbh == [r.bh EXCEPT ![i] = h]
  <2> DEFINE nhash == [r.hash EXCEPT ![row] = ext]
  <2> DEFINE nfree == Tail(r.free)
  <2>10. d = [r EXCEPT !.free = nfree, !.hash = nhash, !.bh = nbh]
    <3>1. y.cnt + 1 = 1
      BY <2>6
    <3> QED
      BY <3>1, <2>1 DEF row, Pinned
  <2>11. h \in Header /\ h.blk = b /\ h.cnt = 1 /\ ~h.valid /\ ~h.dirt
    <3>1. y \in Header /\ y.cnt + 1 \in Nat /\ y.cnt + 1 = 1 /\ ~y.valid /\ ~y.dirt
      BY <2>6
    <3> HIDE DEF y
    <3>2. /\ h \in Header /\ h.blk = b /\ h.cnt = y.cnt + 1
          /\ h.valid = y.valid /\ h.data = y.data /\ h.dirt = y.dirt
      BY <3>1, PinnedHeader
    <3> QED
      BY <3>1, <3>2
  <2>12. /\ nbh \in [BufferHead -> Header] /\ nbh[i] = h
         /\ \A j \in BufferHead \ {i} : nbh[j] = r.bh[j]
    <3> HIDE DEF h
    <3> QED
      BY <2>3, <2>5, <2>11
  <2>13. /\ nhash \in [Rows -> Seq(BufferHead)] /\ nhash[row] = ext
         /\ \A x \in Rows \ {row} : nhash[x] = r.hash[x]
    <3> HIDE DEF ext
    <3> QED
      BY <2>3, <2>7, <2>9
  <2> HIDE DEF nbh, nhash, nfree, h, ext, chain
  <2>14. d = [bh |-> nbh, free |-> nfree, hash |-> nhash, pos |-> r.pos, device |-> r.device]
    BY <2>3, <2>10
  <2>15. /\ d.bh = nbh /\ d.free = nfree /\ d.hash = nhash /\ d.device = r.device
         /\ d \in Cache
    BY <2>3, <2>5, <2>12, <2>13, <2>14 DEF Cache, nfree
  <2>16. d.bh[i] = h /\ \A j \in BufferHead \ {i} : d.bh[j] = r.bh[j]
    BY <2>12, <2>15
  <2>17. ListsOK(d)
    <3> DEFINE was(j) == r.bh[j].blk
    <3> DEFINE is(j) == d.bh[j].blk
    <3>a. /\ is(i) = b /\ was(i) = None /\ b # None
          /\ \A j \in BufferHead \ {i} : is(j) = was(j) /\ is(j) # b
      BY <2>4, <2>6, <2>11, <2>16, BlankIsHeader
    <3>b. /\ \A j, k \in BufferHead : was(j) = was(k) /\ was(j) # None => j = k
          /\ \A j \in BufferHead : j \in ToSet(r.free) <=> was(j) = None
          /\ \A x \in Rows : NoRepeat(r.hash[x])
          /\ \A x \in Rows, j \in BufferHead :
               j \in ToSet(r.hash[x]) <=> was(j) # None /\ Row[was(j)] = x
      BY <2>3 DEF ListsOK, Rows
    <3> HIDE DEF was
    <3>1. \A j, k \in BufferHead : is(j) = is(k) /\ is(j) # None => j = k
      <4> HIDE DEF is
      <4> QED
        BY <3>a, <3>b
    <3>2. NoRepeat(d.free) /\ \A j \in BufferHead : j \in ToSet(d.free) <=> is(j) = None
      <4>1. d.free = Tail(r.free)
        BY <2>15 DEF nfree
      <4> HIDE DEF is
      <4> QED
        BY <4>1, <3>a, <3>b, <2>5
    <3>3. ASSUME NEW x \in Rows
          PROVE  /\ NoRepeat(d.hash[x])
                 /\ \A j \in BufferHead :
                      j \in ToSet(d.hash[x]) <=> is(j) # None /\ Row[is(j)] = x
      <4> HIDE DEF is
      <4>1. CASE x = row
        <5>1. d.hash[x] = ext /\ chain = r.hash[x] /\ Row[b] = x
          BY <4>1, <2>13, <2>15 DEF chain, row
        <5>2. \A j \in BufferHead \ {i} : j \in ToSet(ext) <=> j \in ToSet(chain)
          BY <2>9
        <5>3. i \in ToSet(ext) /\ NoRepeat(ext)
          BY <2>9
        <5> QED
          BY <5>1, <5>2, <5>3, <3>a, <3>b
      <4>2. CASE x # row
        <5>1. d.hash[x] = r.hash[x] /\ NoRepeat(r.hash[x]) /\ Row[b] # x
          BY <4>2, <3>b, <2>13, <2>15 DEF row
        <5>2. i \notin ToSet(r.hash[x])
          BY <3>a, <3>b, <2>5
        <5> QED
          BY <5>1, <5>2, <3>a, <3>b, <2>5
      <4> QED
        BY <4>1, <4>2
    <3> QED
      BY <3>1, <3>2, <3>3 DEF ListsOK, Rows
  <2>18. BuffersOK(d)
    <3>1. BufferOK(d, i)
      BY <2>11, <2>16, BlankIsHeader DEF BufferOK
    <3>2. \A j \in BufferHead \ {i} : BufferOK(r, j) => BufferOK(d, j)
      BY <2>15, <2>16 DEF BufferOK
    <3> QED
      BY <3>1, <3>2, <2>3 DEF BuffersOK
  <2>19. ASSUME NEW a \in Block PROVE ViewIn(d, a) = ViewIn(r, a)
    <3>1. i \notin CachedIn(d, a) /\ i \notin CachedIn(r, a)
      BY <2>6, <2>11, <2>16 DEF CachedIn
    <3>2. CachedIn(d, a) = CachedIn(r, a)
      BY <3>1, <2>16 DEF CachedIn
    <3>3. \A j \in CachedIn(d, a) : d.bh[j] = r.bh[j]
      BY <3>1, <2>16 DEF CachedIn
    <3> QED
      BY <3>2, <3>3, <2>15 DEF ViewIn
  <2>20. Good(d)
    BY <2>15, <2>17, <2>18 DEF Good
  <2> QED
    BY <2>2, <2>5, <2>6, <2>11, <2>15, <2>16, <2>19, <2>20 DEF r, i, d, h
<1> QED
  BY <1>2, <1>3

(***************************************************************************)
(* brelse() of a pinned buffer takes the pin away, and gives up the buffer *)
(* when it was the last one and nothing is to be written.                  *)
(***************************************************************************)
LEMMA ReleaseEffect ==
  ASSUME NEW c, Good(c), NEW i \in BufferHead, c.bh[i].cnt # 0
  PROVE  LET r == Release(c, i)
             x == c.bh[i]
         IN  /\ Good(r) /\ r.device = c.device
             /\ \A j \in BufferHead \ {i} : r.bh[j] = c.bh[j]
             /\ \/ r.bh[i] = Blank /\ x.cnt = 1 /\ (~x.dirt \/ ~x.valid)
                \/ r.bh[i] = Pinned(x, x.blk, x.cnt - 1) /\ (x.cnt # 1 \/ x.dirt)
             /\ \A b \in Block \ Broken : ViewIn(r, b) = ViewIn(c, b)
<1> DEFINE x == c.bh[i]
<1> DEFINE h == Pinned(x, x.blk, x.cnt - 1)
<1> DEFINE d == Headed(c, i, h)
<1> DEFINE r == Release(c, i)
<1>1. /\ c \in Cache /\ ListsOK(c) /\ BuffersOK(c) /\ x \in Header /\ BufferOK(c, i)
      /\ c.bh \in [BufferHead -> Header]
  BY DEF Good, Cache, BuffersOK
<1>2. x.blk # None /\ x.blk \in Block /\ x.cnt \in Nat /\ x.cnt # 0 /\ x.valid \in BOOLEAN
      /\ x.dirt \in BOOLEAN /\ x.cnt - 1 \in Nat
  <2>1. x.blk # None /\ x.blk \in Block /\ x.cnt \in Nat /\ x.cnt # 0 /\ x.valid \in BOOLEAN
        /\ x.dirt \in BOOLEAN
    BY <1>1 DEF BufferOK, Header
  <2> HIDE DEF x
  <2> QED
    BY <2>1
<1>3. /\ h \in Header /\ h.blk = x.blk /\ h.cnt = x.cnt - 1
      /\ h.valid = x.valid /\ h.data = x.data /\ h.dirt = x.dirt
      /\ [x EXCEPT !.cnt = x.cnt - 1] = h
  <2> DEFINE b == x.blk
  <2>1. x \in Header /\ b \in Block /\ x.cnt - 1 \in Nat /\ x.blk = b
    BY <1>1, <1>2
  <2> HIDE DEF x, b
  <2>2. /\ Pinned(x, b, x.cnt - 1) \in Header /\ Pinned(x, b, x.cnt - 1).blk = b
        /\ Pinned(x, b, x.cnt - 1).cnt = x.cnt - 1
        /\ Pinned(x, b, x.cnt - 1).valid = x.valid /\ Pinned(x, b, x.cnt - 1).data = x.data
        /\ Pinned(x, b, x.cnt - 1).dirt = x.dirt
        /\ [x EXCEPT !.cnt = x.cnt - 1] = Pinned(x, b, x.cnt - 1)
    BY <2>1, PinnedHeader
  <2> QED
    BY <2>2 DEF b
<1>4. r = IF d.bh[i].cnt = 0 /\ (~d.bh[i].dirt \/ ~d.bh[i].valid) THEN FreeBuffer(d, i) ELSE d
  <2>1. d = [c EXCEPT !.bh[i].cnt = @ - 1]
    <3>1. d = [c EXCEPT !.bh[i] = [x EXCEPT !.cnt = x.cnt - 1]]
      <4> HIDE DEF h
      <4> QED
        BY <1>3 DEF Headed
    <3> HIDE DEF h, d
    <3> QED
      BY <3>1
  <2> HIDE DEF d
  <2> QED
    BY <2>1 DEF Release
<1> HIDE DEF h, d, r
<1>5. /\ d \in Cache /\ ListsOK(d)
      /\ d.bh[i] = h /\ \A j \in BufferHead \ {i} : d.bh[j] = c.bh[j]
      /\ d.device = c.device
      /\ BufferOK(d, i) => Good(d)
      /\ \A a \in Block : a # h.blk => ViewIn(d, a) = ViewIn(c, a)
      /\ h.blk # None => ViewIn(d, h.blk) = IF h.valid THEN h.data ELSE c.device[h.blk]
  <2>1. h \in Header /\ h.blk = c.bh[i].blk /\ d = Headed(c, i, h)
    BY <1>3 DEF d
  <2> HIDE DEF x
  <2>2. /\ d \in Cache /\ ListsOK(d) /\ d.bh = [c.bh EXCEPT ![i] = h]
        /\ d.bh[i] = h /\ \A j \in BufferHead \ {i} : d.bh[j] = c.bh[j]
        /\ d.free = c.free /\ d.hash = c.hash /\ d.pos = c.pos /\ d.device = c.device
        /\ BufferOK(d, i) => Good(d)
        /\ \A a \in Block : a # h.blk => ViewIn(d, a) = ViewIn(c, a)
        /\ h.blk # None => ViewIn(d, h.blk) = IF h.valid THEN h.data ELSE c.device[h.blk]
    BY <2>1, ChangeHeader
  <2> QED
    BY <2>2
<1>6. /\ x.dirt => x.valid
      /\ x.valid /\ ~x.dirt /\ x.blk \notin Broken => x.data = c.device[x.blk]
  BY <1>1 DEF BufferOK
<1>7. x.valid => ViewIn(c, x.blk) = x.data
  BY <1>1, <1>2, ViewOfBuffer
<1>8. \A j \in BufferHead \ {i} : c.bh[j].blk # x.blk
  BY <1>1, <1>2 DEF ListsOK
<1>9. ~x.valid => ViewIn(c, x.blk) = c.device[x.blk]
  BY <1>8, ViewOfDevice
<1> HIDE DEF x
<1>10. \A a \in Block : ViewIn(d, a) = ViewIn(c, a)
  BY <1>2, <1>3, <1>5, <1>7, <1>9
<1>11. CASE h.cnt = 0 /\ (~h.dirt \/ ~h.valid)
  <2>1. r = FreeBuffer(d, i) /\ d.bh[i].blk # None
    BY <1>2, <1>3, <1>4, <1>5, <1>11
  <2>2. /\ r \in Cache /\ ListsOK(r) /\ r.bh = [d.bh EXCEPT ![i] = Blank]
        /\ r.device = d.device
    BY <2>1, <1>5, FreeEffect
  <2>3. r.bh[i] = Blank /\ \A j \in BufferHead \ {i} : r.bh[j] = c.bh[j]
    BY <2>2, <1>5 DEF Cache
  <2>4. r.bh[i].blk = None /\ r.bh[i].cnt = 0 /\ ~r.bh[i].valid /\ ~r.bh[i].dirt
    BY <2>3 DEF Blank
  <2>5. Good(r)
    <3>1. BufferOK(r, i)
      BY <2>4 DEF BufferOK
    <3>2. \A j \in BufferHead \ {i} : BufferOK(c, j) => BufferOK(r, j)
      BY <2>2, <2>3, <1>5 DEF BufferOK
    <3> QED
      BY <3>1, <3>2, <2>2, <1>1 DEF BuffersOK, Good
  <2>6. x.cnt = 1 /\ (~x.dirt \/ ~x.valid)
    BY <1>2, <1>3, <1>11
  <2>7. ASSUME NEW b \in Block \ Broken PROVE ViewIn(r, b) = ViewIn(c, b)
    <3>1. CASE b = x.blk
      <4>1. \A j \in BufferHead : r.bh[j].blk = b => ~r.bh[j].valid
        BY <3>1, <2>3, <2>4, <1>8
      <4>2. ViewIn(r, b) = r.device[b]
        BY <4>1, ViewOfDevice
      <4> QED
        BY <4>2, <3>1, <2>2, <2>6, <1>2, <1>5, <1>6, <1>7, <1>9
    <3>2. CASE b # x.blk
      <4>1. i \notin CachedIn(r, b) /\ i \notin CachedIn(c, b)
        BY <3>2, <2>4 DEF CachedIn, x
      <4>2. CachedIn(r, b) = CachedIn(c, b)
        BY <4>1, <2>3 DEF CachedIn
      <4>3. \A j \in CachedIn(r, b) : r.bh[j] = c.bh[j]
        BY <4>1, <2>3 DEF CachedIn
      <4>4. r.device[b] = c.device[b]
        BY <2>2, <1>5
      <4> QED
        BY <4>2, <4>3, <4>4, ViewSame
    <3> QED
      BY <3>1, <3>2
  <2> QED
    BY <2>2, <2>3, <2>5, <2>6, <2>7, <1>5 DEF r, x
<1>12. CASE ~(h.cnt = 0 /\ (~h.dirt \/ ~h.valid))
  <2>1. r = d
    BY <1>4, <1>5, <1>12
  <2>2. x.cnt # 1 \/ x.dirt
    BY <1>2, <1>3, <1>12
  <2>3. Good(d)
    <3>1. BufferOK(d, i)
      BY <1>2, <1>3, <1>5, <1>6, <1>12 DEF BufferOK
    <3> QED
      BY <3>1, <1>5
  <2> QED
    BY <2>1, <2>2, <2>3, <1>5, <1>10 DEF r, x, h
<1> QED
  BY <1>11, <1>12

-----------------------------------------------------------------------------
(***************************************************************************)
(* The holders of buffer i of cache c: HoldersOK for any cache and pins.   *)
(***************************************************************************)
HoldersAt(c, pins, i) ==
  /\ \A b \in Block : pins[i, b] > 0 =>
       c.bh[i].blk = b /\ c.bh[i].valid /\ pins[i, b] =< c.bh[i].cnt
  /\ c.bh[i].blk # None /\ c.bh[i].blk \notin Broken =>
       c.bh[i].valid /\ c.bh[i].cnt = pins[i, c.bh[i].blk]

PinsOK(pins) == pins \in [BufferHead \X Block -> 0..MaxPins]
CountsOK(c) == \A i \in BufferHead : c.bh[i].cnt \in 0..MaxPins
AllHeld(c, pins) == \A i \in BufferHead : HoldersAt(c, pins, i)

LEMMA InvFacts ==
  ASSUME BufferInv
  PROVE  Good(c0) /\ CountsOK(c0) /\ AllHeld(c0, held) /\ PinsOK(held)
<1>1. c0.bh = bh /\ c0.free = free_list /\ c0.hash = hash /\ c0.pos = pos /\ c0.device = device
  BY DEF c0
<1>2. bh \in [BufferHead -> Header] /\ CountsOK(c0)
  <2>1. 0..MaxPins \subseteq Nat
    BY BufferAssumption
  <2>2. ASSUME NEW i \in BufferHead PROVE bh[i] \in Header /\ bh[i].cnt \in 0..MaxPins
    <3>1. bh[i] \in [blk : Block \cup {None}, cnt : 0..MaxPins,
                     valid : BOOLEAN, dirt : BOOLEAN, data : Data]
      BY DEF BufferInv, TypeOK
    <3> QED
      BY <3>1, <2>1 DEF Header
  <2>3. bh = [i \in BufferHead |-> bh[i]]
    BY DEF BufferInv, TypeOK
  <2> QED
    BY <2>2, <2>3, <1>1 DEF CountsOK
<1>3. c0 \in Cache
  BY <1>2 DEF BufferInv, TypeOK, Cache, Rows, c0
<1> QED
  BY <1>1, <1>2, <1>3 DEF BufferInv, Good, TypeOK, HoldersOK, PinsOK, AllHeld, HoldersAt

LEMMA BecomesCache ==
  ASSUME NEW c \in Cache, Becomes(c)
  PROVE  c0' = c
<1>1. c = [bh |-> c.bh, free |-> c.free, hash |-> c.hash, pos |-> c.pos, device |-> c.device]
  BY DEF Cache
<1>2. c0' = [bh |-> bh', free |-> free_list', hash |-> hash', pos |-> pos', device |-> device']
  BY DEF c0
<1> QED
  BY <1>1, <1>2 DEF Becomes

LEMMA InvStep ==
  ASSUME NEW c, Becomes(c), Good(c), CountsOK(c), AllHeld(c, held'), PinsOK(held'),
         halt' \in {"no", "stuck", "crash"}
  PROVE  BufferInv' /\ c0' = c
<1>1. c0' = c
  BY BecomesCache DEF Good
<1>2. /\ bh' = c.bh /\ free_list' = c.free /\ hash' = c.hash /\ pos' = c.pos
      /\ device' = c.device
  BY DEF Becomes
<1>3. bh' \in [BufferHead -> [blk : Block \cup {None}, cnt : 0..MaxPins,
                             valid : BOOLEAN, dirt : BOOLEAN, data : Data]]
  <2>1. ASSUME NEW i \in BufferHead
        PROVE  c.bh[i] \in [blk : Block \cup {None}, cnt : 0..MaxPins,
                            valid : BOOLEAN, dirt : BOOLEAN, data : Data]
    <3>1. c.bh[i] \in Header /\ c.bh[i].cnt \in 0..MaxPins
      BY DEF Good, Cache, CountsOK
    <3> QED
      BY <3>1 DEF Header
  <2>2. c.bh = [i \in BufferHead |-> c.bh[i]]
    BY DEF Good, Cache
  <2> QED
    BY <2>1, <2>2, <1>2
<1>4. TypeOK'
  BY <1>2, <1>3 DEF TypeOK, Good, Cache, Rows, PinsOK
<1>5. ListsOK(c0)' /\ BuffersOK(c0)'
  BY <1>1 DEF Good, ListsOK, BuffersOK, BufferOK
<1>6. HoldersOK'
  BY <1>2 DEF HoldersOK, AllHeld, HoldersAt
<1> QED
  BY <1>1, <1>4, <1>5, <1>6 DEF BufferInv

LEMMA HoldersSynced ==
  ASSUME NEW c, NEW r, Good(c), Synced(c, r), NEW pins, PinsOK(pins),
         NEW i \in BufferHead, HoldersAt(c, pins, i)
  PROVE  HoldersAt(r, pins, i)
<1>1. /\ r.bh[i].cnt = c.bh[i].cnt
      /\ r.bh[i].blk # c.bh[i].blk => r.bh[i].blk = None /\ c.bh[i].cnt = 0
      /\ r.bh[i].blk = c.bh[i].blk => r.bh[i].valid = c.bh[i].valid
  BY DEF Synced
<1>2. \A b \in Block : pins[i, b] \in Nat
  <2>1. 0..MaxPins \subseteq Nat
    BY BufferAssumption
  <2> QED
    BY <2>1 DEF PinsOK
<1>3. ASSUME NEW b \in Block, pins[i, b] > 0
      PROVE  r.bh[i].blk = b /\ r.bh[i].valid /\ pins[i, b] =< r.bh[i].cnt
  <2>1. c.bh[i].blk = b /\ c.bh[i].valid /\ pins[i, b] =< c.bh[i].cnt /\ pins[i, b] \in Nat
    BY <1>2, <1>3 DEF HoldersAt
  <2>2. c.bh[i].cnt # 0
    <3> DEFINE n == pins[i, b]
    <3> DEFINE k == c.bh[i].cnt
    <3>1. n \in Nat /\ n > 0 /\ n =< k
      BY <2>1, <1>3
    <3> HIDE DEF n, k
    <3>2. k # 0
      BY <3>1
    <3> QED
      BY <3>2 DEF k
  <2> QED
    BY <2>1, <2>2, <1>1
<1>4. ASSUME r.bh[i].blk # None, r.bh[i].blk \notin Broken
      PROVE  r.bh[i].valid /\ r.bh[i].cnt = pins[i, r.bh[i].blk]
  <2>1. r.bh[i].blk = c.bh[i].blk
    BY <1>1, <1>4
  <2>2. c.bh[i].valid /\ c.bh[i].cnt = pins[i, c.bh[i].blk]
    BY <2>1, <1>4 DEF HoldersAt
  <2> QED
    BY <2>1, <2>2, <1>1
<1> QED
  BY <1>3, <1>4 DEF HoldersAt

LEMMA HoldersSame ==
  ASSUME NEW c, NEW d, NEW pins, NEW pins2, NEW i, HoldersAt(c, pins, i), d.bh[i] = c.bh[i],
         \A b : pins2[i, b] = pins[i, b]
  PROVE  HoldersAt(d, pins2, i)
BY DEF HoldersAt

(***************************************************************************)
(* The buffer of get_blk(): what is known of its pins and of the others.   *)
(***************************************************************************)
LEMMA GotBuffer ==
  ASSUME BufferInv, NEW b \in Block, ~Stuck(c0, b)
  PROVE  LET i == GetBlk(c0, b).i
             d == GetBlk(c0, b).c
             r == Searched(c0, b)
         IN  /\ i \in BufferHead /\ Good(d) /\ Synced(c0, r)
             /\ d.bh[i] = Pinned(r.bh[i], b, r.bh[i].cnt + 1)
             /\ r.bh[i].blk \in {b, None} /\ r.bh[i] \in Header
             /\ d.device = r.device
             /\ \A a \in Block : ViewIn(d, a) = ViewIn(r, a)
             /\ r.bh[i].cnt = bh[i].cnt /\ r.bh[i].cnt \in 0..MaxPins
             /\ \A j \in BufferHead \ {i} :
                  HoldersAt(d, held, j) /\ d.bh[j].cnt \in 0..MaxPins
             /\ \A a \in Block : held[i, a] > 0 =>
                  a = b /\ r.bh[i].valid /\ held[i, a] =< r.bh[i].cnt
             /\ b \notin Broken =>
                  r.bh[i].cnt = held[i, b] /\ (r.bh[i].blk = b => r.bh[i].valid)
<1> DEFINE i == GetBlk(c0, b).i
<1> DEFINE d == GetBlk(c0, b).c
<1> DEFINE r == Searched(c0, b)
<1>1. Good(c0) /\ CountsOK(c0) /\ AllHeld(c0, held) /\ PinsOK(held)
  BY InvFacts
<1>2. /\ Good(r) /\ Synced(c0, r)
      /\ i \in BufferHead /\ d \in Cache /\ Good(d)
      /\ d.bh[i] = Pinned(r.bh[i], b, r.bh[i].cnt + 1)
      /\ r.bh[i].blk \in {b, None}
      /\ \A j \in BufferHead \ {i} : d.bh[j] = r.bh[j]
      /\ d.device = r.device
      /\ \A a \in Block : ViewIn(d, a) = ViewIn(r, a)
  BY <1>1, GetBlkEffect
<1> HIDE DEF i, d, r
<1>3. \A j \in BufferHead : HoldersAt(r, held, j)
  BY <1>1, <1>2, HoldersSynced DEF AllHeld
<1>4. \A j \in BufferHead : r.bh[j].cnt = c0.bh[j].cnt /\ r.bh[j].cnt \in 0..MaxPins
  BY <1>1, <1>2 DEF Synced, CountsOK
<1>5. \A j \in BufferHead \ {i} : HoldersAt(d, held, j) /\ d.bh[j].cnt \in 0..MaxPins
  <2> SUFFICES ASSUME NEW j \in BufferHead \ {i}
               PROVE  HoldersAt(d, held, j) /\ d.bh[j].cnt \in 0..MaxPins
    OBVIOUS
  <2>1. d.bh[j] = r.bh[j] /\ HoldersAt(r, held, j) /\ r.bh[j].cnt \in 0..MaxPins
    BY <1>2, <1>3, <1>4
  <2>2. HoldersAt(d, held, j)
    BY <2>1, HoldersSame
  <2> QED
    BY <2>1, <2>2
<1>6. r.bh[i] \in Header /\ BufferOK(r, i)
  BY <1>2 DEF Good, Cache, BuffersOK
<1>7. /\ \A a \in Block : held[i, a] > 0 =>
           r.bh[i].blk = a /\ r.bh[i].valid /\ held[i, a] =< r.bh[i].cnt
      /\ r.bh[i].blk # None /\ r.bh[i].blk \notin Broken =>
           r.bh[i].valid /\ r.bh[i].cnt = held[i, r.bh[i].blk]
  BY <1>2, <1>3 DEF HoldersAt
<1>8. \A a \in Block : held[i, a] \in Nat /\ a # None
  <2>1. 0..MaxPins \subseteq Nat
    BY BufferAssumption
  <2> QED
    BY <2>1, <1>1, <1>2, BlankIsHeader DEF PinsOK
<1>9. \A a \in Block : held[i, a] > 0 => a = b /\ r.bh[i].valid /\ held[i, a] =< r.bh[i].cnt
  BY <1>2, <1>7, <1>8
<1>10. ASSUME b \notin Broken
       PROVE  r.bh[i].cnt = held[i, b] /\ (r.bh[i].blk = b => r.bh[i].valid)
  <2>1. CASE r.bh[i].blk = b
    <3>1. r.bh[i].blk # None /\ r.bh[i].blk \notin Broken
      BY <2>1, <1>8, <1>10
    <3>2. r.bh[i].valid /\ r.bh[i].cnt = held[i, r.bh[i].blk]
      BY <3>1, <1>7
    <3> QED
      BY <2>1, <3>2
  <2>2. CASE r.bh[i].blk = None
    <3>1. r.bh[i].cnt = 0 /\ ~r.bh[i].valid
      BY <2>2, <1>6 DEF BufferOK
    <3>2. ~(held[i, b] > 0)
      BY <3>1, <1>7
    <3> QED
      <4>1. held[i, b] \in Nat
        BY <1>8
      <4>2. held[i, b] = 0
        <5> DEFINE n == held[i, b]
        <5>1. n \in Nat /\ ~(n > 0)
          BY <3>2, <4>1
        <5> HIDE DEF n
        <5>2. n = 0
          BY <5>1
        <5> QED
          BY <5>2 DEF n
      <4> QED
        BY <2>2, <3>1, <4>2, BlankIsHeader
  <2> QED
    BY <2>1, <2>2, <1>2
<1>11. c0.bh[i].cnt = bh[i].cnt
  BY DEF c0
<1> QED
  BY <1>2, <1>4, <1>5, <1>6, <1>9, <1>10, <1>11 DEF i, d, r

-----------------------------------------------------------------------------
(***************************************************************************)
(* The steps.  CaughtUp(c, d): the device of d has more of what is cached. *)
(***************************************************************************)
CaughtUp(c, d) ==
  /\ \A a \in Block \ Broken : d.device[a] \in {c.device[a], ViewIn(c, a)}
  /\ \A a \in Broken : d.device[a] = c.device[a]

LEMMA PinRoom ==
  ASSUME BufferInv, Pins < MaxPins
  PROVE  /\ \A i \in BufferHead : bh[i].cnt + 1 \in 0..MaxPins
         /\ MaxPins =< NR_BUFFERS => \A b : ~Stuck(c0, b)
<1>1. /\ Good(c0) /\ c0.bh = bh /\ \A i \in BufferHead : bh[i].cnt \in 0..MaxPins
  BY InvFacts DEF CountsOK, c0
<1>2. MaxPins \in Nat /\ NR_BUFFERS \in Nat
  BY BufferAssumption
<1>3. \A i \in BufferHead : bh[i].cnt \in Nat
  BY <1>1, <1>2
<1>4. /\ Pins \in Nat /\ \A i \in BufferHead : bh[i].cnt =< Pins
      /\ (\A i \in BufferHead : bh[i].cnt # 0) => NR_BUFFERS =< Pins
  BY <1>3, PinsFacts
<1>5. ASSUME NEW i \in BufferHead PROVE bh[i].cnt + 1 \in 0..MaxPins
  <2> DEFINE k == bh[i].cnt
  <2>1. k \in Nat /\ k =< Pins
    BY <1>3, <1>4
  <2> HIDE DEF k
  <2>2. k + 1 \in 0..MaxPins
    BY <2>1, <1>2, <1>4
  <2> QED
    BY <2>2 DEF k
<1>6. ASSUME MaxPins =< NR_BUFFERS, NEW b PROVE ~Stuck(c0, b)
  <2>1. ~(NR_BUFFERS =< Pins)
    BY <1>2, <1>4, <1>6
  <2>2. Room(c0).free # <<>>
    BY <2>1, <1>1, <1>4, RoomEffect
  <2> QED
    BY <2>2 DEF Stuck
<1> QED
  BY <1>5, <1>6

LEMMA StopStep ==
  ASSUME BufferInv, NEW why \in {"stuck", "crash"}, Stop(why)
  PROVE  BufferInv' /\ c0' = c0 /\ CaughtUp(c0, c0')
<1>1. Becomes(c0) /\ held' = held /\ halt' = why
  BY DEF Stop, Becomes, c0, cacheVars
<1>2. Good(c0) /\ CountsOK(c0) /\ AllHeld(c0, held) /\ PinsOK(held)
  BY InvFacts
<1> DEFINE c == c0
<1>3. Becomes(c) /\ Good(c) /\ CountsOK(c) /\ AllHeld(c, held') /\ PinsOK(held')
  BY <1>1, <1>2
<1> HIDE DEF c
<1>4. BufferInv' /\ c0' = c
  BY <1>1, <1>3, InvStep
<1> QED
  BY <1>4 DEF c, CaughtUp

LEMMA BreadStep ==
  ASSUME BufferInv, NEW b \in Block, Bread(b)
  PROVE  /\ BufferInv' /\ CaughtUp(c0, c0')
         /\ \A a \in Block \ Broken : ViewIn(c0', a) = ViewIn(c0, a)
         /\ MaxPins =< NR_BUFFERS => halt' = "no"
<1>1. Pins < MaxPins /\ halt = "no"
  BY DEF Bread
<1>2. CASE Stuck(c0, b)
  <2>1. Stop("stuck") /\ "stuck" \in {"stuck", "crash"}
    BY <1>2 DEF Bread
  <2>2. BufferInv' /\ c0' = c0 /\ CaughtUp(c0, c0')
    BY <2>1, StopStep
  <2>3. ~(MaxPins =< NR_BUFFERS)
    BY <1>1, <1>2, PinRoom
  <2> QED
    BY <2>2, <2>3
<1>3. CASE ~Stuck(c0, b)
  <2> DEFINE i == GetBlk(c0, b).i
  <2> DEFINE d == GetBlk(c0, b).c
  <2> DEFINE r == Searched(c0, b)
  <2> DEFINE x == r.bh[i]
  <2> DEFINE h0 == Pinned(x, b, x.cnt + 1)
  <2> DEFINE h == [h0 EXCEPT !.valid = TRUE, !.data = d.device[b]]
  <2> DEFINE n == IF h0.valid \/ b \in Broken THEN d ELSE Headed(d, i, h)
  <2> DEFINE some == h0.valid \/ b \notin Broken
  <2>1. /\ i \in BufferHead /\ Good(d) /\ Synced(c0, r)
        /\ d.bh[i] = h0
        /\ x.blk \in {b, None} /\ x \in Header
        /\ d.device = r.device
        /\ \A a \in Block : ViewIn(d, a) = ViewIn(r, a)
        /\ x.cnt = bh[i].cnt /\ x.cnt \in 0..MaxPins
        /\ \A j \in BufferHead \ {i} :
             HoldersAt(d, held, j) /\ d.bh[j].cnt \in 0..MaxPins
        /\ \A a \in Block : held[i, a] > 0 => a = b /\ x.valid /\ held[i, a] =< x.cnt
        /\ b \notin Broken => x.cnt = held[i, b] /\ (x.blk = b => x.valid)
    BY <1>3, GotBuffer
  <2>2. /\ Becomes(n) /\ held' = (IF some THEN [held EXCEPT ![<<i, b>>] = @ + 1] ELSE held)
        /\ halt' = halt
    <3>1. /\ IF d.bh[i].valid \/ b \in Broken THEN Becomes(d)
             ELSE Becomes([d EXCEPT !.bh[i].valid = TRUE, !.bh[i].data = d.device[b]])
          /\ held' = IF d.bh[i].valid \/ b \notin Broken
                     THEN [held EXCEPT ![<<i, b>>] = @ + 1] ELSE held
          /\ halt' = halt
      BY <1>3 DEF Bread
    <3> HIDE DEF i, d, h0
    <3>2. [d EXCEPT !.bh[i].valid = TRUE, !.bh[i].data = d.device[b]] = Headed(d, i, h)
      <4> DEFINE e == [d EXCEPT !.bh[i].valid = TRUE, !.bh[i].data = d.device[b]]
      <4>1. d \in Cache /\ d.bh \in [BufferHead -> Header]
        BY <2>1 DEF Good, Cache
      <4>2. e = [d EXCEPT !.bh = [d.bh EXCEPT ![i].valid = TRUE, ![i].data = d.device[b]]]
        OBVIOUS
      <4>3. [d.bh EXCEPT ![i].valid = TRUE, ![i].data = d.device[b]] = [d.bh EXCEPT ![i] = h]
        BY <2>1, <4>1
      <4> QED
        BY <4>2, <4>3 DEF Headed
    <3> HIDE DEF h
    <3> QED
      BY <3>1, <3>2, <2>1
  <2> HIDE DEF i, d, r
  <2>3. x.cnt \in Nat /\ x.cnt + 1 \in 0..MaxPins /\ x.cnt + 1 # 0 /\ x.cnt + 1 \in Nat
    <3>1. \A k \in BufferHead : bh[k].cnt + 1 \in 0..MaxPins
      BY <1>1, PinRoom
    <3>2. x.cnt \in Nat /\ x.cnt + 1 \in 0..MaxPins
      BY <3>1, <2>1 DEF Header
    <3> HIDE DEF x
    <3> QED
      BY <3>2
  <2> HIDE DEF x
  <2>4. /\ h0 \in Header /\ h0.blk = b /\ h0.cnt = x.cnt + 1
        /\ h0.valid = x.valid /\ h0.data = x.data /\ h0.dirt = x.dirt
    <3> DEFINE m == x.cnt + 1
    <3>1. x \in Header /\ m \in Nat
      BY <2>1, <2>3
    <3> HIDE DEF m
    <3>2. /\ Pinned(x, b, m) \in Header /\ Pinned(x, b, m).blk = b /\ Pinned(x, b, m).cnt = m
          /\ Pinned(x, b, m).valid = x.valid /\ Pinned(x, b, m).data = x.data
          /\ Pinned(x, b, m).dirt = x.dirt
      BY <3>1, PinnedHeader
    <3> QED
      BY <3>2 DEF m
  <2> HIDE DEF h0
  <2>5. d \in Cache /\ ListsOK(d) /\ BufferOK(d, i) /\ d.device \in [Block -> Data] /\ b # None
    BY <2>1, BlankIsHeader DEF Good, Cache, BuffersOK
  <2>6. /\ h \in Header /\ h.blk = b /\ h.cnt = x.cnt + 1 /\ h.valid /\ h.dirt = h0.dirt
        /\ h.data = d.device[b]
    BY <2>4, <2>5 DEF Header
  <2> HIDE DEF h
  <2>7. LET e == Headed(d, i, h)
        IN  /\ e \in Cache /\ ListsOK(e) /\ e.bh = [d.bh EXCEPT ![i] = h]
            /\ e.bh[i] = h /\ \A j \in BufferHead \ {i} : e.bh[j] = d.bh[j]
            /\ e.free = d.free /\ e.hash = d.hash /\ e.pos = d.pos /\ e.device = d.device
            /\ BufferOK(e, i) => Good(e)
            /\ \A a \in Block : a # h.blk => ViewIn(e, a) = ViewIn(d, a)
            /\ h.blk # None => ViewIn(e, h.blk) = IF h.valid THEN h.data ELSE d.device[h.blk]
    <3>1. h.blk = d.bh[i].blk
      BY <2>1, <2>4, <2>6
    <3> QED
      BY <3>1, <2>1, <2>6, ChangeHeader
  <2>8. /\ Good(n) /\ n.device = d.device
        /\ n.bh[i].blk = b /\ n.bh[i].cnt = x.cnt + 1
        /\ n.bh[i].valid <=> some
        /\ \A j \in BufferHead \ {i} : n.bh[j] = d.bh[j]
        /\ \A a \in Block \ Broken : ViewIn(n, a) = ViewIn(d, a)
    <3>1. CASE h0.valid \/ b \in Broken
      <4>1. n = d
        BY <3>1
      <4> QED
        BY <3>1, <4>1, <2>1, <2>4
    <3>2. CASE ~(h0.valid \/ b \in Broken)
      <4> DEFINE e == Headed(d, i, h)
      <4>1. n = e /\ some
        BY <3>2
      <4>2. ~h0.dirt /\ ~h.dirt
        BY <3>2, <2>1, <2>5, <2>6 DEF BufferOK
      <4> HIDE DEF e
      <4>3. Good(e)
        <5>1. e.bh[i] = h /\ e.device = d.device
          BY <2>7 DEF e
        <5>2. BufferOK(e, i)
          BY <5>1, <4>2, <2>3, <2>5, <2>6 DEF BufferOK
        <5> QED
          BY <5>2, <2>7 DEF e
      <4>4. ViewIn(d, b) = d.device[b]
        <5>1. \A j \in BufferHead : d.bh[j].blk = b => j = i
          BY <2>1, <2>4, <2>5 DEF ListsOK
        <5>2. \A j \in BufferHead : d.bh[j].blk = b => ~d.bh[j].valid
          BY <5>1, <3>2, <2>1
        <5> QED
          BY <5>2, ViewOfDevice
      <4>5. \A a \in Block : ViewIn(e, a) = ViewIn(d, a)
        BY <4>4, <2>5, <2>6, <2>7 DEF e
      <4>6. /\ e.device = d.device /\ e.bh[i] = h
            /\ \A j \in BufferHead \ {i} : e.bh[j] = d.bh[j]
        BY <2>7 DEF e
      <4> HIDE DEF n
      <4> QED
        BY <4>1, <4>3, <4>5, <4>6, <2>6
    <3> QED
      BY <3>1, <3>2
  <2> HIDE DEF n
  <2>9. PinsOK(held) /\ \A a \in Block : held[i, a] \in Nat
    <3>1. PinsOK(held) /\ 0..MaxPins \subseteq Nat
      BY InvFacts, BufferAssumption
    <3> QED
      BY <3>1, <2>1 DEF PinsOK
  <2>10. held[i, b] =< x.cnt /\ held[i, b] + 1 \in 0..MaxPins
    <3> DEFINE k == held[i, b]
    <3> DEFINE q == x.cnt
    <3>1. k \in Nat /\ (k > 0 => k =< q) /\ q \in Nat /\ q + 1 \in 0..MaxPins /\ MaxPins \in Nat
      BY <2>1, <2>3, <2>9, BufferAssumption
    <3> HIDE DEF k, q
    <3>2. k =< q /\ k + 1 \in 0..MaxPins
      BY <3>1
    <3> QED
      BY <3>2 DEF k, q
  <2>11. /\ PinsOK(held')
         /\ \A j \in BufferHead, a \in Block :
              held'[j, a] = IF some /\ j = i /\ a = b THEN held[j, a] + 1 ELSE held[j, a]
    <3> HIDE DEF some
    <3> QED
      BY <2>1, <2>2, <2>9, <2>10 DEF PinsOK
  <2>12. ASSUME NEW j \in BufferHead PROVE HoldersAt(n, held', j)
    <3>1. CASE j # i
      <4>1. HoldersAt(d, held, j) /\ n.bh[j] = d.bh[j]
        BY <3>1, <2>1, <2>8
      <4>2. \A a \in Block : held'[j, a] = held[j, a]
        BY <3>1, <2>11
      <4>3. d.bh[j].blk \in Block \cup {None}
        BY <2>5 DEF Cache, Header
      <4> QED
        BY <4>1, <4>2, <4>3 DEF HoldersAt
    <3>2. CASE j = i
      <4>1. ASSUME NEW a \in Block, held'[i, a] > 0
            PROVE  n.bh[i].blk = a /\ n.bh[i].valid /\ held'[i, a] =< n.bh[i].cnt
        <5>1. a = b /\ some
          <6>1. held'[i, a] = held[i, a] \/ (a = b /\ some)
            BY <2>1, <2>11
          <6>2. held[i, a] > 0 => a = b /\ x.valid
            BY <2>1
          <6> QED
            BY <6>1, <6>2, <4>1, <2>4
        <5>2. held'[i, a] = held[i, b] + 1
          BY <5>1, <2>1, <2>11
        <5> DEFINE k == held[i, b]
        <5>3. k \in Nat /\ k =< x.cnt
          BY <2>9, <2>10
        <5> HIDE DEF k
        <5>4. k + 1 =< x.cnt + 1
          BY <5>3, <2>3
        <5> QED
          BY <5>1, <5>2, <5>4, <2>8 DEF k
      <4>2. ASSUME n.bh[i].blk \notin Broken
            PROVE  n.bh[i].valid /\ n.bh[i].cnt = held'[i, n.bh[i].blk]
        <5>1. b \notin Broken /\ some
          BY <4>2, <2>8
        <5>2. held'[i, b] = held[i, b] + 1 /\ held[i, b] = x.cnt
          BY <5>1, <2>1, <2>11
        <5> HIDE DEF some
        <5> QED
          BY <5>1, <5>2, <2>8
      <4> QED
        BY <3>2, <4>1, <4>2 DEF HoldersAt
    <3> QED
      BY <3>1, <3>2
  <2>13. CountsOK(n)
    <3>1. ASSUME NEW j \in BufferHead PROVE n.bh[j].cnt \in 0..MaxPins
      BY <2>1, <2>3, <2>8
    <3> QED
      BY <3>1 DEF CountsOK
  <2>14. BufferInv' /\ c0' = n
    <3>1. AllHeld(n, held') /\ halt' \in {"no", "stuck", "crash"}
      BY <1>1, <2>2, <2>12 DEF AllHeld
    <3> QED
      BY <3>1, <2>2, <2>8, <2>11, <2>13, InvStep
  <2>15. CaughtUp(c0, n) /\ \A a \in Block \ Broken : ViewIn(n, a) = ViewIn(c0, a)
    <3>1. /\ \A a \in Block \ Broken :
               ViewIn(r, a) = ViewIn(c0, a) /\ r.device[a] \in {c0.device[a], ViewIn(c0, a)}
          /\ \A a \in Broken : r.device[a] = c0.device[a]
      BY <2>1 DEF Synced
    <3>2. n.device = r.device /\ \A a \in Block \ Broken : ViewIn(n, a) = ViewIn(r, a)
      BY <2>1, <2>8
    <3> QED
      BY <3>1, <3>2 DEF CaughtUp
  <2>16. halt' = "no"
    BY <1>1, <2>2
  <2> QED
    BY <2>14, <2>15, <2>16
<1> QED
  BY <1>2, <1>3

LEMMA PinsAreNat == 0..MaxPins \subseteq Nat
BY BufferAssumption

LEMMA MoreIsSome ==
  ASSUME NEW k \in Nat, NEW q \in Nat, k > 0, k =< q
  PROVE  q # 0
OBVIOUS

LEMMA HeldPin ==
  ASSUME BufferInv, NEW i \in BufferHead, NEW b \in Block, held[i, b] > 0
  PROVE  /\ c0.bh[i].blk = b /\ c0.bh[i].valid /\ b # None
         /\ \A a \in Block : held[i, a] \in Nat
         /\ \A a \in Block \ {b} : ~(held[i, a] > 0)
         /\ c0.bh[i].cnt \in Nat /\ held[i, b] =< c0.bh[i].cnt /\ c0.bh[i].cnt # 0
         /\ b \notin Broken => c0.bh[i].cnt = held[i, b]
<1>1. HoldersAt(c0, held, i) /\ PinsOK(held) /\ c0.bh[i].cnt \in 0..MaxPins /\ 0..MaxPins \subseteq Nat
  <2>1. 0..MaxPins \subseteq Nat
    BY PinsAreNat
  <2> QED
    BY <2>1, InvFacts DEF AllHeld, CountsOK
<1>2. \A a \in Block : held[i, a] \in Nat /\ a # None
  BY <1>1, BlankIsHeader DEF PinsOK
<1>3. /\ c0.bh[i].blk = b /\ c0.bh[i].valid /\ held[i, b] =< c0.bh[i].cnt /\ c0.bh[i].cnt \in Nat
      /\ \A a \in Block \ {b} : ~(held[i, a] > 0)
      /\ b \notin Broken => c0.bh[i].cnt = held[i, b]
  BY <1>1, <1>2 DEF HoldersAt
<1>4. c0.bh[i].cnt # 0
  <2> DEFINE k == held[i, b]
  <2> DEFINE q == c0.bh[i].cnt
  <2>1. k \in Nat /\ k > 0 /\ k =< q /\ q \in Nat
    BY <1>2, <1>3
  <2> HIDE DEF k, q
  <2>2. q # 0
    BY <2>1, MoreIsSome
  <2> QED
    BY <2>2 DEF q
<1> QED
  BY <1>2, <1>3, <1>4

LEMMA ModifyStep ==
  ASSUME BufferInv, NEW i \in BufferHead, NEW b \in Block, NEW d \in Data, Modify(i, b, d)
  PROVE  /\ BufferInv' /\ halt' = halt /\ c0'.device = c0.device
         /\ ViewIn(c0', b) = d
         /\ \A a \in Block : a # b => ViewIn(c0', a) = ViewIn(c0, a)
<1> DEFINE x == c0.bh[i]
<1> DEFINE h == [x EXCEPT !.data = d, !.dirt = TRUE]
<1> DEFINE n == Headed(c0, i, h)
<1>1. held[i, b] > 0 /\ held' = held /\ halt' = halt
  BY DEF Modify
<1>2. Good(c0) /\ CountsOK(c0) /\ AllHeld(c0, held) /\ PinsOK(held) /\ halt \in {"no", "stuck", "crash"}
  BY InvFacts DEF BufferInv, TypeOK
<1>3. x.blk = b /\ x.valid /\ b # None /\ x \in Header
  BY <1>1, <1>2, HeldPin DEF Good, Cache
<1>4. Becomes(n)
  <2>1. n = [c0 EXCEPT !.bh = [bh EXCEPT ![i] = h]]
    BY DEF Headed, c0
  <2>2. [bh EXCEPT ![i].data = d, ![i].dirt = TRUE] = [bh EXCEPT ![i] = h]
    <3>1. bh \in [BufferHead -> Header]
      BY <1>2 DEF Good, Cache, c0
    <3> QED
      BY <3>1 DEF c0
  <2>3. bh' = [bh EXCEPT ![i] = h]
    BY <2>2 DEF Modify
  <2> HIDE DEF h, n
  <2> QED
    BY <2>1, <2>3 DEF Becomes, Modify, c0
<1>5. h \in Header /\ h.blk = x.blk /\ h.cnt = x.cnt /\ h.valid /\ h.dirt /\ h.data = d
  <2> HIDE DEF x
  <2> QED
    BY <1>3 DEF Header
<1> HIDE DEF h, n
<1>6. /\ n \in Cache /\ ListsOK(n) /\ n.bh = [c0.bh EXCEPT ![i] = h]
      /\ n.bh[i] = h /\ \A j \in BufferHead \ {i} : n.bh[j] = c0.bh[j]
      /\ n.free = c0.free /\ n.hash = c0.hash /\ n.pos = c0.pos /\ n.device = c0.device
      /\ BufferOK(n, i) => Good(n)
      /\ \A a \in Block : a # h.blk => ViewIn(n, a) = ViewIn(c0, a)
      /\ h.blk # None => ViewIn(n, h.blk) = IF h.valid THEN h.data ELSE c0.device[h.blk]
  BY <1>2, <1>5, ChangeHeader DEF n
<1> HIDE DEF x
<1>7. Good(n)
  <2>1. BufferOK(n, i)
    BY <1>3, <1>5, <1>6 DEF BufferOK
  <2> QED
    BY <2>1, <1>6
<1>8. AllHeld(n, held') /\ CountsOK(n)
  <2> SUFFICES ASSUME NEW j \in BufferHead
               PROVE  HoldersAt(n, held, j) /\ n.bh[j].cnt \in 0..MaxPins
    BY <1>1 DEF AllHeld, CountsOK
  <2>1. HoldersAt(c0, held, j) /\ c0.bh[j].cnt \in 0..MaxPins
    BY <1>2 DEF AllHeld, CountsOK
  <2>2. /\ n.bh[j].blk = c0.bh[j].blk /\ n.bh[j].cnt = c0.bh[j].cnt
        /\ c0.bh[j].valid => n.bh[j].valid
    BY <1>3, <1>5, <1>6 DEF x
  <2> QED
    BY <2>1, <2>2 DEF HoldersAt
<1>9. BufferInv' /\ c0' = n
  <2>1. PinsOK(held') /\ halt' \in {"no", "stuck", "crash"}
    BY <1>1, <1>2
  <2> QED
    BY <2>1, <1>4, <1>7, <1>8, InvStep
<1> QED
  BY <1>1, <1>3, <1>5, <1>6, <1>9

LEMMA BrelseStep ==
  ASSUME BufferInv, NEW i \in BufferHead, NEW b \in Block, Brelse(i, b)
  PROVE  /\ BufferInv' /\ halt' = halt /\ c0'.device = c0.device
         /\ \A a \in Block \ Broken : ViewIn(c0', a) = ViewIn(c0, a)
<1> DEFINE x == c0.bh[i]
<1> DEFINE n == Release(c0, i)
<1>1. /\ held[i, b] > 0 /\ held' = [held EXCEPT ![<<i, b>>] = @ - 1] /\ halt' = halt
      /\ Becomes(n)
  BY DEF Brelse
<1>2. Good(c0) /\ CountsOK(c0) /\ AllHeld(c0, held) /\ PinsOK(held) /\ halt \in {"no", "stuck", "crash"}
  BY InvFacts DEF BufferInv, TypeOK
<1>3. /\ x.blk = b /\ x.valid /\ b # None
      /\ \A a \in Block : held[i, a] \in Nat
      /\ \A a \in Block \ {b} : ~(held[i, a] > 0)
      /\ x.cnt \in Nat /\ held[i, b] =< x.cnt /\ x.cnt # 0
      /\ b \notin Broken => x.cnt = held[i, b]
  BY <1>1, HeldPin
<1>4. /\ Good(n) /\ n.device = c0.device
      /\ \A j \in BufferHead \ {i} : n.bh[j] = c0.bh[j]
      /\ \/ n.bh[i] = Blank /\ x.cnt = 1 /\ (~x.dirt \/ ~x.valid)
         \/ n.bh[i] = Pinned(x, x.blk, x.cnt - 1) /\ (x.cnt # 1 \/ x.dirt)
      /\ \A a \in Block \ Broken : ViewIn(n, a) = ViewIn(c0, a)
  BY <1>2, <1>3, ReleaseEffect
<1> HIDE DEF n
<1>5. x \in Header /\ x.cnt \in 0..MaxPins
  BY <1>2 DEF Good, Cache, CountsOK
<1> HIDE DEF x
<1> DEFINE k == held[i, b]
<1> DEFINE q == x.cnt
<1>6. /\ k - 1 \in Nat /\ k - 1 =< q - 1 /\ q - 1 \in 0..MaxPins /\ k - 1 \in 0..MaxPins
      /\ (q = 1 => k - 1 = 0) /\ q - 1 \in Nat /\ 0 \in 0..MaxPins
  <2>1. k \in Nat /\ k > 0 /\ q \in Nat /\ k =< q /\ q \in 0..MaxPins /\ MaxPins \in Nat
    BY <1>1, <1>3, <1>5, BufferAssumption
  <2> HIDE DEF k, q
  <2> QED
    BY <2>1
<1>7. \A j \in BufferHead, a \in Block :
        held'[j, a] = IF j = i /\ a = b THEN k - 1 ELSE held[j, a]
  BY <1>1, <1>2 DEF PinsOK
<1>8. PinsOK(held')
  BY <1>1, <1>2, <1>6 DEF PinsOK
<1>9. /\ n.bh[i].cnt \in 0..MaxPins
      /\ \/ n.bh[i].blk = None /\ k - 1 = 0
         \/ n.bh[i].blk = b /\ n.bh[i].valid /\ n.bh[i].cnt = q - 1
  <2>1. CASE n.bh[i] = Blank /\ x.cnt = 1
    <3>1. n.bh[i].cnt = 0 /\ n.bh[i].blk = None
      BY <2>1 DEF Blank
    <3> QED
      BY <3>1, <2>1, <1>6
  <2>2. CASE n.bh[i] = Pinned(x, x.blk, x.cnt - 1)
    <3> DEFINE m == x.cnt - 1
    <3>1. m \in 0..MaxPins /\ n.bh[i] = Pinned(x, b, m) /\ x.valid
      BY <2>2, <1>3, <1>6
    <3>a. x \in Header /\ m \in Nat
      BY <1>5, <1>6
    <3> HIDE DEF m
    <3>2. /\ Pinned(x, b, m) \in Header /\ Pinned(x, b, m).blk = b /\ Pinned(x, b, m).cnt = m
          /\ Pinned(x, b, m).valid = x.valid /\ Pinned(x, b, m).data = x.data
          /\ Pinned(x, b, m).dirt = x.dirt
      BY <3>a, PinnedHeader
    <3>3. n.bh[i].blk = b /\ n.bh[i].valid /\ n.bh[i].cnt = m /\ n.bh[i].cnt \in 0..MaxPins
      BY <3>1, <3>2
    <3> QED
      BY <3>3 DEF m
  <2> QED
    BY <2>1, <2>2, <1>4
<1>10. ASSUME NEW j \in BufferHead PROVE HoldersAt(n, held', j) /\ n.bh[j].cnt \in 0..MaxPins
  <2>1. HoldersAt(c0, held, j) /\ c0.bh[j].cnt \in 0..MaxPins /\ c0.bh[j].blk \in Block \cup {None}
    BY <1>2 DEF AllHeld, CountsOK, Good, Cache, Header
  <2>2. CASE j # i
    <3>1. n.bh[j] = c0.bh[j] /\ \A a \in Block : held'[j, a] = held[j, a]
      BY <2>2, <1>4, <1>7
    <3> QED
      BY <2>1, <3>1 DEF HoldersAt
  <2>3. CASE j = i
    <3>1. held'[i, b] = k - 1 /\ \A a \in Block \ {b} : ~(held'[i, a] > 0)
      BY <1>3, <1>7
    <3>2. \A y : y = 0 => ~(y > 0)
      OBVIOUS
    <3> HIDE DEF q
    <3>3. b \notin Broken => q - 1 = k - 1
      BY <1>3 DEF q
    <3> HIDE DEF k
    <3>4. CASE n.bh[i].blk = None /\ k - 1 = 0
      <4>1. \A a \in Block : ~(held'[i, a] > 0)
        BY <3>1, <3>2, <3>4
      <4> QED
        BY <3>4, <4>1, <2>3, <1>9 DEF HoldersAt
    <3>5. CASE n.bh[i].blk = b /\ n.bh[i].valid /\ n.bh[i].cnt = q - 1
      <4>1. \A a \in Block : held'[i, a] > 0 => a = b
        BY <3>1
      <4>2. held'[i, b] =< n.bh[i].cnt
        BY <3>1, <3>5, <1>6 DEF k
      <4>3. b \notin Broken => n.bh[i].cnt = held'[i, b]
        BY <3>1, <3>3, <3>5
      <4> QED
        BY <3>5, <4>1, <4>2, <4>3, <2>3, <1>9 DEF HoldersAt
    <3> QED
      BY <3>4, <3>5, <1>9
  <2> QED
    BY <2>2, <2>3
<1>11. BufferInv' /\ c0' = n
  <2>1. AllHeld(n, held') /\ CountsOK(n) /\ halt' \in {"no", "stuck", "crash"}
    BY <1>1, <1>2, <1>10 DEF AllHeld, CountsOK
  <2> QED
    BY <2>1, <1>1, <1>4, <1>8, InvStep
<1> QED
  BY <1>1, <1>4, <1>11

(***************************************************************************)
(* new_block() and free_block() fill in or throw away the buffer of a      *)
(* block nobody holds, and give it back at once.                           *)
(***************************************************************************)
LEMMA FillAndRelease ==
  ASSUME BufferInv, NEW b \in Block, ~Stuck(c0, b), NotHeld(b), NEW h \in Header,
         h.blk = b, h.cnt = bh[GetBlk(c0, b).i].cnt + 1,
         h.valid <=> h.dirt, h.valid \/ h.cnt = 1,
         NEW n, n = Release(Headed(GetBlk(c0, b).c, GetBlk(c0, b).i, h), GetBlk(c0, b).i)
  PROVE  /\ Good(n) /\ CountsOK(n) /\ AllHeld(n, held) /\ CaughtUp(c0, n)
         /\ \A a \in Block \ Broken : a # b => ViewIn(n, a) = ViewIn(c0, a)
         /\ b \notin Broken => ViewIn(n, b) = IF h.valid THEN h.data ELSE n.device[b]
<1> DEFINE i == GetBlk(c0, b).i
<1> DEFINE d == GetBlk(c0, b).c
<1> DEFINE r == Searched(c0, b)
<1> DEFINE x == r.bh[i]
<1> DEFINE e == Headed(d, i, h)
<1>1. /\ i \in BufferHead /\ Good(d) /\ Synced(c0, r)
      /\ d.bh[i] = Pinned(x, b, x.cnt + 1)
      /\ x.blk \in {b, None} /\ x \in Header
      /\ d.device = r.device
      /\ \A a \in Block : ViewIn(d, a) = ViewIn(r, a)
      /\ x.cnt = bh[i].cnt /\ x.cnt \in 0..MaxPins
      /\ \A j \in BufferHead \ {i} :
           HoldersAt(d, held, j) /\ d.bh[j].cnt \in 0..MaxPins
      /\ \A a \in Block : held[i, a] > 0 => a = b /\ x.valid /\ held[i, a] =< x.cnt
      /\ b \notin Broken => x.cnt = held[i, b] /\ (x.blk = b => x.valid)
  BY GotBuffer
<1>2. h.cnt = x.cnt + 1 /\ n = Release(e, i)
  BY <1>1
<1> HIDE DEF i, d, r
<1>3. x.cnt \in Nat /\ x.cnt \in 0..MaxPins
  BY <1>1, PinsAreNat
<1>4. d.bh[i].blk = b /\ b # None /\ ~(0 > 0)
  <2> DEFINE m == x.cnt + 1
  <2>1. x \in Header /\ m \in Nat
    <3> DEFINE q == x.cnt
    <3>1. q \in Nat
      BY <1>3
    <3> HIDE DEF q
    <3>2. q + 1 \in Nat
      BY <3>1
    <3> QED
      BY <3>2, <1>1 DEF q
  <2> HIDE DEF m, x
  <2>2. /\ Pinned(x, b, m) \in Header /\ Pinned(x, b, m).blk = b /\ Pinned(x, b, m).cnt = m
        /\ Pinned(x, b, m).valid = x.valid /\ Pinned(x, b, m).data = x.data
        /\ Pinned(x, b, m).dirt = x.dirt
    BY <2>1, PinnedHeader
  <2>3. d.bh[i] = Pinned(x, b, m)
    BY <1>1 DEF m
  <2> QED
    BY <2>2, <2>3, BlankIsHeader
<1> HIDE DEF x
<1>5. h.cnt # 0 /\ h.cnt - 1 = x.cnt /\ (h.cnt = 1 => x.cnt = 0)
  <2> DEFINE q == x.cnt
  <2>1. q \in Nat
    BY <1>3
  <2> HIDE DEF q
  <2>2. q + 1 # 0 /\ (q + 1) - 1 = q /\ (q + 1 = 1 => q = 0)
    BY <2>1
  <2> QED
    BY <2>2, <1>2 DEF q
<1> HIDE DEF e
<1>6. /\ e \in Cache /\ ListsOK(e) /\ e.bh = [d.bh EXCEPT ![i] = h]
      /\ e.bh[i] = h /\ \A j \in BufferHead \ {i} : e.bh[j] = d.bh[j]
      /\ e.free = d.free /\ e.hash = d.hash /\ e.pos = d.pos /\ e.device = d.device
      /\ BufferOK(e, i) => Good(e)
      /\ \A a \in Block : a # h.blk => ViewIn(e, a) = ViewIn(d, a)
      /\ h.blk # None => ViewIn(e, h.blk) = IF h.valid THEN h.data ELSE d.device[h.blk]
  <2>1. i \in BufferHead /\ Good(d) /\ h.blk = d.bh[i].blk /\ e = Headed(d, i, h)
    BY <1>1, <1>4 DEF e
  <2> QED
    BY <2>1, ChangeHeader
<1>7. Good(e)
  <2>1. BufferOK(e, i)
    BY <1>4, <1>5, <1>6 DEF BufferOK
  <2> QED
    BY <2>1, <1>6
<1>8. LET y == e.bh[i]
      IN  /\ Good(n) /\ n.device = e.device
          /\ \A j \in BufferHead \ {i} : n.bh[j] = e.bh[j]
          /\ \/ n.bh[i] = Blank /\ y.cnt = 1 /\ (~y.dirt \/ ~y.valid)
             \/ n.bh[i] = Pinned(y, y.blk, y.cnt - 1) /\ (y.cnt # 1 \/ y.dirt)
          /\ \A a \in Block \ Broken : ViewIn(n, a) = ViewIn(e, a)
  <2>1. e.bh[i].cnt # 0 /\ i \in BufferHead /\ Good(e) /\ n = Release(e, i)
    BY <1>1, <1>2, <1>5, <1>6, <1>7
  <2> QED
    BY <2>1, ReleaseEffect
<1>9. /\ Good(n) /\ n.device = r.device
      /\ \A j \in BufferHead \ {i} : n.bh[j] = d.bh[j]
      /\ \A a \in Block \ Broken : ViewIn(n, a) = ViewIn(e, a)
  <2>1. n.device = e.device /\ e.device = d.device /\ d.device = r.device
    BY <1>1, <1>6, <1>8
  <2>2. ASSUME NEW j \in BufferHead \ {i} PROVE n.bh[j] = d.bh[j]
    BY <1>6, <1>8
  <2>3. Good(n) /\ \A a \in Block \ Broken : ViewIn(n, a) = ViewIn(e, a)
    BY <1>8
  <2> QED
    BY <2>1, <2>2, <2>3
<1>10. \/ n.bh[i].blk = None /\ n.bh[i].cnt = 0
       \/ n.bh[i].blk = b /\ n.bh[i].valid /\ n.bh[i].cnt = x.cnt
  <2>1. CASE n.bh[i] = Blank
    BY <2>1 DEF Blank
  <2>2. CASE n.bh[i] = Pinned(h, h.blk, h.cnt - 1) /\ (h.cnt # 1 \/ h.dirt)
    <3> DEFINE m == x.cnt
    <3>1. m \in Nat
      BY <1>3
    <3>2. h.valid /\ n.bh[i] = Pinned(h, b, m)
      BY <2>2, <1>5
    <3> HIDE DEF m
    <3>3. /\ Pinned(h, b, m) \in Header /\ Pinned(h, b, m).blk = b /\ Pinned(h, b, m).cnt = m
          /\ Pinned(h, b, m).valid = h.valid /\ Pinned(h, b, m).data = h.data
          /\ Pinned(h, b, m).dirt = h.dirt
      BY <3>1, PinnedHeader
    <3> QED
      BY <3>2, <3>3 DEF m
  <2> QED
    BY <2>1, <2>2, <1>6, <1>8
<1>11. \A a \in Block : held[i, a] \in Nat /\ ~(held[i, a] > 0)
  <2>1. held[i, b] = 0
    BY <1>1 DEF NotHeld
  <2>2. \A a \in Block : held[i, a] \in Nat
    BY <1>1, PinsAreNat, InvFacts DEF PinsOK
  <2>3. ~(held[i, b] > 0)
    BY <2>1, <1>4
  <2> QED
    BY <2>2, <2>3, <1>1
<1>12. b \notin Broken => x.cnt = 0 /\ held[i, b] = 0
  BY <1>1 DEF NotHeld
<1>13. ASSUME NEW j \in BufferHead PROVE HoldersAt(n, held, j) /\ n.bh[j].cnt \in 0..MaxPins
  <2>1. CASE j # i
    <3>1. n.bh[j] = d.bh[j] /\ HoldersAt(d, held, j) /\ d.bh[j].cnt \in 0..MaxPins
      BY <2>1, <1>1, <1>9
    <3>2. HoldersAt(n, held, j)
      BY <3>1, HoldersSame
    <3> QED
      BY <3>1, <3>2
  <2>2. CASE j = i
    <3>1. n.bh[i].cnt \in 0..MaxPins
      <4>1. 0 \in 0..MaxPins
        BY BufferAssumption
      <4> QED
        BY <4>1, <1>3, <1>10
    <3>2. n.bh[i].blk # None /\ n.bh[i].blk \notin Broken =>
            n.bh[i].valid /\ n.bh[i].cnt = held[i, n.bh[i].blk]
      BY <1>10, <1>12
    <3> QED
      BY <3>1, <3>2, <2>2, <1>11 DEF HoldersAt
  <2> QED
    BY <2>1, <2>2
<1>14. CountsOK(n) /\ AllHeld(n, held)
  BY <1>13 DEF CountsOK, AllHeld
<1>15. /\ \A a \in Block \ Broken :
            ViewIn(r, a) = ViewIn(c0, a) /\ r.device[a] \in {c0.device[a], ViewIn(c0, a)}
       /\ \A a \in Broken : r.device[a] = c0.device[a]
  BY <1>1 DEF Synced
<1>16. CaughtUp(c0, n)
  BY <1>9, <1>15 DEF CaughtUp
<1>17. ASSUME NEW a \in Block \ Broken, a # b PROVE ViewIn(n, a) = ViewIn(c0, a)
  <2>1. ViewIn(n, a) = ViewIn(e, a)
    BY <1>9
  <2>2. ViewIn(e, a) = ViewIn(d, a)
    BY <1>6, <1>17
  <2>3. ViewIn(d, a) = ViewIn(r, a)
    BY <1>1
  <2>4. ViewIn(r, a) = ViewIn(c0, a)
    BY <1>15
  <2> QED
    BY <2>1, <2>2, <2>3, <2>4
<1>18. ASSUME b \notin Broken PROVE ViewIn(n, b) = IF h.valid THEN h.data ELSE n.device[b]
  <2>1. ViewIn(n, b) = ViewIn(e, b)
    BY <1>9, <1>18
  <2>2. ViewIn(e, b) = IF h.valid THEN h.data ELSE d.device[b]
    BY <1>4, <1>6
  <2> QED
    BY <2>1, <2>2, <1>1, <1>9
<1> QED
  BY <1>9, <1>14, <1>16, <1>17, <1>18

LEMMA PinnedBuffer ==
  ASSUME BufferInv, NEW b \in Block, ~Stuck(c0, b)
  PROVE  LET i == GetBlk(c0, b).i
             d == GetBlk(c0, b).c
         IN  /\ i \in BufferHead /\ d \in Cache /\ d.bh \in [BufferHead -> Header]
             /\ d.bh[i] \in Header /\ d.bh[i].blk = b /\ d.bh[i].cnt = bh[i].cnt + 1
             /\ b \notin Broken => bh[i].cnt = held[i, b]
<1> DEFINE i == GetBlk(c0, b).i
<1> DEFINE d == GetBlk(c0, b).c
<1> DEFINE r == Searched(c0, b)
<1> DEFINE x == r.bh[i]
<1>1. /\ i \in BufferHead /\ Good(d) /\ Synced(c0, r)
      /\ d.bh[i] = Pinned(x, b, x.cnt + 1)
      /\ x.blk \in {b, None} /\ x \in Header
      /\ d.device = r.device
      /\ \A a \in Block : ViewIn(d, a) = ViewIn(r, a)
      /\ x.cnt = bh[i].cnt /\ x.cnt \in 0..MaxPins
      /\ \A j \in BufferHead \ {i} :
           HoldersAt(d, held, j) /\ d.bh[j].cnt \in 0..MaxPins
      /\ \A a \in Block : held[i, a] > 0 => a = b /\ x.valid /\ held[i, a] =< x.cnt
      /\ b \notin Broken => x.cnt = held[i, b] /\ (x.blk = b => x.valid)
  BY GotBuffer
<1> HIDE DEF i, d, r, x
<1> DEFINE m == x.cnt + 1
<1>2. x \in Header /\ m \in Nat
  <2> DEFINE q == x.cnt
  <2>1. q \in Nat
    BY <1>1, PinsAreNat
  <2> HIDE DEF q
  <2>2. q + 1 \in Nat
    BY <2>1
  <2> QED
    BY <2>2, <1>1 DEF q
<1> HIDE DEF m
<1>3. /\ Pinned(x, b, m) \in Header /\ Pinned(x, b, m).blk = b /\ Pinned(x, b, m).cnt = m
      /\ Pinned(x, b, m).valid = x.valid /\ Pinned(x, b, m).data = x.data
      /\ Pinned(x, b, m).dirt = x.dirt
  BY <1>2, PinnedHeader
<1>4. d.bh[i] = Pinned(x, b, m) /\ m = bh[i].cnt + 1
  BY <1>1 DEF m
<1>5. d \in Cache /\ d.bh \in [BufferHead -> Header]
  BY <1>1 DEF Good, Cache
<1> QED
  BY <1>1, <1>3, <1>4, <1>5 DEF i, d

LEMMA NewBlockStep ==
  ASSUME BufferInv, NEW b \in Block, NewBlock(b)
  PROVE  /\ BufferInv' /\ CaughtUp(c0, c0')
         /\ \A a \in Block \ Broken : a # b => ViewIn(c0', a) = ViewIn(c0, a)
         /\ b \notin Broken /\ halt' = "no" => ViewIn(c0', b) = Zero
         /\ halt' # "no" => c0' = c0
         /\ MaxPins =< NR_BUFFERS => halt' = "no"
<1>1. Pins < MaxPins /\ halt = "no" /\ NotHeld(b)
  BY DEF NewBlock
<1>2. CASE Stuck(c0, b)
  <2>1. Stop("stuck") /\ "stuck" \in {"stuck", "crash"} /\ halt' = "stuck"
    BY <1>2 DEF NewBlock, Stop
  <2>2. BufferInv' /\ c0' = c0 /\ CaughtUp(c0, c0')
    BY <2>1, StopStep
  <2>3. ~(MaxPins =< NR_BUFFERS)
    BY <1>1, <1>2, PinRoom
  <2> QED
    BY <2>1, <2>2, <2>3
<1>3. CASE ~Stuck(c0, b)
  <2> DEFINE i == GetBlk(c0, b).i
  <2> DEFINE d == GetBlk(c0, b).c
  <2> DEFINE y == d.bh[i]
  <2> DEFINE h == [y EXCEPT !.data = Zero, !.valid = TRUE, !.dirt = TRUE]
  <2> DEFINE n == Release(Headed(d, i, h), i)
  <2>1. /\ i \in BufferHead /\ d \in Cache /\ d.bh \in [BufferHead -> Header] /\ y \in Header
        /\ y.blk = b /\ y.cnt = bh[i].cnt + 1
    BY <1>3, PinnedBuffer
  <2>2. Becomes(n) /\ held' = held /\ halt' = halt
    <3>1. /\ Becomes(Release([d EXCEPT !.bh[i].data = Zero, !.bh[i].valid = TRUE,
                                       !.bh[i].dirt = TRUE], i))
          /\ held' = held /\ halt' = halt
      BY <1>3 DEF NewBlock
    <3> HIDE DEF i, d
    <3>2. [d EXCEPT !.bh[i].data = Zero, !.bh[i].valid = TRUE, !.bh[i].dirt = TRUE] = Headed(d, i, h)
      <4>1. [d.bh EXCEPT ![i].data = Zero, ![i].valid = TRUE, ![i].dirt = TRUE] = [d.bh EXCEPT ![i] = h]
        BY <2>1
      <4> QED
        BY <4>1 DEF Headed
    <3> HIDE DEF h
    <3> QED
      BY <3>1, <3>2
  <2> DEFINE yy == y
  <2>3. /\ h \in Header /\ h.blk = b /\ h.cnt = bh[i].cnt + 1 /\ h.valid = TRUE /\ h.dirt = TRUE
        /\ h.data = Zero
    <3>1. y \in Header /\ y.blk = b /\ y.cnt = bh[i].cnt + 1 /\ Zero \in Data
      BY <2>1, BufferAssumption
    <3> HIDE DEF y
    <3> QED
      BY <3>1 DEF Header
  <2> HIDE DEF h
  <2> DEFINE m == n
  <2>4. m = Release(Headed(GetBlk(c0, b).c, GetBlk(c0, b).i, h), GetBlk(c0, b).i)
    OBVIOUS
  <2> HIDE DEF m
  <2>5. /\ Good(m) /\ CountsOK(m) /\ AllHeld(m, held) /\ CaughtUp(c0, m)
        /\ \A a \in Block \ Broken : a # b => ViewIn(m, a) = ViewIn(c0, a)
        /\ b \notin Broken => ViewIn(m, b) = IF h.valid THEN h.data ELSE m.device[b]
    BY <1>1, <1>3, <2>3, <2>4, FillAndRelease
  <2>6. BufferInv' /\ c0' = m
    <3>1. Becomes(m) /\ AllHeld(m, held') /\ PinsOK(held') /\ halt' \in {"no", "stuck", "crash"}
      BY <1>1, <2>2, <2>5, InvFacts DEF m
    <3> QED
      BY <3>1, <2>5, InvStep
  <2> QED
    BY <1>1, <2>2, <2>3, <2>5, <2>6
<1> QED
  BY <1>2, <1>3

LEMMA FreeBlockStep ==
  ASSUME BufferInv, NEW b \in Block, FreeBlock(b)
  PROVE  /\ BufferInv' /\ CaughtUp(c0, c0')
         /\ \A a \in Block \ Broken : a # b => ViewIn(c0', a) = ViewIn(c0, a)
         /\ b \notin Broken /\ halt' = "no" => ViewIn(c0', b) = c0'.device[b]
         /\ halt' # "no" => c0' = c0
         /\ MaxPins =< NR_BUFFERS /\ b \notin Broken => halt' = "no"
<1>1. Pins < MaxPins /\ halt = "no" /\ NotHeld(b)
  BY DEF FreeBlock
<1>2. CASE Stuck(c0, b)
  <2>1. Stop("stuck") /\ "stuck" \in {"stuck", "crash"} /\ halt' = "stuck"
    BY <1>2 DEF FreeBlock, Stop
  <2>2. BufferInv' /\ c0' = c0 /\ CaughtUp(c0, c0')
    BY <2>1, StopStep
  <2>3. ~(MaxPins =< NR_BUFFERS)
    BY <1>1, <1>2, PinRoom
  <2> QED
    BY <2>1, <2>2, <2>3
<1> DEFINE i == GetBlk(c0, b).i
<1> DEFINE d == GetBlk(c0, b).c
<1> DEFINE y == d.bh[i]
<1>3. CASE ~Stuck(c0, b) /\ y.cnt # 1
  <2>1. Stop("crash") /\ "crash" \in {"stuck", "crash"} /\ halt' = "crash"
    BY <1>3 DEF FreeBlock, Stop
  <2>2. BufferInv' /\ c0' = c0 /\ CaughtUp(c0, c0')
    BY <2>1, StopStep
  <2>3. b \in Broken
    <3>1. y.cnt = bh[i].cnt + 1 /\ (b \notin Broken => bh[i].cnt = held[i, b]) /\ i \in BufferHead
      BY <1>3, PinnedBuffer
    <3>2. b \notin Broken => bh[i].cnt = 0
      BY <3>1, <1>1 DEF NotHeld
    <3>3. 0 + 1 = 1
      OBVIOUS
    <3> HIDE DEF y
    <3> QED
      BY <3>1, <3>2, <3>3, <1>3
  <2> QED
    BY <2>1, <2>2, <2>3
<1>4. CASE ~Stuck(c0, b) /\ y.cnt = 1
  <2> DEFINE h == [y EXCEPT !.valid = FALSE, !.dirt = FALSE]
  <2> DEFINE n == Release(Headed(d, i, h), i)
  <2>1. /\ i \in BufferHead /\ d \in Cache /\ d.bh \in [BufferHead -> Header] /\ y \in Header
        /\ y.blk = b /\ y.cnt = bh[i].cnt + 1
    BY <1>4, PinnedBuffer
  <2>2. Becomes(n) /\ held' = held /\ halt' = halt
    <3>1. /\ Becomes(Release([d EXCEPT !.bh[i].valid = FALSE, !.bh[i].dirt = FALSE], i))
          /\ held' = held /\ halt' = halt
      BY <1>4 DEF FreeBlock
    <3> HIDE DEF i, d
    <3>2. [d EXCEPT !.bh[i].valid = FALSE, !.bh[i].dirt = FALSE] = Headed(d, i, h)
      <4>1. [d.bh EXCEPT ![i].valid = FALSE, ![i].dirt = FALSE] = [d.bh EXCEPT ![i] = h]
        BY <2>1
      <4> QED
        BY <4>1 DEF Headed
    <3> HIDE DEF h
    <3> QED
      BY <3>1, <3>2
  <2>3. /\ h \in Header /\ h.blk = b /\ h.cnt = bh[i].cnt + 1 /\ h.valid = FALSE /\ h.dirt = FALSE
        /\ h.cnt = 1
    <3>1. y \in Header /\ y.blk = b /\ y.cnt = bh[i].cnt + 1 /\ y.cnt = 1
      BY <1>4, <2>1
    <3> HIDE DEF y
    <3> QED
      BY <3>1 DEF Header
  <2> HIDE DEF h
  <2> DEFINE m == n
  <2>4. m = Release(Headed(GetBlk(c0, b).c, GetBlk(c0, b).i, h), GetBlk(c0, b).i)
    OBVIOUS
  <2> HIDE DEF m
  <2>5. /\ Good(m) /\ CountsOK(m) /\ AllHeld(m, held) /\ CaughtUp(c0, m)
        /\ \A a \in Block \ Broken : a # b => ViewIn(m, a) = ViewIn(c0, a)
        /\ b \notin Broken => ViewIn(m, b) = IF h.valid THEN h.data ELSE m.device[b]
    BY <1>1, <1>4, <2>3, <2>4, FillAndRelease
  <2>6. BufferInv' /\ c0' = m
    <3>1. Becomes(m) /\ AllHeld(m, held') /\ PinsOK(held') /\ halt' \in {"no", "stuck", "crash"}
      BY <1>1, <2>2, <2>5, InvFacts DEF m
    <3> QED
      BY <3>1, <2>5, InvStep
  <2> QED
    BY <1>1, <2>2, <2>3, <2>5, <2>6
<1> QED
  BY <1>2, <1>3, <1>4

LEMMA SyncedStep ==
  ASSUME BufferInv, NEW r, Good(r), Synced(c0, r), Becomes(r), held' = held, halt' = halt
  PROVE  /\ BufferInv' /\ c0' = r /\ CaughtUp(c0, c0')
         /\ \A a \in Block \ Broken : ViewIn(c0', a) = ViewIn(c0, a)
<1>1. /\ Good(c0) /\ CountsOK(c0) /\ AllHeld(c0, held) /\ PinsOK(held)
      /\ halt \in {"no", "stuck", "crash"}
  BY InvFacts DEF BufferInv, TypeOK
<1>2. AllHeld(r, held') /\ CountsOK(r)
  <2> SUFFICES ASSUME NEW j \in BufferHead
               PROVE  HoldersAt(r, held, j) /\ r.bh[j].cnt \in 0..MaxPins
    BY DEF AllHeld, CountsOK
  <2>1. HoldersAt(c0, held, j)
    BY <1>1 DEF AllHeld
  <2>2. HoldersAt(r, held, j)
    BY <1>1, <2>1, HoldersSynced
  <2>3. r.bh[j].cnt = c0.bh[j].cnt
    BY DEF Synced
  <2> QED
    BY <1>1, <2>2, <2>3 DEF CountsOK
<1>3. BufferInv' /\ c0' = r
  BY <1>1, <1>2, InvStep
<1>4. CaughtUp(c0, r) /\ \A a \in Block \ Broken : ViewIn(r, a) = ViewIn(c0, a)
  BY DEF Synced, CaughtUp
<1> QED
  BY <1>3, <1>4

LEMMA SyncAllStep ==
  ASSUME BufferInv, SyncAll
  PROVE  /\ BufferInv' /\ CaughtUp(c0, c0') /\ halt' = halt
         /\ \A a \in Block \ Broken : ViewIn(c0', a) = ViewIn(c0, a)
         /\ \A i \in BufferHead : ~c0'.bh[i].dirt
<1> DEFINE r == SyncBlks(c0, NR_BUFFERS - 1)
<1> DEFINE out == NR_BUFFERS - 1
<1>1. Good(c0) /\ Becomes(r) /\ held' = held /\ halt' = halt
  BY InvFacts DEF SyncAll
<1>2. out \in Nat /\ out = NR_BUFFERS - 1 /\ r = SyncBlks(c0, out)
  BY BufferAssumption
<1> HIDE DEF r, out
<1>3. Good(r) /\ Synced(c0, r) /\ \A i \in BufferHead : ~r.bh[i].dirt
  BY <1>1, <1>2, SyncBlksEffect
<1> QED
  BY <1>1, <1>3, SyncedStep

LEMMA SyncDevStep ==
  ASSUME BufferInv, NEW dev, SyncDevBlks(dev)
  PROVE  /\ BufferInv' /\ CaughtUp(c0, c0') /\ halt' = halt
         /\ \A a \in Block \ Broken : ViewIn(c0', a) = ViewIn(c0, a)
<1> DEFINE r == SyncDevRun(c0, dev)[NR_BUFFERS]
<1>1. Good(c0) /\ Becomes(r) /\ held' = held /\ halt' = halt
  BY InvFacts DEF SyncDevBlks
<1>2. Good(r) /\ Synced(c0, r)
  BY <1>1, SyncDevEffect
<1> HIDE DEF r
<1> QED
  BY <1>1, <1>2, SyncedStep

-----------------------------------------------------------------------------
LEMMA InitInv == Init => BufferInv
<1> SUFFICES ASSUME Init PROVE BufferInv
  OBVIOUS
<1>1. /\ bh = [i \in BufferHead |-> Blank]
      /\ free_list = [i \in 1..NR_BUFFERS |-> i - 1]
      /\ hash = [r \in Rows |-> <<>>] /\ pos = 0 /\ device \in [Block -> Data]
      /\ held = [p \in BufferHead \X Block |-> 0] /\ halt = "no"
  BY DEF Init, Blank, Rows
<1>2. /\ NR_BUFFERS \in Nat \ {0} /\ 0 \in BufferHead /\ 0 \in 0..MaxPins /\ ~(0 > 0)
      /\ Zero \in Data /\ BufferHead = 0..(NR_BUFFERS - 1)
  BY BufferAssumption DEF BufferHead
<1>3. Blank \in [blk : Block \cup {None}, cnt : 0..MaxPins,
                 valid : BOOLEAN, dirt : BOOLEAN, data : Data]
  BY <1>2 DEF Blank
<1>4. free_list \in Seq(BufferHead) /\ DOMAIN free_list = 1..NR_BUFFERS
  <2>1. \A i \in 1..NR_BUFFERS : i - 1 \in BufferHead
    BY <1>2
  <2>2. free_list \in [1..NR_BUFFERS -> BufferHead]
    BY <1>1, <2>1
  <2> QED
    BY <1>2, <2>2, SeqDef
<1>5. <<>> \in Seq(BufferHead) /\ ToSet(<<>>) = {} /\ NoRepeat(<<>>)
  BY DEF ToSet, NoRepeat
<1>6. TypeOK
  BY <1>1, <1>2, <1>3, <1>4, <1>5 DEF TypeOK, Rows
<1>7. /\ \A i \in BufferHead : bh[i].blk = None /\ bh[i].cnt = 0 /\ ~bh[i].valid /\ ~bh[i].dirt
  BY <1>1 DEF Blank
<1>8. c0.bh = bh /\ c0.free = free_list /\ c0.hash = hash
  BY DEF c0
<1>9. NoRepeat(free_list) /\ \A i \in BufferHead : i \in ToSet(free_list)
  <2>1. \A k \in 1..NR_BUFFERS : free_list[k] = k - 1
    BY <1>1
  <2>2. NoRepeat(free_list)
    BY <1>2, <1>4, <2>1 DEF NoRepeat
  <2>3. ASSUME NEW i \in BufferHead PROVE i \in ToSet(free_list)
    <3>1. i + 1 \in 1..NR_BUFFERS /\ (i + 1) - 1 = i
      BY <1>2
    <3>2. free_list[i + 1] = i
      BY <2>1, <3>1
    <3> QED
      BY <3>1, <3>2, <1>4 DEF ToSet
  <2> QED
    BY <2>2, <2>3
<1>10. \A r \in Rows : hash[r] = <<>>
  BY <1>1
<1>11. ListsOK(c0)
  BY <1>5, <1>7, <1>8, <1>9, <1>10 DEF ListsOK, Rows
<1>12. BuffersOK(c0)
  BY <1>7, <1>8 DEF BuffersOK, BufferOK
<1>13. HoldersOK
  BY <1>1, <1>2, <1>7 DEF HoldersOK
<1> QED
  BY <1>6, <1>11, <1>12, <1>13 DEF BufferInv

LEMMA NextInv == BufferInv /\ [Next]_vars => BufferInv'
<1> SUFFICES ASSUME BufferInv, [Next]_vars PROVE BufferInv'
  OBVIOUS
<1>1. ASSUME NEW b \in Block, Bread(b) PROVE BufferInv'
  BY <1>1, BreadStep
<1>2. ASSUME NEW b \in Block, NewBlock(b) PROVE BufferInv'
  BY <1>2, NewBlockStep
<1>3. ASSUME NEW b \in Block, FreeBlock(b) PROVE BufferInv'
  BY <1>3, FreeBlockStep
<1>4. ASSUME NEW i \in BufferHead, NEW b \in Block, Brelse(i, b) PROVE BufferInv'
  BY <1>4, BrelseStep
<1>5. ASSUME NEW i \in BufferHead, NEW b \in Block, NEW d \in Data, Modify(i, b, d) PROVE BufferInv'
  BY <1>5, ModifyStep
<1>6. ASSUME SyncAll PROVE BufferInv'
  BY <1>6, SyncAllStep
<1>7. ASSUME NEW b \in Block, SyncDevBlks(Dev[b]) PROVE BufferInv'
  BY <1>7, SyncDevStep
<1>8. CASE UNCHANGED vars
  <2>1. c0' = c0 /\ held' = held /\ halt' = halt
    BY <1>8 DEF vars, cacheVars, c0
  <2>2. /\ bh' = bh /\ free_list' = free_list /\ hash' = hash /\ pos' = pos /\ device' = device
    BY <1>8 DEF vars, cacheVars
  <2> QED
    BY <2>1, <2>2 DEF BufferInv, TypeOK, ListsOK, BuffersOK, BufferOK, HoldersOK
<1> QED
  BY <1>1, <1>2, <1>3, <1>4, <1>5, <1>6, <1>7, <1>8 DEF Next

(***************************************************************************)
(* The free list and the rows list the buffers they should, once, at every *)
(* moment (buffer.c:32-131, 162-265); a buffer stays for its pins or for   *)
(* what is to be written, and a clean one is what the device has.          *)
(***************************************************************************)
THEOREM BufferInvariant == Spec => []BufferInv
BY InitInv, NextInv, PTL DEF Spec

(***************************************************************************)
(* The counts of the buffers stay within the pins there are.               *)
(***************************************************************************)
THEOREM TypeCorrect == Spec => []TypeOK
<1>1. BufferInv => TypeOK
  BY DEF BufferInv
<1> QED
  BY <1>1, BufferInvariant, PTL

(***************************************************************************)
(* A block is in one buffer, which find_buffer() finds, and the others are *)
(* free (buffer.c:32-131), however long the chains are.                    *)
(***************************************************************************)
THEOREM BlocksCachedOnce == Spec => []CachedOnce
<1>1. BufferInv => CachedOnce
  <2> SUFFICES ASSUME BufferInv PROVE CachedOnce
    OBVIOUS
  <2>1. Good(c0) /\ c0.bh = bh /\ c0.free = free_list /\ c0 \in Cache /\ ListsOK(c0)
    BY InvFacts DEF Good, c0
  <2>2. \A i, j \in BufferHead : bh[i].blk = bh[j].blk /\ bh[i].blk # None => i = j
    BY <2>1 DEF ListsOK
  <2>3. ASSUME NEW b \in Block
        PROVE  Cardinality({i \in BufferHead : bh[i].blk = b}) =
               (IF FindBuffer(c0, b) = None THEN 0 ELSE 1)
    <3> DEFINE T == {i \in BufferHead : bh[i].blk = b}
    <3>1. /\ FindBuffer(c0, b) = None => \A i \in BufferHead : bh[i].blk # b
          /\ FindBuffer(c0, b) # None =>
               FindBuffer(c0, b) \in BufferHead /\ bh[FindBuffer(c0, b)].blk = b
      BY <2>1, FindEffect
    <3>2. CASE FindBuffer(c0, b) = None
      <4>1. T = {}
        BY <3>1, <3>2
      <4> QED
        BY <4>1, <3>2, FS_EmptySet
    <3>3. CASE FindBuffer(c0, b) # None
      <4>1. T = {FindBuffer(c0, b)}
        BY <3>1, <3>3, <2>2, BlankIsHeader
      <4>2. Cardinality(T) = 1
        BY <4>1, FS_Singleton
      <4> QED
        BY <4>2, <3>3
    <3> QED
      BY <3>2, <3>3
  <2> DEFINE F == {i \in BufferHead : bh[i].blk = None}
  <2>4. /\ free_list \in Seq(BufferHead) /\ NoRepeat(free_list)
        /\ \A i \in BufferHead : i \in ToSet(free_list) <=> bh[i].blk = None
    BY <2>1 DEF ListsOK, Cache
  <2>5. ToSet(free_list) = F /\ ToSet(free_list) = {free_list[k] : k \in DOMAIN free_list}
    <3>1. \A k \in DOMAIN free_list : free_list[k] \in BufferHead
      BY <2>4
    <3> QED
      BY <3>1, <2>4 DEF ToSet
  <2>6. Len(free_list) = Cardinality(F)
    <3> DEFINE n == Len(free_list)
    <3>1. n \in Nat /\ DOMAIN free_list = 1..n
      BY <2>4
    <3>2. free_list \in [1..n -> F]
      BY <3>1, <2>4, <2>5 DEF ToSet
    <3>3. \A k, l \in 1..n : free_list[k] = free_list[l] => k = l
      BY <3>1, <2>4 DEF NoRepeat
    <3>4. \A i \in F : \E k \in 1..n : free_list[k] = i
      BY <3>1, <2>5 DEF ToSet
    <3> HIDE DEF n, F
    <3>5. free_list \in Bijection(1..n, F)
      BY <3>2, <3>3, <3>4 DEF Bijection, Injection, IsInjective, Surjection
    <3>6. ExistsBijection(1..n, F)
      BY <3>5 DEF ExistsBijection
    <3>7. Cardinality(F) = n
      BY <3>1, <3>6, FS_CountingElements
    <3> QED
      BY <3>7 DEF n
  <2> QED
    BY <2>2, <2>3, <2>5, <2>6 DEF CachedOnce
<1> QED
  BY <1>1, BufferInvariant, PTL

(***************************************************************************)
(* While the devices work, the count of a buffer is the number of pins the *)
(* file system holds, and a pinned buffer stays with its block             *)
(* (buffer.c:162-192, 258).                                                *)
(***************************************************************************)
THEOREM CountsArePins ==
  ASSUME Broken = {}
  PROVE  Spec => []PinsAreHeld
<1>1. BufferInv => PinsAreHeld
  <2> SUFFICES ASSUME BufferInv, NEW i \in BufferHead
               PROVE  /\ \A b \in Block : held[i, b] > 0 => bh[i].blk = b /\ bh[i].valid
                      /\ bh[i].cnt = IF bh[i].blk = None THEN 0 ELSE held[i, bh[i].blk]
    BY DEF PinsAreHeld
  <2>1. c0.bh = bh /\ HoldersAt(c0, held, i) /\ BufferOK(c0, i)
    BY InvFacts DEF AllHeld, Good, BuffersOK, c0
  <2> QED
    BY <2>1 DEF HoldersAt, BufferOK
<1> QED
  BY <1>1, BufferInvariant, PTL

(***************************************************************************)
(* While the devices work and there are as many buffers as the file system *)
(* holds pins, get_buffer() always finds one and a block that nobody holds *)
(* can be freed (buffer.c:55-72, bmap.c:55-60).                            *)
(***************************************************************************)
THEOREM CacheNeverHalts ==
  ASSUME Broken = {}, MaxPins =< NR_BUFFERS
  PROVE  Spec => []NeverHalts
<1>1. Init => NeverHalts
  BY DEF Init, NeverHalts
<1>2. BufferInv /\ NeverHalts /\ [Next]_vars => NeverHalts'
  <2> SUFFICES ASSUME BufferInv, halt = "no", [Next]_vars PROVE halt' = "no"
    BY DEF NeverHalts
  <2>1. ASSUME NEW b \in Block, Bread(b) PROVE halt' = "no"
    BY <2>1, BreadStep
  <2>2. ASSUME NEW b \in Block, NewBlock(b) PROVE halt' = "no"
    BY <2>2, NewBlockStep
  <2>3. ASSUME NEW b \in Block, FreeBlock(b) PROVE halt' = "no"
    BY <2>3, FreeBlockStep
  <2> QED
    BY <2>1, <2>2, <2>3 DEF Next, Brelse, Modify, SyncAll, SyncDevBlks, vars
<1> QED
  BY <1>1, <1>2, BufferInvariant, PTL DEF Spec

-----------------------------------------------------------------------------
(***************************************************************************)
(* The cache implements the store: which steps write, which throw away.    *)
(***************************************************************************)
LEMMA ViewIsData ==
  ASSUME NEW c, Good(c), NEW b \in Block
  PROVE  ViewIn(c, b) \in Data
<1>1. c.device[b] \in Data /\ \A i \in BufferHead : c.bh[i].data \in Data
  BY DEF Good, Cache, Header
<1>2. CASE CachedIn(c, b) = {}
  BY <1>1, <1>2 DEF ViewIn
<1>3. CASE CachedIn(c, b) # {}
  <2> DEFINE i == CHOOSE i \in CachedIn(c, b) : TRUE
  <2>1. i \in CachedIn(c, b)
    BY <1>3
  <2> HIDE DEF i
  <2>2. i \in BufferHead
    BY <2>1 DEF CachedIn
  <2>3. ViewIn(c, b) = c.bh[i].data
    BY <1>3 DEF ViewIn, i
  <2> QED
    BY <2>2, <2>3, <1>1
<1> QED
  BY <1>2, <1>3

LEMMA CleanView ==
  ASSUME NEW c, Good(c), NEW b \in Block \ Broken, \A i \in BufferHead : ~c.bh[i].dirt
  PROVE  ViewIn(c, b) = c.device[b]
<1>1. CASE \E i \in BufferHead : c.bh[i].blk = b /\ c.bh[i].valid
  <2>1. PICK i \in BufferHead : c.bh[i].blk = b /\ c.bh[i].valid
    BY <1>1
  <2>2. ListsOK(c) /\ BufferOK(c, i) /\ b # None
    BY BlankIsHeader DEF Good, BuffersOK
  <2>3. ViewIn(c, c.bh[i].blk) = c.bh[i].data
    BY <2>1, <2>2, ViewOfBuffer
  <2>4. c.bh[i].data = c.device[b]
    BY <2>1, <2>2 DEF BufferOK
  <2> QED
    BY <2>1, <2>3, <2>4
<1>2. CASE \A i \in BufferHead : c.bh[i].blk = b => ~c.bh[i].valid
  BY <1>2, ViewOfDevice
<1> QED
  BY <1>1, <1>2

LEMMA ViewNext ==
  /\ \A b : View(b) = ViewIn(c0, b) /\ View(b)' = ViewIn(c0', b)
  /\ c0.device = device /\ c0'.device = device'
<1>1. \A b : View(b) = ViewIn(c0, b)
  BY DEF View
<1>2. \A b : View(b)' = ViewIn(c0', b)
  BY DEF View, ViewIn, CachedIn
<1> QED
  BY <1>1, <1>2 DEF c0

LEMMA GoodNext ==
  ASSUME BufferInv'
  PROVE  Good(c0')
<1>1. /\ c0'.bh = bh' /\ c0'.free = free_list' /\ c0'.hash = hash' /\ c0'.pos = pos'
      /\ c0'.device = device'
      /\ c0' = [bh |-> bh', free |-> free_list', hash |-> hash', pos |-> pos', device |-> device']
  BY DEF c0
<1>2. bh' \in [BufferHead -> Header]
  <2>1. ASSUME NEW i \in BufferHead PROVE bh'[i] \in Header
    <3>1. bh'[i] \in [blk : Block \cup {None}, cnt : 0..MaxPins,
                      valid : BOOLEAN, dirt : BOOLEAN, data : Data]
      BY DEF BufferInv, TypeOK
    <3> QED
      BY <3>1, PinsAreNat DEF Header
  <2>2. bh' = [i \in BufferHead |-> bh'[i]]
    BY DEF BufferInv, TypeOK
  <2> QED
    BY <2>1, <2>2
<1>3. c0' \in Cache
  BY <1>1, <1>2 DEF BufferInv, TypeOK, Cache, Rows
<1>4. ListsOK(c0') /\ BuffersOK(c0')
  BY <1>1 DEF BufferInv, ListsOK, BuffersOK, BufferOK
<1> QED
  BY <1>3, <1>4 DEF Good

LEMMA StoreStep ==
  ASSUME Broken = {}, BufferInv, BufferInv', CaughtUp(c0, c0'),
         \/ \A a \in Block : ViewIn(c0', a) = ViewIn(c0, a)
         \/ \E b \in Block :
              /\ \A a \in Block : a # b => ViewIn(c0', a) = ViewIn(c0, a)
              /\ ViewIn(c0', b) \in Data
  PROVE  TheStore!Next
<1> DEFINE v == [b \in Block |-> View(b)]
<1> DEFINE w == [b \in Block |-> View(b)']
<1>1. v' = w
  OBVIOUS
<1>2. /\ \A b \in Block : v[b] = ViewIn(c0, b) /\ w[b] = ViewIn(c0', b)
      /\ c0.device = device /\ c0'.device = device'
  BY ViewNext
<1>3. device' \in [Block -> Data]
  BY DEF BufferInv, TypeOK
<1>4. TheStore!CatchUp
  <2> DEFINE S == {b \in Block : device'[b] = v[b]}
  <2>1. \A b \in Block : device'[b] = IF b \in S THEN v[b] ELSE device[b]
    BY <1>2 DEF CaughtUp
  <2> HIDE DEF v
  <2>2. device' = [b \in Block |-> IF b \in S THEN v[b] ELSE device[b]] /\ S \in SUBSET Block
    BY <2>1, <1>3
  <2> HIDE DEF S
  <2> QED
    BY <2>2 DEF TheStore!CatchUp, v
<1>5. CASE \A a \in Block : ViewIn(c0', a) = ViewIn(c0, a)
  <2>1. w = v
    <3>1. \A a \in Block : View(a)' = View(a)
      BY <1>5, ViewNext
    <3> QED
      BY <3>1
  <2>2. v' = v
    BY <2>1, <1>1
  <2> QED
    BY <2>2, <1>4 DEF TheStore!Next
<1>6. CASE \E b \in Block :
              /\ \A a \in Block : a # b => ViewIn(c0', a) = ViewIn(c0, a)
              /\ ViewIn(c0', b) \in Data
  <2>1. PICK b \in Block : /\ \A a \in Block : a # b => ViewIn(c0', a) = ViewIn(c0, a)
                          /\ ViewIn(c0', b) \in Data
    BY <1>6
  <2> DEFINE d == ViewIn(c0', b)
  <2>2. w = [v EXCEPT ![b] = d]
    <3>1. \A a \in Block : View(a)' = IF a = b THEN d ELSE View(a)
      BY <2>1, ViewNext
    <3> HIDE DEF d
    <3> QED
      BY <3>1
  <2>3. v' = [v EXCEPT ![b] = d]
    BY <2>2, <1>1
  <2>4. d \in Data
    BY <2>1
  <2> HIDE DEF d
  <2>5. TheStore!Write(b, d)
    BY <2>3 DEF TheStore!Write
  <2> QED
    BY <2>4, <2>5, <1>4 DEF TheStore!Next
<1> QED
  BY <1>5, <1>6

(***************************************************************************)
(* While the devices work the cache is transparent (buffer.c:162-207,      *)
(* 243-265): every block reads as the file system left it, and the device  *)
(* only ever gets what the file system wrote.                              *)
(***************************************************************************)
THEOREM CacheIsStore ==
  ASSUME Broken = {}
  PROVE  Spec => StoreSpec
<1> DEFINE v == [b \in Block |-> View(b)]
<1>1. Init => TheStore!Init
  <2> SUFFICES ASSUME Init PROVE v \in [Block -> Data] /\ device = v
    BY DEF TheStore!Init
  <2>1. device \in [Block -> Data] /\ \A i \in BufferHead : ~bh[i].valid
    BY DEF Init
  <2>2. ASSUME NEW b \in Block PROVE View(b) = device[b]
    <3>1. CachedIn(c0, b) = {} /\ c0.device = device
      BY <2>1 DEF CachedIn, c0
    <3> QED
      BY <3>1 DEF View, ViewIn
  <2>3. device = v
    BY <2>1, <2>2
  <2> QED
    BY <2>1, <2>3
<1>2. BufferInv /\ BufferInv' /\ [Next]_vars => [TheStore!Next]_(TheStore!vars)
  <2> SUFFICES ASSUME BufferInv, BufferInv', [Next]_vars
               PROVE  TheStore!Next \/ UNCHANGED TheStore!vars
    OBVIOUS
  <2>0. /\ \A b \in Block : ViewIn(c0', b) \in Data
        /\ c0.device = device /\ c0'.device = device'
    <3>1. Good(c0')
      BY GoodNext
    <3> QED
      BY <3>1, ViewIsData, ViewNext
  <2>1. ASSUME NEW b \in Block, Bread(b) PROVE TheStore!Next
    BY <2>1, BreadStep, StoreStep
  <2>2. ASSUME NEW b \in Block, NewBlock(b) PROVE TheStore!Next
    <3>1. CaughtUp(c0, c0') /\ \A a \in Block : a # b => ViewIn(c0', a) = ViewIn(c0, a)
      BY <2>2, NewBlockStep
    <3> QED
      BY <3>1, <2>0, StoreStep
  <2>3. ASSUME NEW b \in Block, FreeBlock(b) PROVE TheStore!Next
    <3>1. CaughtUp(c0, c0') /\ \A a \in Block : a # b => ViewIn(c0', a) = ViewIn(c0, a)
      BY <2>3, FreeBlockStep
    <3> QED
      BY <3>1, <2>0, StoreStep
  <2>4. ASSUME NEW i \in BufferHead, NEW b \in Block, Brelse(i, b) PROVE TheStore!Next
    <3>1. c0'.device = c0.device /\ \A a \in Block : ViewIn(c0', a) = ViewIn(c0, a)
      BY <2>4, BrelseStep
    <3>2. CaughtUp(c0, c0')
      BY <3>1 DEF CaughtUp
    <3> QED
      BY <3>1, <3>2, StoreStep
  <2>5. ASSUME NEW i \in BufferHead, NEW b \in Block, NEW d \in Data, Modify(i, b, d)
        PROVE  TheStore!Next
    <3>1. c0'.device = c0.device /\ \A a \in Block : a # b => ViewIn(c0', a) = ViewIn(c0, a)
      BY <2>5, ModifyStep
    <3>2. CaughtUp(c0, c0')
      BY <3>1 DEF CaughtUp
    <3> QED
      BY <3>1, <3>2, <2>0, StoreStep
  <2>6. ASSUME SyncAll PROVE TheStore!Next
    BY <2>6, SyncAllStep, StoreStep
  <2>7. ASSUME NEW b \in Block, SyncDevBlks(Dev[b]) PROVE TheStore!Next
    BY <2>7, SyncDevStep, StoreStep
  <2>8. CASE UNCHANGED vars
    <3>1. c0' = c0 /\ device' = device
      BY <2>8 DEF vars, cacheVars, c0
    <3>2. \A b : View(b)' = View(b)
      BY <3>1, ViewNext
    <3>3. UNCHANGED v
      BY <3>2
    <3> QED
      BY <3>1, <3>3 DEF TheStore!vars
  <2> QED
    BY <2>1, <2>2, <2>3, <2>4, <2>5, <2>6, <2>7, <2>8 DEF Next
<1> QED
  BY <1>1, <1>2, BufferInvariant, PTL DEF Spec, StoreSpec, TheStore!Spec

(***************************************************************************)
(* The sync at the end of the file system leaves nothing to write, however *)
(* many buffers there are and wherever the last one stopped (fs/main.c:    *)
(* 164-167, buffer.c:209-241).                                             *)
(***************************************************************************)
THEOREM LastSyncIsComplete ==
  ASSUME Broken = {}
  PROVE  Spec => SyncIsComplete
<1>1. BufferInv /\ [Next]_vars =>
        [SyncAll => \A b \in Block : device'[b] = View(b)']_vars
  <2> SUFFICES ASSUME BufferInv, SyncAll, NEW b \in Block PROVE device'[b] = View(b)'
    OBVIOUS
  <2>1. BufferInv' /\ \A i \in BufferHead : ~c0'.bh[i].dirt
    BY SyncAllStep
  <2>2. Good(c0')
    BY <2>1, GoodNext
  <2>3. ViewIn(c0', b) = c0'.device[b]
    BY <2>1, <2>2, CleanView
  <2> QED
    BY <2>3, ViewNext
<1> QED
  BY <1>1, BufferInvariant, PTL DEF Spec, SyncIsComplete
=============================================================================
