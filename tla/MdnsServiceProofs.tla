-------------------------- MODULE MdnsServiceProofs --------------------------
(***************************************************************************)
(* What the mDNS service keeps, for any interfaces, protocols, services,   *)
(* names, questions and queue length: the answers that wait to be sent and *)
(* what is being probed for refer to services that exist, and freed strings*)
(* are only in questions of probes (NoDanglingService); the two queues     *)
(* between the timer and the task are whole (TxQueueInv); and a pcb that   *)
(* probes has its probe, and no other packet, queued (ProbesAlone).        *)
(*                                                                         *)
(* The invariant is IInv.  A server is Sound when every packet and every   *)
(* pcb refers to services that are linked, a pcb that probes has, alone in *)
(* the packet queue, the probe that asks for all that it probes for, and   *)
(* the packets marked are the first ones, in the order in which their      *)
(* actions stand in the task's line.  The sections follow the code upwards:*)
(* lists, answers, packets, the packet queue, one pcb, all pcbs, the calls,*)
(* the packets received, the task; then one lemma for each action of Next. *)
(***************************************************************************)
EXTENDS MdnsService, FiniteSetTheorems, TLAPS

-----------------------------------------------------------------------------
(* Counting, lists, and what a fold is.                                      *)

\* Counting up: a set that holds 0 and, with i, i + 1, holds all of 0 .. n.
LEMMA UpFromZero ==
    ASSUME NEW n \in Nat, NEW T, 0 \in T,
           \A i \in 0 .. n - 1 : i \in T => i + 1 \in T
    PROVE  0 .. n \subseteq T
<1> DEFINE M == {i \in 0 .. n : i \notin T}
           W == {0 .. i : i \in M}
           F == FiniteSubsetsOf(0 .. n)
<1> SUFFICES ASSUME M # {} PROVE FALSE
    OBVIOUS
<1>1. W \subseteq F /\ W # {}
  <2>1. ASSUME NEW i \in M PROVE 0 .. i \in F
    <3>1. 0 .. i \subseteq 0 .. n
        OBVIOUS
    <3>2. IsFiniteSet(0 .. i)
        BY FS_Interval
    <3> QED
        BY <3>1, <3>2 DEF FiniteSubsetsOf
  <2> QED
    BY <2>1
<1>2. IsWellFoundedOn(StrictSubsetOrdering(0 .. n), F)
    BY FS_Interval, FS_StrictSubsetOrderingWellFounded
<1>3. PICK X \in W : \A Y \in W : ~(<<Y, X>> \in StrictSubsetOrdering(0 .. n))
  <2> HIDE DEF W, F
  <2> QED
    BY <1>1, <1>2, WFMin
<1>4. PICK m \in M : X = 0 .. m
    BY <1>3
<1>5. m # 0 /\ m - 1 \in M
    BY <1>4
<1>6. <<0 .. m - 1, X>> \in StrictSubsetOrdering(0 .. n)
    BY <1>4, <1>5 DEF StrictSubsetOrdering
<1> QED
    BY <1>3, <1>5, <1>6

\* Step by step: what holds at 0 and, if it does before a step, after it, holds at the end.
LEMMA UpTo ==
    ASSUME NEW n \in Nat, NEW T, 0 \in T, \A i \in 1 .. n : i - 1 \in T => i \in T
    PROVE  n \in T
<1>1. \A i \in 0 .. n - 1 : i + 1 \in 1 .. n /\ (i + 1) - 1 = i
    OBVIOUS
<1>2. 0 .. n \subseteq T
    BY <1>1, UpFromZero
<1> QED
    BY <1>2

\* The first of a set of positions.
LEMMA MinIn ==
    ASSUME NEW n \in Nat, NEW I \in SUBSET (1 .. n), I # {}
    PROVE  Min(I) \in I /\ \A i \in I : Min(I) <= i
<1> DEFINE T == {i \in 0 .. n : \A j \in I : j > i}
<1>1. 0 \in T
    OBVIOUS
<1>2. SUFFICES ASSUME ~(\E m \in I : \A i \in I : m <= i) PROVE FALSE
    BY DEF Min
<1>3. \A i \in 0 .. n - 1 : i \in T => i + 1 \in T
    BY <1>2
<1>4. 0 .. n \subseteq T
  <2> HIDE DEF T
  <2> QED
      BY <1>1, <1>3, UpFromZero
<1>5. PICK i \in I : TRUE
    OBVIOUS
<1>6. i \in T
    BY <1>4
<1> QED
    BY <1>5, <1>6

\* The last of a set of positions that has the last there is.
LEMMA MaxIs ==
    ASSUME NEW k \in Nat, NEW s \in SUBSET (1 .. k), k \in s
    PROVE  Max(s) = k
<1>1. \A x \in s : (\A y \in s : x >= y) => x = k
    OBVIOUS
<1>2. \A y \in s : k >= y
    OBVIOUS
<1> QED
    BY <1>1, <1>2 DEF Max

\* A fold goes through the sets of positions: a set of the first k + 1 is one of the
\* first k, or one of these with k + 1 in front of which it comes.
LEMMA PlacesUpTo ==
    ASSUME NEW k \in Nat, NEW s \in SUBSET (1 .. k + 1)
    PROVE  /\ k + 1 \in s => Max(s) = k + 1 /\ s # {} /\ s \ {k + 1} \in SUBSET (1 .. k)
           /\ k + 1 \notin s => s \in SUBSET (1 .. k) /\ s \ {Max(s)} \in SUBSET (1 .. k)
<1>1. ASSUME k + 1 \in s PROVE Max(s) = k + 1
  <2>1. k + 1 \in Nat
      OBVIOUS
  <2> QED
      BY <1>1, <2>1, MaxIs
<1>2. k + 1 \in s => s \ {k + 1} \in SUBSET (1 .. k)
    OBVIOUS
<1>3. k + 1 \notin s => s \in SUBSET (1 .. k)
    OBVIOUS
<1>4. k + 1 \notin s => s \ {Max(s)} \in SUBSET (1 .. k)
    BY <1>3
<1> QED
    BY <1>1, <1>2, <1>3, <1>4

\* The sets a fold over n places passes: those of the first i.
LEMMA PlacesBefore ==
    ASSUME NEW n \in Nat, NEW i \in 1 .. n
    PROVE  /\ 1 .. i \in SUBSET (1 .. n) /\ 1 .. i # {}
           /\ Max(1 .. i) = i /\ (1 .. i) \ {Max(1 .. i)} = 1 .. i - 1
<1>1. i \in Nat /\ 1 .. i \in SUBSET (1 .. i) /\ i \in 1 .. i
    OBVIOUS
<1>2. Max(1 .. i) = i
    BY <1>1, MaxIs
<1>3. (1 .. i) \ {i} = 1 .. i - 1
    OBVIOUS
<1>4. 1 .. i \in SUBSET (1 .. n)
    OBVIOUS
<1>5. 1 .. i # {}
    BY <1>1
<1>6. (1 .. i) \ {Max(1 .. i)} = 1 .. i - 1
    BY <1>2, <1>3
<1> QED
    BY <1>2, <1>4, <1>5, <1>6

-----------------------------------------------------------------------------
(* Lists.                                                                    *)

\* A sequence of whatever it holds.
IsList(s) == s \in Seq(Range(s))

\* The places of a list.
LEMMA ListIs ==
    ASSUME NEW s, IsList(s)
    PROVE  Len(s) \in Nat /\ DOMAIN s = 1 .. Len(s) /\ \A i \in 1 .. Len(s) : s[i] \in Range(s)
BY DEF IsList, Range

\* A sequence of something is a list.
LEMMA SeqIsList ==
    ASSUME NEW S, NEW s \in Seq(S)
    PROVE  IsList(s) /\ Range(s) \subseteq S
<1>1. Len(s) \in Nat /\ s \in [1 .. Len(s) -> S]
    OBVIOUS
<1>2. s \in [1 .. Len(s) -> Range(s)]
    BY <1>1 DEF Range
<1>3. s \in Seq(Range(s))
    BY <1>1, <1>2
<1>4. Range(s) \subseteq S
    BY <1>1 DEF Range
<1> QED
    BY <1>3, <1>4 DEF IsList

\* A function over the first n numbers is a list.
LEMMA ListOf ==
    ASSUME NEW n \in Nat, NEW s, DOMAIN s = 1 .. n, s = [i \in 1 .. n |-> s[i]]
    PROVE  IsList(s) /\ Len(s) = n
<1>1. s \in [1 .. n -> Range(s)]
    BY DEF Range
<1>2. s \in Seq(Range(s))
    BY <1>1
<1> QED
    BY <1>2 DEF IsList

\* What stands in a list with one more at its end.
LEMMA AppendIs ==
    ASSUME NEW s, IsList(s), NEW e
    PROVE  LET t == Append(s, e)
           IN  /\ IsList(t) /\ Len(t) = Len(s) + 1 /\ Range(t) = Range(s) \cup {e}
               /\ \A i \in 1 .. Len(s) : t[i] = s[i]
               /\ t[Len(s) + 1] = e
<1> DEFINE S == Range(s) \cup {e}
           t == Append(s, e)
<1>1. s \in Seq(S) /\ e \in S /\ Len(s) \in Nat /\ DOMAIN s = 1 .. Len(s)
    BY DEF IsList
<1>2. /\ t \in Seq(S) /\ Len(t) = Len(s) + 1
      /\ \A i \in 1 .. Len(s) : t[i] = s[i]
      /\ t[Len(s) + 1] = e
    BY <1>1
<1> HIDE DEF t
<1>3. DOMAIN t = 1 .. Len(s) + 1
    BY <1>2
<1>4. \A i \in DOMAIN t : i \in 1 .. Len(s) \/ i = Len(s) + 1
    BY <1>1, <1>3
<1>5. Range(t) = Range(s) \cup {e}
    BY <1>1, <1>2, <1>3, <1>4 DEF Range
<1>6. IsList(t)
    BY <1>2, SeqIsList
<1> QED
    BY <1>2, <1>5, <1>6 DEF t

\* What stands in two lists put together.
LEMMA ConcatIs ==
    ASSUME NEW s, IsList(s), NEW t, IsList(t), NEW u, u = s \o t
    PROVE  /\ IsList(u) /\ Len(u) = Len(s) + Len(t) /\ Range(u) = Range(s) \cup Range(t)
           /\ \A i \in 1 .. Len(s) : u[i] = s[i]
           /\ \A i \in 1 .. Len(t) : u[Len(s) + i] = t[i]
<1> DEFINE S == Range(s) \cup Range(t)
<1>1. /\ s \in Seq(S) /\ Len(s) \in Nat /\ DOMAIN s = 1 .. Len(s)
      /\ t \in Seq(S) /\ Len(t) \in Nat /\ DOMAIN t = 1 .. Len(t)
    BY DEF IsList
<1>2. /\ u \in Seq(S) /\ Len(u) = Len(s) + Len(t)
      /\ \A i \in 1 .. Len(s) : u[i] = s[i]
      /\ \A i \in 1 .. Len(t) : u[Len(s) + i] = t[i]
    BY <1>1
<1>3. DOMAIN u = 1 .. Len(s) + Len(t)
    BY <1>2
<1>4. \A i \in DOMAIN u : i \in 1 .. Len(s) \/ (i - Len(s) \in 1 .. Len(t) /\ i = Len(s) + (i - Len(s)))
    BY <1>1, <1>3
<1>5. Range(u) \subseteq Range(s) \cup Range(t)
    BY <1>1, <1>2, <1>4 DEF Range
<1>6. Range(s) \subseteq Range(u)
    BY <1>1, <1>2, <1>3 DEF Range
<1>7. \A i \in 1 .. Len(t) : Len(s) + i \in DOMAIN u
    BY <1>1, <1>3
<1>8. Range(t) \subseteq Range(u)
    BY <1>1, <1>2, <1>7 DEF Range
<1>9. IsList(u)
    BY <1>2, SeqIsList
<1> QED
    BY <1>2, <1>5, <1>6, <1>8, <1>9

\* Two lists put together hold what they hold.
LEMMA ConcatRange ==
    ASSUME NEW s, IsList(s), NEW t, IsList(t), NEW u, u = s \o t
    PROVE  IsList(u) /\ Range(u) = Range(s) \cup Range(t)
<1>1. Range(u) = Range(s) \cup Range(t)
    BY ConcatIs
<1>2. IsList(u)
    BY ConcatIs
<1> QED
    BY <1>1, <1>2

\* What stands in a list into which one has been put.
LEMMA InsertAtIs ==
    ASSUME NEW s, IsList(s), NEW k \in DOMAIN s, NEW e
    PROVE  LET t == InsertAt(s, k, e)
           IN  /\ IsList(t) /\ Len(t) = Len(s) + 1 /\ t[k] = e
               /\ \A i \in 1 .. k - 1 : t[i] = s[i]
               /\ \A i \in k .. Len(s) : t[i + 1] = s[i]
<1> DEFINE S == Range(s) \cup {e}
           a == SubSeq(s, 1, k - 1)
           c == SubSeq(s, k, Len(s))
           t == a \o <<e>> \o c
<1>1. s \in Seq(S) /\ e \in S /\ Len(s) \in Nat /\ DOMAIN s = 1 .. Len(s) /\ k \in 1 .. Len(s)
    BY DEF IsList
<1>2. a \in Seq(S) /\ Len(a) = k - 1 /\ \A i \in 1 .. k - 1 : a[i] = s[i]
    BY <1>1
<1>3. c \in Seq(S) /\ Len(c) = Len(s) - k + 1 /\ \A i \in 1 .. Len(s) - k + 1 : c[i] = s[k + i - 1]
    BY <1>1
<1> HIDE DEF a, c
<1> DEFINE d == a \o <<e>>
<1>8. d \in Seq(S) /\ Len(d) = k /\ d[k] = e /\ \A i \in 1 .. k - 1 : d[i] = a[i]
    BY <1>1, <1>2
<1> HIDE DEF d
<1>9. t = d \o c
    BY DEF d
<1> HIDE DEF t
<1>4. t \in Seq(S) /\ Len(t) = Len(s) + 1 /\ t[k] = e /\ \A i \in 1 .. k - 1 : t[i] = a[i]
    BY <1>1, <1>3, <1>8, <1>9
<1>5. \A i \in 1 .. Len(s) - k + 1 : t[k + i] = c[i]
    BY <1>1, <1>3, <1>8, <1>9
<1>6. ASSUME NEW i \in k .. Len(s) PROVE t[i + 1] = s[i]
  <2> DEFINE j == i - k + 1
  <2>1. j \in 1 .. Len(s) - k + 1 /\ k + j = i + 1 /\ k + j - 1 = i
      BY <1>1
  <2> HIDE DEF j
  <2> QED
      BY <1>3, <1>5, <2>1
<1>7. IsList(t)
    BY <1>4, SeqIsList
<1> QED
    BY <1>2, <1>4, <1>6, <1>7 DEF t, a, c, InsertAt

\* What is left of s without its k-th element: h says where it has been.
OneFewer(s, t, k, h) ==
    /\ k \in DOMAIN s /\ h \in [DOMAIN t -> DOMAIN s]
    /\ \A j \in DOMAIN t : t[j] = s[h[j]] /\ h[j] # k
    /\ \A i \in DOMAIN s : i # k => \E j \in DOMAIN t : h[j] = i
    /\ \A i, j \in DOMAIN t : h[i] = h[j] => i = j

\* A list from which one has been taken out holds what it held.
LEMMA RemoveAtIs ==
    ASSUME NEW s, IsList(s), NEW k \in DOMAIN s
    PROVE  LET t == RemoveAt(s, k)
           IN  /\ IsList(t) /\ Range(t) \subseteq Range(s) /\ Len(t) = Len(s) - 1
               /\ \A i \in DOMAIN s : i # k => s[i] \in Range(t)
               /\ \E h : OneFewer(s, t, k, h)
<1> DEFINE a == SubSeq(s, 1, k - 1)
           c == SubSeq(s, k + 1, Len(s))
<1>1. s \in Seq(Range(s)) /\ Len(s) \in Nat /\ k \in 1 .. Len(s)
    BY DEF IsList
<1>2. a \in Seq(Range(s)) /\ c \in Seq(Range(s))
    BY <1>1
<1>3. a \o c \in Seq(Range(s))
    BY <1>2
<1>4. /\ Len(a) = k - 1 /\ \A i \in 1 .. k - 1 : a[i] = s[i]
      /\ Len(c) = Len(s) - k /\ \A i \in 1 .. Len(s) - k : c[i] = s[k + i]
    BY <1>1
<1>5. IsList(a) /\ IsList(c)
    BY <1>2, SeqIsList
<1> DEFINE t == a \o c
<1> HIDE DEF a, c
<1>6. Len(t) = Len(a) + Len(c) /\ Range(t) = Range(a) \cup Range(c)
  <2>1. t = a \o c
      OBVIOUS
  <2> HIDE DEF t
  <2> QED
      BY <1>5, <2>1, ConcatIs
<1>7. ASSUME NEW i \in DOMAIN s, i # k PROVE s[i] \in Range(t)
  <2>1. CASE i \in 1 .. k - 1
      BY <1>4, <1>5, <1>6, <2>1, ListIs
  <2>2. CASE i - k \in 1 .. Len(s) - k
    <3>1. c[i - k] = s[i] /\ c[i - k] \in Range(c)
        BY <1>1, <1>4, <1>5, <2>2, ListIs
    <3> QED
        BY <1>6, <3>1
  <2>3. i \in 1 .. k - 1 \/ i - k \in 1 .. Len(s) - k
      BY <1>1, <1>7
  <2> QED
      BY <2>1, <2>2, <2>3
<1>8. IsList(t) /\ Range(t) \subseteq Range(s)
    BY <1>3, SeqIsList
<1>9. Len(t) = Len(s) - 1
    BY <1>1, <1>4, <1>6
<1>10. \E h : OneFewer(s, t, k, h)
  <2> DEFINE m == Len(s)
             h == [j \in 1 .. m - 1 |-> IF j < k THEN j ELSE j + 1]
  <2>1. DOMAIN t = 1 .. m - 1 /\ DOMAIN s = 1 .. m /\ m \in Nat /\ k \in 1 .. m
      BY <1>1, <1>8, <1>9, ListIs
  <2>2. \A j \in 1 .. m - 1 : t[j] = IF j < k THEN s[j] ELSE s[j + 1]
    <3>1. /\ \A j \in 1 .. Len(a) : t[j] = a[j]
          /\ \A j \in 1 .. Len(c) : t[Len(a) + j] = c[j]
      <4>1. t = a \o c
          OBVIOUS
      <4> HIDE DEF t
      <4>2. \A i \in 1 .. Len(a) : t[i] = a[i]
          BY <1>5, <4>1, ConcatIs
      <4>3. \A i \in 1 .. Len(c) : t[Len(a) + i] = c[i]
          BY <1>5, <4>1, ConcatIs
      <4> QED
          BY <4>2, <4>3 DEF t
    <3> HIDE DEF t
    <3>2. ASSUME NEW j \in 1 .. m - 1, j < k PROVE t[j] = s[j]
      <4>1. j \in 1 .. k - 1
          BY <2>1, <3>2
      <4>2. t[j] = a[j]
          BY <1>4, <3>1, <4>1
      <4> QED
          BY <1>4, <4>1, <4>2
    <3>3. ASSUME NEW j \in 1 .. m - 1, ~(j < k) PROVE t[j] = s[j + 1]
      <4> DEFINE i == j - (k - 1)
      <4>1. i \in 1 .. m - k /\ k + i = j + 1 /\ (k - 1) + i = j
          BY <2>1, <3>3
      <4> HIDE DEF i
      <4>2. t[(k - 1) + i] = c[i]
          BY <1>4, <3>1, <4>1 DEF m
      <4>3. c[i] = s[k + i]
          BY <1>4, <4>1 DEF m
      <4> QED
          BY <4>1, <4>2, <4>3
    <3> QED
        BY <3>2, <3>3
  <2> HIDE DEF t, m
  <2>3. h \in [1 .. m - 1 -> 1 .. m]
      BY <2>1
  <2>4. \A j \in 1 .. m - 1 : t[j] = s[h[j]] /\ h[j] # k
      BY <2>1, <2>2
  <2>5. ASSUME NEW i \in 1 .. m, i # k PROVE \E j \in 1 .. m - 1 : h[j] = i
    <3>1. CASE i < k
      <4>1. i \in 1 .. m - 1 /\ h[i] = i
          BY <2>1, <3>1
      <4> QED
          BY <4>1
    <3>2. CASE i > k
      <4>1. i - 1 \in 1 .. m - 1 /\ h[i - 1] = i
          BY <2>1, <3>2
      <4> QED
          BY <4>1
    <3> QED
        BY <2>1, <2>5, <3>1, <3>2
  <2>6. \A i, j \in 1 .. m - 1 : h[i] = h[j] => i = j
      BY <2>1
  <2> HIDE DEF h
  <2>7. OneFewer(s, t, k, h)
      BY <2>1, <2>3, <2>4, <2>5, <2>6 DEF OneFewer
  <2> QED
      BY <2>7
<1> HIDE DEF t
<1>11. t = RemoveAt(s, k)
    BY DEF RemoveAt, a, c, t
<1> QED
    BY <1>7, <1>8, <1>9, <1>10, <1>11

\* A list has no more elements than places.
LEMMA RangeFinite ==
    ASSUME NEW s, IsList(s)
    PROVE  IsFiniteSet(Range(s)) /\ Cardinality(Range(s)) \in Nat /\ Cardinality(Range(s)) <= Len(s)
<1> DEFINE n == Len(s)
<1>1. n \in Nat /\ DOMAIN s = 1 .. n /\ s = [i \in 1 .. n |-> s[i]]
    BY DEF IsList
<1> HIDE DEF n
<1>2. s \in Surjection(1 .. n, Range(s))
    BY <1>1 DEF Surjection, Range
<1>3. IsFiniteSet(1 .. n) /\ Cardinality(1 .. n) = n
    BY <1>1, FS_Interval
<1>4. IsFiniteSet(Range(s)) /\ Cardinality(Range(s)) <= n
    BY <1>2, <1>3, FS_Surjection
<1>5. Cardinality(Range(s)) \in Nat
    BY <1>4, FS_CardinalityType
<1> QED
    BY <1>4, <1>5 DEF n

\* What is left of a list without its first.
LEMMA TailIs ==
    ASSUME NEW s, IsList(s), s # <<>>
    PROVE  /\ IsList(Tail(s)) /\ Len(Tail(s)) = Len(s) - 1 /\ Len(s) > 0 /\ Head(s) = s[1]
           /\ \A i \in 1 .. Len(s) - 1 : Tail(s)[i] = s[i + 1]
<1> DEFINE S == Range(s)
<1>1. s \in Seq(S)
    BY DEF IsList
<1> HIDE DEF S
<1>2. /\ Tail(s) \in Seq(S) /\ Len(Tail(s)) = Len(s) - 1 /\ Len(s) > 0 /\ Head(s) = s[1]
      /\ \A i \in 1 .. Len(s) - 1 : Tail(s)[i] = s[i + 1]
    BY <1>1
<1>3. IsList(Tail(s))
    BY <1>2, SeqIsList
<1> QED
    BY <1>2, <1>3

\* The elements of a finite set, each once.
LEMMA SetToSeqIs ==
    ASSUME NEW S, IsFiniteSet(S)
    PROVE  LET s == SetToSeq(S)
           IN  \E n \in Nat : DOMAIN s = 1 .. n /\ Range(s) = S /\ s \in [1 .. n -> S] /\ IsInjective(s)
<1> DEFINE n == Cardinality(S)
           s == SetToSeq(S)
<1>1. n \in Nat /\ ExistsBijection(1 .. n, S)
    BY FS_CardinalityType
<1>2. \E f \in [1 .. n -> S] : IsInjective(f)
    BY <1>1 DEF ExistsBijection, Bijection, Injection
<1>3. s \in [1 .. n -> S] /\ IsInjective(s)
  <2> HIDE DEF n
  <2> QED
      BY <1>2 DEF SetToSeq, n
<1>4. IsFiniteSet(1 .. n) /\ Cardinality(1 .. n) = n
    BY <1>1, FS_Interval
<1> HIDE DEF s
<1>5. s \in Injection(1 .. n, S)
    BY <1>3 DEF Injection
<1>6. s \in Surjection(1 .. n, S)
    BY <1>4, <1>5, FS_Injection
<1>7. Range(s) = S
    BY <1>3, <1>6 DEF Surjection, Range
<1> QED
    BY <1>1, <1>3, <1>7 DEF s

-----------------------------------------------------------------------------
(* Recursive definitions, and the list without what is gone.                 *)

\* What a recursive definition over 0 .. n promises exists.
Recurs(n, a, step, g) == g[0] = a /\ \A i \in 1 .. n : g[i] = step[<<i, g[i - 1]>>]
\* A function that is defined by its value at 0 and a step from i - 1 to i is there.
LEMMA Recursion ==
    ASSUME NEW n \in Nat, NEW S, NEW a \in S, NEW step \in [(1 .. n) \X S -> S]
    PROVE  \E g \in [0 .. n -> S] : Recurs(n, a, step, g)
<1> DEFINE Is(k, g) == Recurs(k, a, step, g)
           T == {k \in 0 .. n : \E g \in [0 .. k -> S] : Is(k, g)}
<1>1. 0 \in T
  <2> DEFINE g == [j \in 0 .. 0 |-> a]
  <2>1. g \in [0 .. 0 -> S] /\ Is(0, g)
      BY DEF Recurs
  <2> HIDE DEF g, Is
  <2> QED
      BY <2>1
<1>2. ASSUME NEW i \in 0 .. n - 1, i \in T PROVE i + 1 \in T
  <2>1. PICK g \in [0 .. i -> S] : Is(i, g)
      BY <1>2
  <2> DEFINE h == [j \in 0 .. i + 1 |-> IF j <= i THEN g[j] ELSE step[<<i + 1, g[i]>>]]
  <2>2. h \in [0 .. i + 1 -> S]
      BY <2>1
  <2>3. \A j \in 0 .. i : h[j] = g[j]
      OBVIOUS
  <2>4. h[i + 1] = step[<<i + 1, g[i]>>]
      OBVIOUS
  <2>5. Is(i + 1, h)
    <3> HIDE DEF h
    <3>1. ASSUME NEW j \in 1 .. i + 1 PROVE h[j] = step[<<j, h[j - 1]>>]
      <4>1. CASE j = i + 1
          BY <4>1, <2>3, <2>4
      <4>2. CASE j \in 1 .. i
          BY <4>2, <2>1, <2>3 DEF Recurs
      <4> QED
          BY <4>1, <4>2
    <3> QED
        BY <2>1, <2>3, <3>1 DEF Recurs
  <2> QED
    <3> HIDE DEF h, Is
    <3> QED
        BY <2>2, <2>5
<1>3. 0 .. n \subseteq T
  <2> HIDE DEF T
  <2> QED
      BY <1>1, <1>2, UpFromZero
<1> QED
    BY <1>3

\* What has been kept of the first i of a list: it is in the order of the list and holds
\* nothing that is gone, and whatever is not gone is there.
Rising(h) == \A i, j \in DOMAIN h : i < j => h[i] < h[j]
KeptOf(list, gone, i, w) ==
    /\ \A j \in 1 .. i : list[j] \notin gone => list[j] \in Range(w)
    /\ \E h \in [DOMAIN w -> 1 .. i] :
         Rising(h) /\ \A j \in DOMAIN w : w[j] = list[h[j]] /\ w[j] \notin gone

\* The next element of the list is kept too.
LEMMA KeptMore ==
    ASSUME NEW E, NEW list \in Seq(E), NEW gone, NEW i \in 0 .. Len(list) - 1,
           NEW w \in Seq(E), KeptOf(list, gone, i, w), list[i + 1] \notin gone
    PROVE  KeptOf(list, gone, i + 1, Append(w, list[i + 1]))
<1> DEFINE v == Append(w, list[i + 1])
           n == Len(w)
<1>1. /\ i \in Nat /\ n \in Nat /\ DOMAIN w = 1 .. n /\ DOMAIN v = 1 .. n + 1
      /\ \A j \in 1 .. n : v[j] = w[j]
      /\ v[n + 1] = list[i + 1]
    OBVIOUS
<1>2. PICK h \in [DOMAIN w -> 1 .. i] :
        Rising(h) /\ \A j \in DOMAIN w : w[j] = list[h[j]] /\ w[j] \notin gone
    BY DEF KeptOf
<1> HIDE DEF v, n
<1> DEFINE k == [j \in 1 .. n + 1 |-> IF j = n + 1 THEN i + 1 ELSE h[j]]
<1>3. k \in [DOMAIN v -> 1 .. i + 1] /\ Rising(k)
  <2>1. /\ \A j \in 1 .. n : k[j] = h[j] /\ k[j] \in 1 .. i
        /\ k[n + 1] = i + 1
      BY <1>1, <1>2
  <2>2. k \in [1 .. n + 1 -> 1 .. i + 1]
      BY <1>1, <1>2
  <2> HIDE DEF k
  <2>3. \A a, b \in 1 .. n : a < b => k[a] < k[b]
      BY <1>1, <1>2, <2>1 DEF Rising
  <2>4. \A a \in 1 .. n : k[a] < k[n + 1] /\ ~(n + 1 < a)
      BY <1>1, <2>1
  <2>5. \A a \in 1 .. n + 1 : a \in 1 .. n \/ a = n + 1
      BY <1>1
  <2>6. DOMAIN k = 1 .. n + 1 /\ DOMAIN v = 1 .. n + 1
      BY <1>1, <2>2
  <2>7. \A a, b \in 1 .. n + 1 : a < b => k[a] < k[b]
      BY <2>3, <2>4, <2>5
  <2> QED
      BY <2>2, <2>6, <2>7 DEF Rising
<1>4. \A j \in DOMAIN v : v[j] = list[k[j]] /\ v[j] \notin gone
    BY <1>1, <1>2
<1> HIDE DEF k
<1>5. \E x \in [DOMAIN v -> 1 .. i + 1] :
        Rising(x) /\ \A j \in DOMAIN v : v[j] = list[x[j]] /\ v[j] \notin gone
    BY <1>3, <1>4
<1>6. Range(w) \subseteq Range(v) /\ list[i + 1] \in Range(v)
  <2>1. n + 1 \in DOMAIN v /\ \A j \in DOMAIN w : j \in DOMAIN v /\ v[j] = w[j]
      BY <1>1
  <2> QED
      BY <1>1, <2>1 DEF Range
<1>7. \A j \in 1 .. i : list[j] \notin gone => list[j] \in Range(w)
    BY DEF KeptOf
<1>8. \A j \in 1 .. i + 1 : list[j] \notin gone => list[j] \in Range(v)
    BY <1>1, <1>6, <1>7
<1> QED
    BY <1>5, <1>8 DEF KeptOf, v

\* The list without what is gone holds the rest of it in its order.
LEMMA WithoutIs ==
    ASSUME NEW list, IsList(list), NEW gone
    PROVE  LET w == Without(list, gone)
           IN  /\ IsList(w) /\ Range(w) = {e \in Range(list) : e \notin gone}
               /\ \E h \in [DOMAIN w -> DOMAIN list] :
                     Rising(h) /\ \A j \in DOMAIN w : w[j] = list[h[j]] /\ w[j] \notin gone
<1> DEFINE E == Range(list)
           n == Len(list)
           step == [iw \in (1 .. n) \X Seq(E) |->
                      IF list[iw[1]] \in gone THEN iw[2] ELSE Append(iw[2], list[iw[1]])]
           Kept(g, i) == IF i = 0 THEN <<>>
                         ELSE IF list[i] \in gone THEN g[i - 1] ELSE Append(g[i - 1], list[i])
           kept == CHOOSE g : g = [i \in 0 .. n |-> Kept(g, i)]
<1>1. n \in Nat /\ DOMAIN list = 1 .. n /\ (\A i \in 1 .. n : list[i] \in E) /\ list \in Seq(E)
    BY ListIs DEF IsList
<1>0. Without(list, gone) = kept[n]
    BY DEF Without
<1> HIDE DEF E, n
<1>2. step \in [(1 .. n) \X Seq(E) -> Seq(E)]
    BY <1>1
<1>3. ASSUME NEW i \in 1 .. n, NEW w \in Seq(E)
      PROVE  step[<<i, w>>] = IF list[i] \in gone THEN w ELSE Append(w, list[i])
    OBVIOUS
<1> HIDE DEF step, kept
<1>4. PICK g \in [0 .. n -> Seq(E)] : Recurs(n, <<>>, step, g)
  <2>1. <<>> \in Seq(E)
      OBVIOUS
  <2> QED
      BY <1>1, <1>2, <2>1, Recursion
<1>5. g = [i \in 0 .. n |-> Kept(g, i)]
  <2>1. ASSUME NEW i \in 0 .. n PROVE g[i] = Kept(g, i)
    <3>1. CASE i = 0
        BY <1>4, <3>1 DEF Recurs
    <3>2. CASE i \in 1 .. n
      <4>1. g[i] = step[<<i, g[i - 1]>>]
          BY <1>4, <3>2 DEF Recurs
      <4>2. g[i - 1] \in Seq(E) /\ i # 0
          BY <1>1, <1>4, <3>2
      <4> QED
          BY <1>3, <3>2, <4>1, <4>2
    <3> QED
        BY <1>1, <3>1, <3>2
  <2> QED
      BY <2>1
<1>6. kept = [i \in 0 .. n |-> Kept(kept, i)]
  <2> HIDE DEF Kept
  <2> QED
      BY <1>5 DEF kept
<1>7. /\ kept[0] = <<>>
      /\ \A i \in 0 .. n - 1 :
           kept[i + 1] = IF list[i + 1] \in gone THEN kept[i] ELSE Append(kept[i], list[i + 1])
  <2>1. \A i \in 0 .. n : kept[i] = Kept(kept, i)
      BY <1>6
  <2>2. kept[0] = Kept(kept, 0)
      BY <1>1, <2>1
  <2>3. \A i \in 0 .. n - 1 : i + 1 \in 0 .. n /\ i + 1 # 0 /\ (i + 1) - 1 = i
      BY <1>1
  <2> QED
      BY <2>1, <2>2, <2>3
<1> DEFINE Right(i) == kept[i] \in Seq(E) /\ KeptOf(list, gone, i, kept[i])
           T == {i \in 0 .. n : Right(i)}
<1>8. Right(0)
  <2>2. KeptOf(list, gone, 0, <<>>)
    <3>1. <<>> \in [DOMAIN <<>> -> 1 .. 0] /\ Rising(<<>>) /\ DOMAIN <<>> = {}
        BY DEF Rising
    <3>2. 1 .. 0 = {}
        OBVIOUS
    <3> DEFINE w == <<>>
    <3> HIDE DEF w
    <3>3. KeptOf(list, gone, 0, w)
        BY <3>1, <3>2 DEF KeptOf, w
    <3> QED
        BY <3>3 DEF w
  <2> QED
      BY <1>7, <2>2
<1>9. ASSUME NEW i \in 0 .. n - 1, Right(i) PROVE Right(i + 1)
  <2>1. i + 1 \in 1 .. n /\ i \in Nat /\ list[i + 1] \in E
      BY <1>1
  <2>2. kept[i] \in Seq(E) /\ KeptOf(list, gone, i, kept[i])
      BY <1>9
  <2>3. CASE list[i + 1] \in gone
    <3>1. kept[i + 1] = kept[i]
        BY <1>7, <2>3
    <3>2. KeptOf(list, gone, i + 1, kept[i])
      <4>1. PICK h \in [DOMAIN kept[i] -> 1 .. i] : Rising(h)
                 /\ \A j \in DOMAIN kept[i] : kept[i][j] = list[h[j]] /\ kept[i][j] \notin gone
          BY <2>2 DEF KeptOf
      <4>2. h \in [DOMAIN kept[i] -> 1 .. i + 1]
          BY <2>1, <4>1
      <4>3. \A j \in 1 .. i + 1 : j \in 1 .. i \/ j = i + 1
          BY <2>1
      <4>4. \A j \in 1 .. i : list[j] \notin gone => list[j] \in Range(kept[i])
          BY <2>2 DEF KeptOf
      <4> QED
          BY <2>3, <4>1, <4>2, <4>3, <4>4 DEF KeptOf
    <3> QED
        BY <2>2, <3>1, <3>2
  <2>4. CASE list[i + 1] \notin gone
    <3>1. kept[i + 1] = Append(kept[i], list[i + 1])
        BY <1>7, <2>4
    <3>2. KeptOf(list, gone, i + 1, kept[i + 1])
      <4> DEFINE w == kept[i]
      <4>1. i \in 0 .. Len(list) - 1 /\ list \in Seq(E) /\ w \in Seq(E) /\ KeptOf(list, gone, i, w)
          BY <1>1, <2>2 DEF n
      <4> HIDE DEF w
      <4>2. KeptOf(list, gone, i + 1, Append(w, list[i + 1]))
          BY <2>4, <4>1, KeptMore
      <4> QED
          BY <3>1, <4>2 DEF w
    <3> QED
        BY <2>1, <2>2, <3>1, <3>2
  <2> QED
      BY <2>3, <2>4
<1>10. Right(n)
  <2> HIDE DEF Right
  <2>1. 0 \in T
      BY <1>1, <1>8
  <2>2. \A i \in 0 .. n - 1 : i \in T => i + 1 \in T
      BY <1>1, <1>9
  <2>3. 0 .. n \subseteq T
    <3> HIDE DEF T
    <3> QED
        BY <1>1, <2>1, <2>2, UpFromZero
  <2> QED
      BY <1>1, <2>3
<1>11. PICK h \in [DOMAIN kept[n] -> 1 .. n] : Rising(h)
         /\ \A j \in DOMAIN kept[n] : kept[n][j] = list[h[j]] /\ kept[n][j] \notin gone
    BY <1>10 DEF KeptOf
<1>12. kept[n] \in Seq(E) /\ \A j \in 1 .. n : list[j] \notin gone => list[j] \in Range(kept[n])
    BY <1>10 DEF KeptOf
<1>13. Range(kept[n]) = {e \in Range(list) : e \notin gone}
    BY <1>1, <1>11, <1>12 DEF Range
<1>14. IsList(kept[n])
    BY <1>12, SeqIsList
<1> QED
    BY <1>0, <1>1, <1>11, <1>13, <1>14

-----------------------------------------------------------------------------
(* Lists of answers: what they refer to.                                     *)

\* What the answers of a list are about is among the services of a set.
Refers(list, L) == IsList(list) /\ \A i \in DOMAIN list : list[i].svc \in L \cup {None}

\* A list that goes on from another one.
GoesOn(list, new) == \A i \in DOMAIN list : i \in DOMAIN new /\ new[i] = list[i]

\* A probe claims a service: it says what the SRV will be.
Claims(list, s) == \E i \in DOMAIN list : list[i].type = "SRV" /\ list[i].svc = s

\* The answers are created one after the other.
Creates(r, n, list, as) ==
    /\ r[0] = list /\ r[n] = CreateAnswers(list, as)
    /\ \A i \in 1 .. n : r[i] = CreateAnswer(r[i - 1], as[i])

\* The fold takes these steps.
LEMMA CreateAnswersFold ==
    ASSUME NEW list, NEW as,
           NEW n \in Nat, DOMAIN as = 1 .. n
    PROVE  \E r : Creates(r, n, list, as)
<1> DEFINE Op(x, i) == CreateAnswer(x, as[i])
           After(g, s) == IF s = {} THEN list ELSE Op(g[s \ {Max(s)}], Max(s))
           Is(k, g) == g = [s \in SUBSET (1 .. k) |-> After(g, s)]
           fold == CHOOSE g : Is(n, g)
           T == {k \in 0 .. n : \E g : Is(k, g)}
<1>1. CreateAnswers(list, as) = fold[1 .. n]
    BY DEF CreateAnswers, FoldLeft, MapThenFoldSet
<1> HIDE DEF Op
<1>2. Is(0, [s \in SUBSET (1 .. 0) |-> list])
    OBVIOUS
<1>3. ASSUME NEW k \in 0 .. n - 1, NEW g, Is(k, g) PROVE \E h : Is(k + 1, h)
  <2> DEFINE h == [s \in SUBSET (1 .. k + 1) |->
                     IF k + 1 \in s THEN Op(g[s \ {k + 1}], k + 1) ELSE g[s]]
  <2>0. \A s \in SUBSET (1 .. k) : g[s] = After(g, s)
      BY <1>3
  <2>1. /\ \A s \in SUBSET (1 .. k) : h[s] = g[s]
        /\ \A s \in SUBSET (1 .. k + 1) : k + 1 \in s => h[s] = Op(g[s \ {k + 1}], k + 1)
        /\ h = [s \in SUBSET (1 .. k + 1) |-> h[s]]
      OBVIOUS
  <2> HIDE DEF h
  <2>2. \A s \in SUBSET (1 .. k + 1) : h[s] = After(h, s)
      BY k \in Nat, <2>0, <2>1, PlacesUpTo
  <2> QED
      BY <2>1, <2>2
<1>4. Is(n, fold)
  <2> HIDE DEF Is
  <2>1. 0 \in T /\ \A k \in 0 .. n - 1 : k \in T => k + 1 \in T
      BY <1>2, <1>3
  <2> HIDE DEF T
  <2>2. 0 .. n \subseteq T
      BY <2>1, UpFromZero
  <2> QED
      BY <2>2 DEF T
<1> HIDE DEF fold
<1> DEFINE r == [i \in 0 .. n |-> fold[1 .. i]]
<1>5. r[0] = list /\ r[n] = fold[1 .. n]
  <2>1. 1 .. 0 = {} /\ r[0] = fold[1 .. 0] /\ r[n] = fold[1 .. n]
      OBVIOUS
  <2>2. fold[{}] = list
      BY <1>4
  <2> QED
      BY <2>1, <2>2
<1>6. ASSUME NEW i \in 1 .. n PROVE r[i] = Op(r[i - 1], i)
  <2>1. r[i] = fold[1 .. i] /\ r[i - 1] = fold[1 .. i - 1]
      OBVIOUS
  <2>2. fold[1 .. i] = Op(fold[(1 .. i) \ {Max(1 .. i)}], Max(1 .. i))
      BY <1>4, PlacesBefore
  <2> HIDE DEF r
  <2> QED
      BY <2>1, <2>2, PlacesBefore
<1> HIDE DEF r
<1>7. Creates(r, n, list, as)
    BY <1>1, <1>5, <1>6 DEF Op, Creates
<1> QED
    BY <1>7

\* An answer that is created joins the list, if none like it is there.
LEMMA CreateAnswerIs ==
    ASSUME NEW list, NEW L, Refers(list, L), NEW a, a.svc \in L \cup {None}
    PROVE  LET new == CreateAnswer(list, a)
           IN  /\ Refers(new, L) /\ GoesOn(list, new)
               /\ \E i \in DOMAIN new : SameAnswer(new[i], a)
<1>1. CASE \E i \in DOMAIN list : SameAnswer(list[i], a)
    BY <1>1 DEF CreateAnswer, GoesOn
<1>2. CASE ~\E i \in DOMAIN list : SameAnswer(list[i], a)
  <2> DEFINE t == Append(list, a)
  <2>1. IsList(list) /\ CreateAnswer(list, a) = t
      BY <1>2 DEF CreateAnswer, Refers
  <2>2. /\ IsList(t) /\ Len(t) = Len(list) + 1 /\ t[Len(list) + 1] = a
        /\ \A i \in 1 .. Len(list) : t[i] = list[i]
      BY <2>1, AppendIs
  <2> HIDE DEF t
  <2>3. /\ Len(list) \in Nat /\ DOMAIN list = 1 .. Len(list)
        /\ DOMAIN t = 1 .. Len(list) + 1
      BY <2>1, <2>2, ListIs
  <2>4. \A i \in DOMAIN t : i \in DOMAIN list \/ i = Len(list) + 1
      BY <2>3
  <2>5. Refers(t, L)
      BY <2>2, <2>3, <2>4 DEF Refers
  <2>6. GoesOn(list, t)
      BY <2>2, <2>3 DEF GoesOn
  <2>7. Len(list) + 1 \in DOMAIN t /\ SameAnswer(t[Len(list) + 1], a)
      BY <2>2, <2>3 DEF SameAnswer
  <2> QED
      BY <2>1, <2>5, <2>6, <2>7
<1> QED
    BY <1>1, <1>2

\* A list that goes on from another one is no shorter.
LEMMA GoesOnLonger ==
    ASSUME NEW list, IsList(list), NEW new, IsList(new), GoesOn(list, new)
    PROVE  Len(new) >= Len(list)
<1>1. /\ Len(list) \in Nat /\ DOMAIN list = 1 .. Len(list)
      /\ Len(new) \in Nat /\ DOMAIN new = 1 .. Len(new)
    BY ListIs
<1>2. CASE Len(list) = 0
    BY <1>1, <1>2
<1>3. CASE Len(list) # 0
  <2>1. Len(list) \in DOMAIN list
      BY <1>1, <1>3
  <2>2. Len(list) \in DOMAIN new
      BY <2>1 DEF GoesOn
  <2> QED
      BY <1>1, <2>2
<1> QED
    BY <1>2, <1>3

\* Several answers join the list; each of them is then there, or one like it.
LEMMA CreateAnswersIs ==
    ASSUME NEW list, NEW L, Refers(list, L), NEW n \in Nat, NEW as, DOMAIN as = 1 .. n,
           \A i \in 1 .. n : as[i].svc \in L \cup {None}
    PROVE  LET new == CreateAnswers(list, as)
           IN  /\ Refers(new, L) /\ GoesOn(list, new)
               /\ \A i \in 1 .. n : \E k \in DOMAIN new : SameAnswer(new[k], as[i])
<1>0. PICK r : Creates(r, n, list, as)
    BY CreateAnswersFold
<1>1. /\ r[0] = list /\ r[n] = CreateAnswers(list, as)
      /\ \A i \in 1 .. n : r[i] = CreateAnswer(r[i - 1], as[i])
    BY <1>0 DEF Creates
<1> DEFINE Has(i) == /\ Refers(r[i], L) /\ GoesOn(list, r[i])
                     /\ \A j \in 1 .. i : \E k \in DOMAIN r[i] : SameAnswer(r[i][k], as[j])
<1>2. Has(0)
  <2>1. 1 .. 0 = {}
      OBVIOUS
  <2>2. GoesOn(list, r[0])
      BY <1>1 DEF GoesOn
  <2> QED
      BY <1>1, <2>1, <2>2
<1>3. ASSUME NEW i \in 1 .. n, Has(i - 1) PROVE Has(i)
  <2>1. r[i] = CreateAnswer(r[i - 1], as[i]) /\ as[i].svc \in L \cup {None}
      BY <1>1
  <2>2. /\ Refers(r[i], L) /\ GoesOn(r[i - 1], r[i])
        /\ \E k \in DOMAIN r[i] : SameAnswer(r[i][k], as[i])
      BY <1>3, <2>1, CreateAnswerIs
  <2>3. GoesOn(list, r[i])
      BY <1>3, <2>2 DEF GoesOn
  <2>4. \A j \in 1 .. i - 1 : \E k \in DOMAIN r[i] : SameAnswer(r[i][k], as[j])
      BY <1>3, <2>2 DEF GoesOn
  <2>5. \A j \in 1 .. i : j \in 1 .. i - 1 \/ j = i
      OBVIOUS
  <2> QED
      BY <2>2, <2>3, <2>4, <2>5
<1> HIDE DEF Has
<1>5. Has(n)
  <2> DEFINE T == {i \in 0 .. n : Has(i)}
  <2>1. 0 \in T
      BY <1>2
  <2>2. \A i \in 1 .. n : i - 1 \in T => i \in T
    <3>1. \A i \in 1 .. n : i \in 0 .. n
        OBVIOUS
    <3> QED
        BY <1>3, <3>1
  <2> HIDE DEF T
  <2>3. n \in T
      BY <2>1, <2>2, UpTo
  <2> QED
      BY <2>3 DEF T
<1> QED
    BY <1>1, <1>5 DEF Has

-----------------------------------------------------------------------------
(* The packets: a packet fits the services its answers may refer to.         *)

\* A packet, and a packet that refers to nothing but what is in L.
PacketFields ==
    {"id", "pcb", "auth", "dist", "qs", "answers", "servers", "additional", "dst", "at", "queued"}
IsPacket(p) ==
    /\ DOMAIN p = PacketFields
    /\ p.id \in Nat /\ p.pcb \in Pcbs /\ p.at \in Nat /\ p.queued \in BOOLEAN
    /\ IsList(p.qs)
PacketFits(p, L) ==
    IsPacket(p) /\ Refers(p.answers, L) /\ Refers(p.servers, L) /\ Refers(p.additional, L)

\* A packet that has just been allocated for a pcb.
IsNew(p, x, b) == p.pcb = b /\ ~p.queued /\ p.at = Now /\ p.id \notin LiveIds(x)

\* An empty list refers to nothing.
LEMMA NothingRefers == ASSUME NEW L PROVE Refers(<<>>, L)
BY DEF Refers, IsList

\* What refers to the services of a set refers to those of a larger one.
LEMMA RefersMore ==
    ASSUME NEW list, NEW L, Refers(list, L), NEW M, L \subseteq M
    PROVE  Refers(list, M)
BY DEF Refers

\* There is a number that no packet has: the packets are finitely many.
LEMMA FreshIdIs ==
    ASSUME NEW S, IsFiniteSet(S)
    PROVE  FreshId(S) \in Nat /\ FreshId(S) \notin S
<1> DEFINE c == Cardinality(S)
<1>1. c \in Nat
    BY FS_CardinalityType
<1>2. IsFiniteSet(1 .. c + 1) /\ Cardinality(1 .. c + 1) = c + 1
    BY <1>1, FS_Interval
<1>3. ASSUME 1 .. c + 1 \subseteq S PROVE FALSE
  <2>1. Cardinality(1 .. c + 1) <= c
      BY <1>3, FS_Subset
  <2> QED
      BY <1>1, <1>2, <2>1
<1>4. PICK i \in 1 .. c + 1 : i \notin S
    BY <1>3
<1>5. \E j \in 1 .. (Cardinality(S) + 1) : j \notin S
    BY <1>4
<1>6. FreshId(S) \in 1 .. c + 1 /\ FreshId(S) \notin S
    BY <1>5 DEF FreshId
<1> QED
    BY <1>1, <1>6

\* The packets in the queue have finitely many numbers.
LEMMA LiveIdsFinite ==
    ASSUME NEW x, IsList(x.tx)
    PROVE  IsFiniteSet(LiveIds(x))
<1> DEFINE n == Len(x.tx)
           f == [i \in 1 .. n |-> x.tx[i].id]
<1>1. n \in Nat /\ DOMAIN x.tx = 1 .. n
    BY ListIs
<1> HIDE DEF n
<1>2. IsFiniteSet(1 .. n)
    BY <1>1, FS_Interval
<1>3. LiveIds(x) = {f[i] : i \in 1 .. n}
    BY <1>1 DEF LiveIds
<1> HIDE DEF f
<1>4. f \in Surjection(1 .. n, LiveIds(x))
  <2>1. DOMAIN f = 1 .. n /\ f = [i \in 1 .. n |-> f[i]]
      BY DEF f
  <2> QED
      BY <1>3, <2>1 DEF Surjection
<1> QED
    BY <1>2, <1>4, FS_Surjection

\* A packet that is allocated has a number of its own and no answers.
LEMMA AllocPacketIs ==
    ASSUME NEW x, IsList(x.tx), NEW b \in Pcbs, NEW auth, NEW held, IsFiniteSet(held), NEW L
    PROVE  LET p == AllocPacket(x, b, auth, held)
           IN  /\ PacketFits(p, L) /\ IsNew(p, x, b) /\ p.id \notin held
               /\ p.answers = <<>> /\ p.servers = <<>> /\ p.qs = <<>>
<1> DEFINE d == FreshId(LiveIds(x) \cup held)
           p == AllocPacket(x, b, auth, held)
<1>1. IsFiniteSet(LiveIds(x) \cup held)
    BY LiveIdsFinite, FS_Union
<1>2. d \in Nat /\ d \notin LiveIds(x) \cup held
    BY <1>1, FreshIdIs
<1> HIDE DEF d
<1>3. /\ DOMAIN p = PacketFields /\ p.id = d /\ p.pcb = b /\ p.at = Now /\ p.queued = FALSE
      /\ p.answers = <<>> /\ p.servers = <<>> /\ p.additional = <<>> /\ p.qs = <<>>
    BY DEF AllocPacket, PacketFields, d
<1> HIDE DEF p
<1>4. IsPacket(p)
  <2>1. Now \in Nat
      BY DEF Now
  <2>2. p.queued \in BOOLEAN
      BY <1>3
  <2>3. IsList(p.qs)
      BY <1>3 DEF IsList
  <2> QED
      BY <1>2, <1>3, <2>1, <2>2, <2>3 DEF IsPacket
<1>5. PacketFits(p, L)
    BY <1>3, <1>4, NothingRefers DEF PacketFits
<1>6. IsNew(p, x, b) /\ p.id \notin held
    BY <1>2, <1>3 DEF IsNew
<1> QED
    BY <1>3, <1>5, <1>6 DEF p

\* A packet is given questions and servers: a probe.
LEMMA PacketProbes ==
    ASSUME NEW L, NEW p, PacketFits(p, L), NEW qs, IsList(qs), NEW as, Refers(as, L)
    PROVE  LET q == [p EXCEPT !.qs = qs, !.servers = as]
           IN  /\ PacketFits(q, L) /\ q.servers = as /\ q.qs = qs
               /\ \A x, b : IsNew(p, x, b) => IsNew(q, x, b)
<1>1. DOMAIN p = PacketFields
    BY DEF PacketFits, IsPacket
<1> DEFINE q == [p EXCEPT !.qs = qs, !.servers = as]
<1>2. /\ DOMAIN q = PacketFields /\ q.id = p.id /\ q.pcb = p.pcb /\ q.at = p.at
      /\ q.queued = p.queued /\ q.answers = p.answers /\ q.additional = p.additional
      /\ q.servers = as /\ q.qs = qs
    BY <1>1 DEF PacketFields
<1> HIDE DEF q
<1>3. /\ PacketFits(q, L) /\ q.servers = as /\ q.qs = qs
      /\ \A x, b : IsNew(p, x, b) => IsNew(q, x, b)
    BY <1>2 DEF PacketFits, IsPacket, IsNew
<1> QED
    BY <1>3 DEF q

\* A packet is given answers: an announcement.
LEMMA PacketAnswers ==
    ASSUME NEW L, NEW p, PacketFits(p, L), NEW as, Refers(as, L)
    PROVE  LET q == [p EXCEPT !.answers = as]
           IN  /\ PacketFits(q, L) /\ q.answers = as /\ q.servers = p.servers /\ q.qs = p.qs
               /\ \A x, b : IsNew(p, x, b) => IsNew(q, x, b)
<1>1. DOMAIN p = PacketFields
    BY DEF PacketFits, IsPacket
<1> DEFINE q == [p EXCEPT !.answers = as]
<1>2. /\ DOMAIN q = PacketFields /\ q.id = p.id /\ q.pcb = p.pcb /\ q.at = p.at
      /\ q.queued = p.queued /\ q.answers = as /\ q.additional = p.additional
      /\ q.servers = p.servers /\ q.qs = p.qs
    BY <1>1 DEF PacketFields
<1> HIDE DEF q
<1>3. /\ PacketFits(q, L) /\ q.answers = as /\ q.servers = p.servers /\ q.qs = p.qs
      /\ \A x, b : IsNew(p, x, b) => IsNew(q, x, b)
    BY <1>2 DEF PacketFits, IsPacket, IsNew
<1> QED
    BY <1>3 DEF q

-----------------------------------------------------------------------------
(* The packets of the library: probes and announcements.                     *)

\* The answers about a service are taken out of a list, the others stay.
LEMMA DeallocServiceAnswersIs ==
    ASSUME NEW list, NEW L, Refers(list, L), NEW s
    PROVE  LET new == DeallocServiceAnswers(list, s)
           IN  /\ Refers(new, L \ {s})
               /\ \A x : x # s /\ Claims(list, x) => Claims(new, x) /\ new # <<>>
<1> DEFINE gone == {a \in Range(list) : a.svc = s}
           new == Without(list, gone)
<1>1. DeallocServiceAnswers(list, s) = new /\ IsList(list)
    BY DEF DeallocServiceAnswers, Refers
<1>2. IsList(new) /\ Range(new) = {e \in Range(list) : e \notin gone}
    BY <1>1, WithoutIs
<1> HIDE DEF new
<1>3. Range(new) = {a \in Range(list) : a.svc # s}
    BY <1>2
<1>4. \A i \in DOMAIN new : new[i] \in Range(list) /\ new[i].svc # s
    BY <1>3 DEF Range
<1>5. Refers(new, L \ {s})
    BY <1>2, <1>4 DEF Refers, Range
<1>6. ASSUME NEW x, x # s, Claims(list, x) PROVE Claims(new, x) /\ new # <<>>
  <2>1. PICK i \in DOMAIN list : list[i].type = "SRV" /\ list[i].svc = x
      BY <1>6 DEF Claims
  <2>2. list[i] \in Range(new)
      BY <1>3, <1>6, <2>1 DEF Range
  <2>3. PICK k \in DOMAIN new : new[k] = list[i]
      BY <2>2 DEF Range
  <2> QED
      BY <2>1, <2>3 DEF Claims
<1> QED
    BY <1>1, <1>5, <1>6

\* One answer is taken out of a list.
LEMMA DeallocAnswerIs ==
    ASSUME NEW list, NEW L, Refers(list, L), NEW type, NEW svc
    PROVE  Refers(DeallocAnswer(list, type, svc), L)
<1> DEFINE k == SelectInSeq(list, LAMBDA a : a.type = type /\ a.svc = svc)
           I == {i \in 1 .. Len(list) : list[i].type = type /\ list[i].svc = svc}
<1>1. Len(list) \in Nat /\ DOMAIN list = 1 .. Len(list) /\ IsList(list)
    BY ListIs DEF Refers
<1>2. k = IF I # {} THEN Min(I) ELSE 0
    BY DEF SelectInSeq
<1>3. I \in SUBSET (1 .. Len(list))
    OBVIOUS
<1> HIDE DEF k, I
<1>4. k = 0 \/ k \in DOMAIN list
    BY <1>1, <1>2, <1>3, MinIn
<1>5. DeallocAnswer(list, type, svc) = IF k = 0 THEN list ELSE RemoveAt(list, k)
    BY DEF DeallocAnswer, k
<1>6. k \in DOMAIN list => IsList(RemoveAt(list, k)) /\ Range(RemoveAt(list, k)) \subseteq Range(list)
    BY <1>1, RemoveAtIs
<1>7. k \in DOMAIN list => Refers(RemoveAt(list, k), L)
    BY <1>6 DEF Refers, Range
<1> QED
    BY <1>4, <1>5, <1>7

\* The addresses of the hosts of services are added; they refer to no service.
LEMMA AppendHostListInServicesIs ==
    ASSUME NEW x, NEW list, NEW L, Refers(list, L), NEW services, IsList(services),
           NEW flush, NEW bye
    PROVE  LET new == AppendHostListInServices(x, list, services, flush, bye)
           IN  Refers(new, L) /\ GoesOn(list, new)
<1> DEFINE as == [i \in DOMAIN services |->
                    Answer("A", None, GetHostItem(x, x.svc[services[i]].host), flush, bye)]
           a == Answer("A", None, Self, flush, bye)
           n == Len(services)
<1>1. a.svc = None /\ \A i \in DOMAIN as : as[i].svc = None
    BY DEF Answer
<1>2. DOMAIN as = 1 .. n /\ n \in Nat
    BY ListIs
<1>3. AppendHostListInServices(x, list, services, flush, bye) =
        IF services = <<>> THEN CreateAnswer(list, a) ELSE CreateAnswers(list, as)
    BY DEF AppendHostListInServices
<1> HIDE DEF as, a, n
<1>4. Refers(CreateAnswer(list, a), L) /\ GoesOn(list, CreateAnswer(list, a))
    BY <1>1, CreateAnswerIs
<1>5. Refers(CreateAnswers(list, as), L) /\ GoesOn(list, CreateAnswers(list, as))
    BY <1>1, <1>2, CreateAnswersIs
<1> QED
    BY <1>3, <1>4, <1>5

\* The addresses of all the hosts are added.
LEMMA AppendHostListIs ==
    ASSUME NEW x, IsList(x.hosts), NEW list, NEW L, Refers(list, L), NEW flush
    PROVE  Refers(AppendHostList(x, list, flush), L)
<1> DEFINE A(i) == Answer("A", None, IF i < Len(x.hosts) THEN x.hosts[i + 1].name ELSE None,
                          flush, FALSE)
           m == Len(x.hosts)
           t == [i \in DOMAIN x.hosts |-> A(i)]
           own == <<Answer("A", None, Self, flush, FALSE)>>
           as == own \o t
<1>1. m \in Nat /\ DOMAIN x.hosts = 1 .. m
    BY ListIs
<1>2. AppendHostList(x, list, flush) = CreateAnswers(list, as)
    BY DEF AppendHostList
<1>3. /\ \A i \in DOMAIN t : t[i].svc = None
      /\ t = [i \in 1 .. m |-> t[i]] /\ DOMAIN t = 1 .. m
    BY <1>1 DEF Answer
<1>4. own = [i \in 1 .. 1 |-> own[i]] /\ own[1].svc = None /\ DOMAIN own = 1 .. 1
    BY DEF Answer
<1> HIDE DEF t, own, m, A
<1>5. IsList(t) /\ Len(t) = m
    BY <1>1, <1>3, ListOf
<1>6. IsList(own) /\ Len(own) = 1
    BY <1>4, ListOf
<1>7. /\ IsList(as) /\ Len(as) = 1 + m
      /\ \A i \in 1 .. 1 : as[i] = own[i]
      /\ \A i \in 1 .. m : as[1 + i] = t[i]
  <2>1. /\ IsList(as) /\ Len(as) = Len(own) + Len(t)
        /\ \A i \in 1 .. Len(own) : as[i] = own[i]
        /\ \A i \in 1 .. Len(t) : as[Len(own) + i] = t[i]
    <3>1. as = own \o t
        OBVIOUS
    <3> HIDE DEF as
    <3>0. IsList(own) /\ IsList(t)
        BY <1>5, <1>6
    <3>2. IsList(as) /\ Len(as) = Len(own) + Len(t)
        BY <3>0, <3>1, ConcatIs
    <3>3. \A i \in 1 .. Len(own) : as[i] = own[i]
        BY <3>0, <3>1, ConcatIs
    <3>4. \A i \in 1 .. Len(t) : as[Len(own) + i] = t[i]
        BY <3>0, <3>1, ConcatIs
    <3> QED
        BY <3>2, <3>3, <3>4
  <2> HIDE DEF as
  <2> QED
      BY <1>5, <1>6, <2>1
<1> HIDE DEF as
<1>8. 1 + m \in Nat /\ DOMAIN as = 1 .. 1 + m
    BY <1>1, <1>7, ListIs
<1>9. \A i \in 1 .. 1 + m : as[i].svc = None
  <2>1. as[1].svc = None
    <3>1. 1 \in 1 .. 1
        OBVIOUS
    <3> QED
        BY <3>1, <1>4, <1>7
  <2>2. \A i \in 1 .. m : as[1 + i].svc = None
      BY <1>3, <1>7
  <2>3. \A i \in 1 .. 1 + m : i = 1 \/ \E k \in 1 .. m : i = 1 + k
    <3>1. \A i \in 1 .. 1 + m : i = 1 \/ (i - 1 \in 1 .. m /\ i = 1 + (i - 1))
        BY <1>1
    <3> QED
        BY <3>1
  <2> QED
      BY <2>1, <2>2, <2>3
<1> QED
    BY <1>2, <1>8, <1>9, CreateAnswersIs

\* The answers that announce services are created service by service.
Announces(r, n, list, as) ==
    /\ r[0] = list /\ r[n] = AnnounceServices(list, as)
    /\ \A i \in 1 .. n : r[i] = CreateAnswers(r[i - 1], AnnounceAnswers(as[i]))

\* The fold takes these steps.
LEMMA AnnounceServicesFold ==
    ASSUME NEW list, NEW as,
           NEW n \in Nat, DOMAIN as = 1 .. n
    PROVE  \E r : Announces(r, n, list, as)
<1> DEFINE Op(x, i) == CreateAnswers(x, AnnounceAnswers(as[i]))
           After(g, s) == IF s = {} THEN list ELSE Op(g[s \ {Max(s)}], Max(s))
           Is(k, g) == g = [s \in SUBSET (1 .. k) |-> After(g, s)]
           fold == CHOOSE g : Is(n, g)
           T == {k \in 0 .. n : \E g : Is(k, g)}
<1>1. AnnounceServices(list, as) = fold[1 .. n]
    BY DEF AnnounceServices, FoldLeft, MapThenFoldSet
<1> HIDE DEF Op
<1>2. Is(0, [s \in SUBSET (1 .. 0) |-> list])
    OBVIOUS
<1>3. ASSUME NEW k \in 0 .. n - 1, NEW g, Is(k, g) PROVE \E h : Is(k + 1, h)
  <2> DEFINE h == [s \in SUBSET (1 .. k + 1) |->
                     IF k + 1 \in s THEN Op(g[s \ {k + 1}], k + 1) ELSE g[s]]
  <2>0. \A s \in SUBSET (1 .. k) : g[s] = After(g, s)
      BY <1>3
  <2>1. /\ \A s \in SUBSET (1 .. k) : h[s] = g[s]
        /\ \A s \in SUBSET (1 .. k + 1) : k + 1 \in s => h[s] = Op(g[s \ {k + 1}], k + 1)
        /\ h = [s \in SUBSET (1 .. k + 1) |-> h[s]]
      OBVIOUS
  <2> HIDE DEF h
  <2>2. \A s \in SUBSET (1 .. k + 1) : h[s] = After(h, s)
      BY k \in Nat, <2>0, <2>1, PlacesUpTo
  <2> QED
      BY <2>1, <2>2
<1>4. Is(n, fold)
  <2> HIDE DEF Is
  <2>1. 0 \in T /\ \A k \in 0 .. n - 1 : k \in T => k + 1 \in T
      BY <1>2, <1>3
  <2> HIDE DEF T
  <2>2. 0 .. n \subseteq T
      BY <2>1, UpFromZero
  <2> QED
      BY <2>2 DEF T
<1> HIDE DEF fold
<1> DEFINE r == [i \in 0 .. n |-> fold[1 .. i]]
<1>5. r[0] = list /\ r[n] = fold[1 .. n]
  <2>1. 1 .. 0 = {} /\ r[0] = fold[1 .. 0] /\ r[n] = fold[1 .. n]
      OBVIOUS
  <2>2. fold[{}] = list
      BY <1>4
  <2> QED
      BY <2>1, <2>2
<1>6. ASSUME NEW i \in 1 .. n PROVE r[i] = Op(r[i - 1], i)
  <2>1. r[i] = fold[1 .. i] /\ r[i - 1] = fold[1 .. i - 1]
      OBVIOUS
  <2>2. fold[1 .. i] = Op(fold[(1 .. i) \ {Max(1 .. i)}], Max(1 .. i))
      BY <1>4, PlacesBefore
  <2> HIDE DEF r
  <2> QED
      BY <2>1, <2>2, PlacesBefore
<1> HIDE DEF r
<1>7. Announces(r, n, list, as)
    BY <1>1, <1>5, <1>6 DEF Op, Announces
<1> QED
    BY <1>7

\* The answers that announce services refer to them.
LEMMA AnnounceServicesIs ==
    ASSUME NEW list, NEW L, Refers(list, L), NEW services, IsList(services),
           Range(services) \subseteq L
    PROVE  Refers(AnnounceServices(list, services), L)
<1> DEFINE n == Len(services)
<1>1. n \in Nat /\ DOMAIN services = 1 .. n /\ \A i \in 1 .. n : services[i] \in L
    BY ListIs
<1> HIDE DEF n
<1>2. PICK r : Announces(r, n, list, services)
    BY <1>1, AnnounceServicesFold
<1>3. Refers(r[0], L)
    BY <1>2 DEF Announces
<1>4. ASSUME NEW i \in 1 .. n, Refers(r[i - 1], L) PROVE Refers(r[i], L)
  <2> DEFINE as == AnnounceAnswers(services[i])
  <2>1. r[i] = CreateAnswers(r[i - 1], as)
      BY <1>2 DEF Announces
  <2>2. DOMAIN as = 1 .. 4 /\ \A j \in 1 .. 4 : as[j].svc \in L \cup {None}
      BY <1>1 DEF AnnounceAnswers, Answer
  <2> HIDE DEF as
  <2> QED
      BY <1>4, <2>1, <2>2, CreateAnswersIs
<1>5. Refers(r[n], L)
  <2> DEFINE T == {i \in 0 .. n : Refers(r[i], L)}
  <2>1. 0 \in T
      BY <1>1, <1>3
  <2>2. \A i \in 1 .. n : i - 1 \in T => i \in T
    <3>1. \A i \in 1 .. n : i \in 0 .. n
        OBVIOUS
    <3> QED
        BY <1>4, <3>1
  <2> HIDE DEF T
  <2>3. n \in T
      BY <1>1, <2>1, <2>2, UpTo
  <2> QED
      BY <2>3 DEF T
<1> QED
    BY <1>2, <1>5 DEF Announces

\* What a probe asked for is announced, one name after the other.
Promises(r, n, x, as) ==
    /\ r[0] = <<>> /\ r[n] = FoldLeft(LAMBDA l, a : CreateAnswers(l, AnnouncedFor(x, a)), <<>>, as)
    /\ \A i \in 1 .. n : r[i] = CreateAnswers(r[i - 1], AnnouncedFor(x, as[i]))

\* The fold takes these steps.
LEMMA AnnouncedFold ==
    ASSUME NEW x, NEW as,
           NEW n \in Nat, DOMAIN as = 1 .. n
    PROVE  \E r : Promises(r, n, x, as)
<1> DEFINE Op(l, i) == CreateAnswers(l, AnnouncedFor(x, as[i]))
           After(g, s) == IF s = {} THEN <<>> ELSE Op(g[s \ {Max(s)}], Max(s))
           Is(k, g) == g = [s \in SUBSET (1 .. k) |-> After(g, s)]
           fold == CHOOSE g : Is(n, g)
           T == {k \in 0 .. n : \E g : Is(k, g)}
<1>1. FoldLeft(LAMBDA l, a : CreateAnswers(l, AnnouncedFor(x, a)), <<>>, as) = fold[1 .. n]
    BY DEF FoldLeft, MapThenFoldSet
<1> HIDE DEF Op
<1>2. Is(0, [s \in SUBSET (1 .. 0) |-> <<>>])
    OBVIOUS
<1>3. ASSUME NEW k \in 0 .. n - 1, NEW g, Is(k, g) PROVE \E h : Is(k + 1, h)
  <2> DEFINE h == [s \in SUBSET (1 .. k + 1) |->
                     IF k + 1 \in s THEN Op(g[s \ {k + 1}], k + 1) ELSE g[s]]
  <2>0. \A s \in SUBSET (1 .. k) : g[s] = After(g, s)
      BY <1>3
  <2>1. /\ \A s \in SUBSET (1 .. k) : h[s] = g[s]
        /\ \A s \in SUBSET (1 .. k + 1) : k + 1 \in s => h[s] = Op(g[s \ {k + 1}], k + 1)
        /\ h = [s \in SUBSET (1 .. k + 1) |-> h[s]]
      OBVIOUS
  <2> HIDE DEF h
  <2>2. \A s \in SUBSET (1 .. k + 1) : h[s] = After(h, s)
      BY k \in Nat, <2>0, <2>1, PlacesUpTo
  <2> QED
      BY <2>1, <2>2
<1>4. Is(n, fold)
  <2> HIDE DEF Is
  <2>1. 0 \in T /\ \A k \in 0 .. n - 1 : k \in T => k + 1 \in T
      BY <1>2, <1>3
  <2> HIDE DEF T
  <2>2. 0 .. n \subseteq T
      BY <2>1, UpFromZero
  <2> QED
      BY <2>2 DEF T
<1> HIDE DEF fold
<1> DEFINE r == [i \in 0 .. n |-> fold[1 .. i]]
<1>5. r[0] = <<>> /\ r[n] = fold[1 .. n]
  <2>1. 1 .. 0 = {} /\ r[0] = fold[1 .. 0] /\ r[n] = fold[1 .. n]
      OBVIOUS
  <2>2. fold[{}] = <<>>
      BY <1>4
  <2> QED
      BY <2>1, <2>2
<1>6. ASSUME NEW i \in 1 .. n PROVE r[i] = Op(r[i - 1], i)
  <2>1. r[i] = fold[1 .. i] /\ r[i - 1] = fold[1 .. i - 1]
      OBVIOUS
  <2>2. fold[1 .. i] = Op(fold[(1 .. i) \ {Max(1 .. i)}], Max(1 .. i))
      BY <1>4, PlacesBefore
  <2> HIDE DEF r
  <2> QED
      BY <2>1, <2>2, PlacesBefore
<1> HIDE DEF r
<1>7. Promises(r, n, x, as)
    BY <1>1, <1>5, <1>6 DEF Op, Promises
<1> QED
    BY <1>7

\* What is announced for a question refers to what it asked for.
LEMMA AnnouncedForIs ==
    ASSUME NEW x, NEW a, NEW L, a.svc \in L \cup {None}
    PROVE  \E n \in Nat : /\ DOMAIN AnnouncedFor(x, a) = 1 .. n
                          /\ \A i \in 1 .. n : AnnouncedFor(x, a)[i].svc \in L \cup {None}
<1> DEFINE srv == AnnounceAnswers(a.svc) \o
                  <<Answer("A", None, GetHostItem(x, x.svc[a.svc].host), TRUE, FALSE)>>
           host == <<Answer("A", None, a.host, TRUE, FALSE)>>
<1>1. AnnouncedFor(x, a) = IF a.type = "SRV" THEN srv ELSE host
    BY DEF AnnouncedFor
<1>2. DOMAIN srv = 1 .. 5 /\ \A i \in 1 .. 5 : srv[i].svc \in L \cup {None}
    BY DEF AnnounceAnswers, Answer
<1>3. DOMAIN host = 1 .. 1 /\ \A i \in 1 .. 1 : host[i].svc \in L \cup {None}
    BY DEF Answer
<1> HIDE DEF srv, host
<1> QED
    BY <1>1, <1>2, <1>3

\* The announcement that follows a probe fits the services the probe fits.
LEMMA CreateAnnounceFromProbeIs ==
    ASSUME NEW x, IsList(x.tx), NEW L, NEW p, PacketFits(p, L)
    PROVE  LET new == CreateAnnounceFromProbe(x, p)
           IN  PacketFits(new, L) /\ IsNew(new, x, p.pcb) /\ new.qs = <<>>
<1> DEFINE as == p.servers
           n == Len(as)
           l == FoldLeft(LAMBDA k, a : CreateAnswers(k, AnnouncedFor(x, a)), <<>>, as)
           q == AllocPacket(x, p.pcb, TRUE, {p.id})
<1>1. n \in Nat /\ DOMAIN as = 1 .. n /\ \A i \in 1 .. n : as[i].svc \in L \cup {None}
    BY ListIs DEF PacketFits, Refers
<1>0. CreateAnnounceFromProbe(x, p) = [q EXCEPT !.answers = l]
    BY DEF CreateAnnounceFromProbe
<1> HIDE DEF n, as, q
<1>2. PICK r : Promises(r, n, x, as)
    BY <1>1, AnnouncedFold
<1>3. Refers(r[0], L)
    BY <1>2, NothingRefers DEF Promises
<1>4. ASSUME NEW i \in 1 .. n, Refers(r[i - 1], L) PROVE Refers(r[i], L)
  <2> DEFINE f == AnnouncedFor(x, as[i])
  <2>1. r[i] = CreateAnswers(r[i - 1], f)
      BY <1>2 DEF Promises
  <2>2. PICK m \in Nat : DOMAIN f = 1 .. m /\ \A j \in 1 .. m : f[j].svc \in L \cup {None}
      BY <1>1, AnnouncedForIs
  <2> HIDE DEF f
  <2> QED
      BY <1>4, <2>1, <2>2, CreateAnswersIs
<1>5. Refers(r[n], L)
  <2> DEFINE T == {i \in 0 .. n : Refers(r[i], L)}
  <2>1. 0 \in T
      BY <1>1, <1>3
  <2>2. \A i \in 1 .. n : i - 1 \in T => i \in T
    <3>1. \A i \in 1 .. n : i \in 0 .. n
        OBVIOUS
    <3> QED
        BY <1>4, <3>1
  <2> HIDE DEF T
  <2>3. n \in T
      BY <1>1, <2>1, <2>2, UpTo
  <2> QED
      BY <2>3 DEF T
<1>6. r[n] = l
    BY <1>2 DEF Promises
<1>7. PacketFits(q, L) /\ IsNew(q, x, p.pcb) /\ q.qs = <<>>
  <2>1. p.pcb \in Pcbs /\ IsFiniteSet({p.id})
      BY FS_Singleton DEF PacketFits, IsPacket
  <2>2. q.qs = <<>>
      BY DEF AllocPacket, q
  <2>3. PacketFits(q, L) /\ IsNew(q, x, p.pcb)
      BY <2>1, AllocPacketIs DEF q
  <2> QED
      BY <2>2, <2>3
<1>8. Refers(l, L)
    BY <1>5, <1>6
<1> HIDE DEF l
<1> DEFINE new == [q EXCEPT !.answers = l]
<1>9. PacketFits(new, L) /\ new.qs = q.qs /\ \A y, b : IsNew(q, y, b) => IsNew(new, y, b)
    BY <1>7, <1>8, PacketAnswers
<1> HIDE DEF new
<1>10. PacketFits(new, L) /\ IsNew(new, x, p.pcb) /\ new.qs = <<>>
    BY <1>7, <1>9
<1> QED
    BY <1>0, <1>10 DEF new

\* The announcement of services fits them.
LEMMA CreateAnnouncePacketIs ==
    ASSUME NEW x, IsList(x.tx), NEW b \in Pcbs, NEW services, IsList(services),
           NEW L, Range(services) \subseteq L, NEW include_ip
    PROVE  LET p == CreateAnnouncePacket(x, b, services, include_ip)
           IN  PacketFits(p, L) /\ IsNew(p, x, b) /\ p.qs = <<>>
<1> DEFINE q == AllocPacket(x, b, TRUE, {})
           as == AnnounceServices(<<>>, services)
           ns == IF include_ip THEN AppendHostListInServices(x, <<>>, services, TRUE, FALSE)
                 ELSE <<>>
           p == CreateAnnouncePacket(x, b, services, include_ip)
<1>1. p = [q EXCEPT !.answers = as, !.servers = ns]
    BY DEF CreateAnnouncePacket
<1>2. PacketFits(q, L) /\ IsNew(q, x, b) /\ q.qs = <<>>
  <2>1. q.qs = <<>>
      BY DEF AllocPacket
  <2> HIDE DEF q, as, ns, p
  <2>2. PacketFits(q, L) /\ IsNew(q, x, b)
      BY AllocPacketIs, FS_EmptySet DEF q
  <2> QED
      BY <2>1, <2>2
<1>3. Refers(as, L) /\ Refers(ns, L)
    BY NothingRefers, AnnounceServicesIs, AppendHostListInServicesIs
<1> HIDE DEF q, as, ns, p
<1>4. /\ DOMAIN p = PacketFields /\ p.id = q.id /\ p.pcb = q.pcb /\ p.at = q.at
      /\ p.queued = q.queued /\ p.answers = as /\ p.additional = q.additional /\ p.servers = ns
      /\ p.qs = q.qs
    BY <1>1, <1>2 DEF PacketFits, IsPacket, PacketFields
<1> QED
    BY <1>2, <1>3, <1>4 DEF PacketFits, IsPacket, IsNew, p

\* A question of a probe, for the name of a service or, without a type, for a host's.
QuestionFields == {"type", "host", "svc", "of", "sub", "uni"}
IsProbeQuestion(q) == DOMAIN q = QuestionFields /\ q.type = "ANY"
IsOfHost(q) == q.svc = None
AsksHost(qs) == \E i \in DOMAIN qs : IsOfHost(qs[i])
Distinct(qs) == \A i, j \in DOMAIN qs : qs[i] = qs[j] => i = j

\* A question that stands for a service: it is for its type, and has its strings, or ones
\* that have been freed (those of a service of S count as freed: it is being removed).
StandsFor(q, s, svc, S) == q.svc = svc[s].type /\ ~IsOfHost(q) /\ q.of \in {s, Freed} \cup S

\* Services are at addresses of services, and have a type.
Typed(svc, L) == \A s \in L : s \in Svcs /\ svc[s].type # None

\* Each service of V has a question that stands for it and for no other, and the questions
\* that are left are for hosts.
NamedBy(g, qs, V, svc, S) ==
    /\ \A i \in DOMAIN qs : IsOfHost(qs[i]) \/ \E s \in V : g[s] = i
    /\ \A s, v \in V : g[s] = g[v] => s = v
    /\ \A s \in V : StandsFor(qs[g[s]], s, svc, S)
Named(qs, V, svc, S) == \E g \in [V -> DOMAIN qs] : NamedBy(g, qs, V, svc, S)

\* The questions of a probe for the services of V, and for host names too or not.
Enough(qs, V, ip, svc, S) ==
    /\ \A i \in DOMAIN qs : IsProbeQuestion(qs[i])
    /\ ip <=> AsksHost(qs)
    /\ Named(qs, V, svc, S)

\* The questions are added one after the other.
Adds(r, n, list, as) ==
    /\ r[0] = list /\ r[n] = FoldLeft(AddQuestion, list, as)
    /\ \A i \in 1 .. n : r[i] = AddQuestion(r[i - 1], as[i])

AddedTo(list, as) == FoldLeft(AddQuestion, list, as)

\* The fold takes these steps.
LEMMA AddQuestionsFold ==
    ASSUME NEW list, NEW as,
           NEW n \in Nat, DOMAIN as = 1 .. n
    PROVE  \E r : Adds(r, n, list, as)
<1> DEFINE Op(x, i) == AddQuestion(x, as[i])
           After(g, s) == IF s = {} THEN list ELSE Op(g[s \ {Max(s)}], Max(s))
           Is(k, g) == g = [s \in SUBSET (1 .. k) |-> After(g, s)]
           fold == CHOOSE g : Is(n, g)
           T == {k \in 0 .. n : \E g : Is(k, g)}
<1>1. FoldLeft(AddQuestion, list, as) = fold[1 .. n]
    BY DEF FoldLeft, MapThenFoldSet
<1> HIDE DEF Op
<1>2. Is(0, [s \in SUBSET (1 .. 0) |-> list])
    OBVIOUS
<1>3. ASSUME NEW k \in 0 .. n - 1, NEW g, Is(k, g) PROVE \E h : Is(k + 1, h)
  <2> DEFINE h == [s \in SUBSET (1 .. k + 1) |->
                     IF k + 1 \in s THEN Op(g[s \ {k + 1}], k + 1) ELSE g[s]]
  <2>0. \A s \in SUBSET (1 .. k) : g[s] = After(g, s)
      BY <1>3
  <2>1. /\ \A s \in SUBSET (1 .. k) : h[s] = g[s]
        /\ \A s \in SUBSET (1 .. k + 1) : k + 1 \in s => h[s] = Op(g[s \ {k + 1}], k + 1)
        /\ h = [s \in SUBSET (1 .. k + 1) |-> h[s]]
      OBVIOUS
  <2> HIDE DEF h
  <2>2. \A s \in SUBSET (1 .. k + 1) : h[s] = After(h, s)
      BY k \in Nat, <2>0, <2>1, PlacesUpTo
  <2> QED
      BY <2>1, <2>2
<1>4. Is(n, fold)
  <2> HIDE DEF Is
  <2>1. 0 \in T /\ \A k \in 0 .. n - 1 : k \in T => k + 1 \in T
      BY <1>2, <1>3
  <2> HIDE DEF T
  <2>2. 0 .. n \subseteq T
      BY <2>1, UpFromZero
  <2> QED
      BY <2>2 DEF T
<1> HIDE DEF fold
<1> DEFINE r == [i \in 0 .. n |-> fold[1 .. i]]
<1>5. r[0] = list /\ r[n] = fold[1 .. n]
  <2>1. 1 .. 0 = {} /\ r[0] = fold[1 .. 0] /\ r[n] = fold[1 .. n]
      OBVIOUS
  <2>2. fold[{}] = list
      BY <1>4
  <2> QED
      BY <2>1, <2>2
<1>6. ASSUME NEW i \in 1 .. n PROVE r[i] = Op(r[i - 1], i)
  <2>1. r[i] = fold[1 .. i] /\ r[i - 1] = fold[1 .. i - 1]
      OBVIOUS
  <2>2. fold[1 .. i] = Op(fold[(1 .. i) \ {Max(1 .. i)}], Max(1 .. i))
      BY <1>4, PlacesBefore
  <2> HIDE DEF r
  <2> QED
      BY <2>1, <2>2, PlacesBefore
<1> HIDE DEF r
<1>7. Adds(r, n, list, as)
    BY <1>1, <1>5, <1>6 DEF Op, Adds
<1> QED
    BY <1>7

\* A question that is added joins the list, if it is not there.
LEMMA AddQuestionIs ==
    ASSUME NEW qs, IsList(qs), NEW q
    PROVE  LET new == AddQuestion(qs, q)
           IN  /\ IsList(new) /\ GoesOn(qs, new)
               /\ \E i \in DOMAIN new : new[i] = q
               /\ \A i \in DOMAIN new : i \in DOMAIN qs \/ new[i] = q
               /\ Distinct(qs) => Distinct(new)
<1>1. CASE \E i \in DOMAIN qs : qs[i] = q
    BY <1>1 DEF AddQuestion, GoesOn
<1>2. CASE ~\E i \in DOMAIN qs : qs[i] = q
  <2> DEFINE t == Append(qs, q)
  <2>1. AddQuestion(qs, q) = t
      BY <1>2 DEF AddQuestion
  <2>2. /\ IsList(t) /\ Len(t) = Len(qs) + 1 /\ t[Len(qs) + 1] = q
        /\ \A i \in 1 .. Len(qs) : t[i] = qs[i]
      BY AppendIs
  <2> HIDE DEF t
  <2>3. /\ Len(qs) \in Nat /\ DOMAIN qs = 1 .. Len(qs)
        /\ DOMAIN t = 1 .. Len(qs) + 1
      BY <2>2, ListIs
  <2>4. GoesOn(qs, t)
      BY <2>2, <2>3 DEF GoesOn
  <2>5. Len(qs) + 1 \in DOMAIN t
      BY <2>3
  <2>6. \A i \in DOMAIN t : (i \in DOMAIN qs /\ t[i] = qs[i]) \/ (i = Len(qs) + 1 /\ t[i] = q)
      BY <2>2, <2>3
  <2>7. Distinct(qs) => Distinct(t)
      BY <1>2, <2>6 DEF Distinct
  <2> QED
      BY <2>1, <2>2, <2>4, <2>5, <2>6, <2>7
<1> QED
    BY <1>1, <1>2

\* Questions that are added: all of them are there, and no others.
AllAdded(qs, as, new) ==
    /\ IsList(new) /\ GoesOn(qs, new)
    /\ \A j \in DOMAIN as : \E i \in DOMAIN new : new[i] = as[j]
    /\ \A i \in DOMAIN new : i \in DOMAIN qs \/ \E j \in DOMAIN as : new[i] = as[j]
    /\ Distinct(qs) => Distinct(new)

\* Adding them one by one does that.
LEMMA AddQuestionsIs ==
    ASSUME NEW qs, IsList(qs), NEW as, IsList(as)
    PROVE  AllAdded(qs, as, AddedTo(qs, as))
<1> DEFINE new == AddedTo(qs, as)
<1> DEFINE n == Len(as)
<1>0. n \in Nat /\ DOMAIN as = 1 .. n
    BY ListIs
<1> HIDE DEF n
<1>1. PICK r : Adds(r, n, qs, as)
    BY <1>0, AddQuestionsFold
<1> DEFINE Has(k) ==
             /\ IsList(r[k]) /\ GoesOn(qs, r[k])
             /\ \A j \in 1 .. k : \E i \in DOMAIN r[k] : r[k][i] = as[j]
             /\ \A i \in DOMAIN r[k] : i \in DOMAIN qs \/ \E j \in 1 .. k : r[k][i] = as[j]
             /\ Distinct(qs) => Distinct(r[k])
<1>2. Has(0)
    BY <1>1 DEF Adds, GoesOn
<1>3. ASSUME NEW k \in 1 .. n, Has(k - 1) PROVE Has(k)
  <2> DEFINE g == r[k - 1]
             e == as[k]
             t == r[k]
  <2>1. t = AddQuestion(g, e)
      BY <1>1 DEF Adds
  <2>2. /\ IsList(g) /\ GoesOn(qs, g)
        /\ \A j \in 1 .. k - 1 : \E i \in DOMAIN g : g[i] = as[j]
        /\ \A i \in DOMAIN g : i \in DOMAIN qs \/ \E j \in 1 .. k - 1 : g[i] = as[j]
        /\ Distinct(qs) => Distinct(g)
      BY <1>3
  <2>3. \A j \in 1 .. k : j \in 1 .. k - 1 \/ j = k
      OBVIOUS
  <2>4. k \in 1 .. k /\ \A j \in 1 .. k - 1 : j \in 1 .. k
      OBVIOUS
  <2> SUFFICES /\ IsList(t) /\ GoesOn(qs, t)
               /\ \A j \in 1 .. k : \E i \in DOMAIN t : t[i] = as[j]
               /\ \A i \in DOMAIN t : i \in DOMAIN qs \/ \E j \in 1 .. k : t[i] = as[j]
               /\ Distinct(qs) => Distinct(t)
      OBVIOUS
  <2> HIDE DEF g, t, Has
  <2>5. /\ IsList(t) /\ GoesOn(g, t)
        /\ \E i \in DOMAIN t : t[i] = e
        /\ \A i \in DOMAIN t : i \in DOMAIN g \/ t[i] = e
        /\ Distinct(g) => Distinct(t)
    <3> HIDE DEF e
    <3> QED
      BY <2>1, <2>2, AddQuestionIs
  <2>6. GoesOn(qs, t)
      BY <2>2, <2>5 DEF GoesOn
  <2>7. \A j \in 1 .. k : \E i \in DOMAIN t : t[i] = as[j]
    <3> TAKE j \in 1 .. k
    <3>1. CASE j = k
        BY <2>5, <3>1
    <3>2. CASE j \in 1 .. k - 1
      <4>1. PICK i \in DOMAIN g : g[i] = as[j]
          BY <2>2, <3>2
      <4>2. i \in DOMAIN t /\ t[i] = g[i]
          BY <2>5 DEF GoesOn
      <4> QED
          BY <4>1, <4>2
    <3> QED
        BY <2>3, <3>1, <3>2
  <2>8. \A i \in DOMAIN t : i \in DOMAIN qs \/ \E j \in 1 .. k : t[i] = as[j]
    <3> TAKE i \in DOMAIN t
    <3>1. CASE i \in DOMAIN g
      <4>1. t[i] = g[i]
          BY <2>5, <3>1 DEF GoesOn
      <4>2. i \in DOMAIN qs \/ \E j \in 1 .. k - 1 : g[i] = as[j]
          BY <2>2, <3>1
      <4> QED
          BY <2>4, <4>1, <4>2
    <3>2. CASE t[i] = e
        BY <2>4, <3>2
    <3> QED
        BY <2>5, <3>1, <3>2
  <2> QED
      BY <2>2, <2>5, <2>6, <2>7, <2>8
<1> HIDE DEF Has
<1>4. Has(n)
  <2> DEFINE T == {i \in 0 .. n : Has(i)}
  <2>1. 0 \in T
      BY <1>0, <1>2
  <2>2. \A i \in 1 .. n : i - 1 \in T => i \in T
    <3>1. \A i \in 1 .. n : i \in 0 .. n
        BY <1>0
    <3> QED
        BY <1>3, <3>1
  <2> HIDE DEF T
  <2>3. n \in T
      BY <1>0, <2>1, <2>2, UpTo
  <2> QED
      BY <2>3 DEF T
<1>5. r[n] = new
    BY <1>1 DEF Adds, AddedTo
<1> QED
    BY <1>0, <1>4, <1>5 DEF Has, AllAdded

\* The questions for the hosts of services join the list, and nothing else.
LEMMA AppendHostQuestionsIs ==
    ASSUME NEW x, NEW qs, IsList(qs), NEW services, IsList(services), NEW uni
    PROVE  LET new == AppendHostQuestionsForServices(x, qs, services, uni)
           IN  /\ IsList(new) /\ GoesOn(qs, new) /\ AsksHost(new)
               /\ \A i \in DOMAIN new :
                    i \in DOMAIN qs \/ (IsProbeQuestion(new[i]) /\ IsOfHost(new[i]))
<1> DEFINE m == Len(services)
           first == <<Question("ANY", x.host, None, None, uni)>>
           rest == [i \in DOMAIN services |-> Question("ANY", x.svc[services[i]].host, None, services[i], uni)]
           as == first \o rest
           n == 1 + m
           new == FoldLeft(AddQuestion, qs, as)
           Asks1(q) == IsProbeQuestion(q) /\ IsOfHost(q)
<1>1. AppendHostQuestionsForServices(x, qs, services, uni) = new
    BY DEF AppendHostQuestionsForServices
<1>2. m \in Nat /\ DOMAIN rest = 1 .. m
    BY ListIs
<1>0. \A h, f : Asks1(Question("ANY", h, None, f, uni))
    BY DEF Question, IsProbeQuestion, IsOfHost, QuestionFields
<1>3. IsList(first) /\ Len(first) = 1 /\ Asks1(first[1])
  <2>1. DOMAIN first = 1 .. 1 /\ first = [i \in 1 .. 1 |-> first[i]]
      OBVIOUS
  <2>2. Asks1(first[1])
      BY <1>0
  <2> HIDE DEF first, Asks1
  <2> QED
      BY <2>1, <2>2, ListOf
<1>4. IsList(rest) /\ Len(rest) = m /\ \A i \in 1 .. m : Asks1(rest[i])
  <2>1. rest = [i \in 1 .. m |-> rest[i]]
      BY <1>2
  <2>2. \A i \in 1 .. m : Asks1(rest[i])
    <3> HIDE DEF Asks1
    <3> QED
      BY <1>0, <1>2
  <2> HIDE DEF rest, m, Asks1
  <2> QED
      BY <1>2, <2>1, <2>2, ListOf
<1> HIDE DEF Asks1
<1>5. IsList(as) /\ Len(as) = n /\ \A i \in 1 .. n : Asks1(as[i])
  <2>1. as = first \o rest
      OBVIOUS
  <2> HIDE DEF as, first, rest, m
  <2>0. IsList(first) /\ IsList(rest)
      BY <1>3, <1>4
  <2>2. /\ IsList(as) /\ Len(as) = Len(first) + Len(rest)
        /\ \A i \in 1 .. Len(first) : as[i] = first[i]
        /\ \A i \in 1 .. Len(rest) : as[Len(first) + i] = rest[i]
    <3>1. IsList(as) /\ Len(as) = Len(first) + Len(rest)
        BY <2>0, <2>1, ConcatIs
    <3>2. \A i \in 1 .. Len(first) : as[i] = first[i]
        BY <2>0, <2>1, ConcatIs
    <3>3. \A i \in 1 .. Len(rest) : as[Len(first) + i] = rest[i]
        BY <2>0, <2>1, ConcatIs
    <3> QED
        BY <3>1, <3>2, <3>3
  <2>3. /\ Len(as) = 1 + m /\ \A i \in 1 .. 1 : as[i] = first[i]
        /\ \A i \in 1 .. m : as[1 + i] = rest[i]
      BY <1>3, <1>4, <2>2
  <2>4. \A i \in 1 .. 1 + m : i = 1 \/ (i - 1 \in 1 .. m /\ i = 1 + (i - 1))
      BY <1>2
  <2>5. ASSUME NEW i \in 1 .. 1 + m PROVE Asks1(as[i])
    <3>1. CASE i = 1
      <4>0. 1 \in 1 .. 1
          OBVIOUS
      <4>1. as[1] = first[1]
          BY <2>3, <4>0, Zenon
      <4> QED
          BY <1>3, <3>1, <4>1
    <3>2. CASE i - 1 \in 1 .. m /\ i = 1 + (i - 1)
      <4>1. as[i] = rest[i - 1]
          BY <2>3, <3>2
      <4> QED
          BY <1>4, <3>2, <4>1
    <3> QED
        BY <2>4, <3>1, <3>2
  <2> QED
      BY <2>2, <2>3, <2>5
<1>6. n \in Nat /\ DOMAIN as = 1 .. n /\ 1 \in 1 .. n
  <2> HIDE DEF as, first, rest, m
  <2> QED
      BY <1>2, <1>5, ListIs
<1> HIDE DEF as, n, new, m
<1>7. /\ IsList(new) /\ GoesOn(qs, new)
      /\ \A j \in 1 .. n : \E i \in DOMAIN new : new[i] = as[j]
      /\ \A i \in DOMAIN new : i \in DOMAIN qs \/ \E j \in 1 .. n : new[i] = as[j]
  <2> DEFINE t == AddedTo(qs, as)
  <2>0. IsList(qs) /\ IsList(as) /\ n \in Nat /\ DOMAIN as = 1 .. n
      BY <1>5, <1>6
  <2>1. /\ IsList(t) /\ GoesOn(qs, t)
        /\ \A j \in 1 .. n : \E i \in DOMAIN t : t[i] = as[j]
        /\ \A i \in DOMAIN t : i \in DOMAIN qs \/ \E j \in 1 .. n : t[i] = as[j]
    <3>1. /\ IsList(t) /\ GoesOn(qs, t)
          /\ \A j \in DOMAIN as : \E i \in DOMAIN t : t[i] = as[j]
          /\ \A i \in DOMAIN t : i \in DOMAIN qs \/ \E j \in DOMAIN as : t[i] = as[j]
      <4>1. AllAdded(qs, as, t)
          BY <2>0, AddQuestionsIs
      <4> HIDE DEF t
      <4> QED
          BY <4>1 DEF AllAdded
    <3> QED
        BY <2>0, <3>1
  <2> QED
      BY <2>1 DEF new, AddedTo
<1>8. AsksHost(new) /\ \A i \in DOMAIN new : i \in DOMAIN qs \/ Asks1(new[i])
  <2>1. PICK i \in DOMAIN new : new[i] = as[1]
      BY <1>6, <1>7
  <2> QED
      BY <1>5, <1>6, <1>7, <2>1 DEF AsksHost, Asks1
<1> QED
    BY <1>1, <1>7, <1>8 DEF Asks1

\* Questions for services, or for the host, are some.
LEMMA AsksSome ==
    ASSUME NEW qs, NEW services, IsList(services), NEW ip, NEW svc, NEW S,
           Enough(qs, Range(services), ip, svc, S), services # <<>> \/ ip
    PROVE  qs # <<>>
<1>1. CASE ip
    BY <1>1 DEF Enough, AsksHost
<1>2. CASE services # <<>>
  <2>1. Range(services) # {}
    <3>1. Len(services) # 0
        BY <1>2 DEF IsList
    <3>2. Len(services) \in Nat /\ \A i \in 1 .. Len(services) : services[i] \in Range(services)
        BY ListIs
    <3>3. 1 \in 1 .. Len(services)
        BY <3>1, <3>2
    <3> QED
        BY <3>2, <3>3
  <2>2. DOMAIN qs # {}
      BY <2>1 DEF Enough, Named
  <2> QED
      BY <2>2
<1> QED
    BY <1>1, <1>2

\* When there is a host name a probe claims every service it is made for, and asks for them.
LEMMA CreateProbePacketIs ==
    ASSUME NEW x, IsList(x.tx), x.host # None, NEW b \in Pcbs, NEW services, IsList(services),
           NEW L, Range(services) \subseteq L, Typed(x.svc, L), NEW first, NEW include_ip
    PROVE  LET p == CreateProbePacket(x, b, services, first, include_ip, {})
           IN  /\ PacketFits(p, L) /\ IsNew(p, x, b)
               /\ \A s \in Range(services) : Claims(p.servers, s)
               /\ Enough(p.qs, Range(services), include_ip, x.svc, {})
<1> DEFINE V == Range(services)
           named == Without(services, {s \in Svcs : InstanceName(x, s) = None})
           as == [i \in DOMAIN named |-> Answer("SRV", named[i], None, FALSE, FALSE)]
           srv == CreateAnswers(<<>>, as)
           ns == IF include_ip THEN AppendHostListInServices(x, srv, services, FALSE, FALSE) ELSE srv
           Its(s) == ProbeQuestion(x, s, first)
           asks == [i \in DOMAIN named |-> Its(named[i])]
           qs == AddedTo(<<>>, asks)
           all == IF include_ip THEN AppendHostQuestionsForServices(x, qs, services, first) ELSE qs
           q == AllocPacket(x, b, FALSE, {})
           m == Len(named)
<1>1. CreateProbePacket(x, b, services, first, include_ip, {}) = [q EXCEPT !.qs = all, !.servers = ns]
    BY DEF CreateProbePacket, AddedTo
<1>2. \A s : InstanceName(x, s) # None
    BY DEF InstanceName, DefaultInstance
<1>3. IsList(named) /\ Range(named) = V
  <2> DEFINE gone == {s \in Svcs : InstanceName(x, s) = None}
  <2>1. gone = {} /\ named = Without(services, gone)
      BY <1>2
  <2> HIDE DEF gone, named, as, srv, ns, qs, all, q, m, asks, Its
  <2>2. IsList(named) /\ Range(named) = {e \in Range(services) : e \notin gone}
      BY <2>1, WithoutIs
  <2> QED
      BY <2>1, <2>2
<1>4. PacketFits(q, L) /\ IsNew(q, x, b)
    BY AllocPacketIs, FS_EmptySet
<1>20. \A s \in V : IsProbeQuestion(Its(s)) /\ StandsFor(Its(s), s, x.svc, {}) /\ Its(s).of = s
  <2> TAKE s \in V
  <2>1. x.svc[s].type # None
      BY DEF Typed
  <2>2. /\ DOMAIN Its(s) = QuestionFields /\ Its(s).type = "ANY" /\ Its(s).svc = x.svc[s].type
        /\ Its(s).of = s
      BY DEF ProbeQuestion, Question, QuestionFields
  <2> HIDE DEF Its
  <2> QED
      BY <2>1, <2>2 DEF IsProbeQuestion, StandsFor, IsOfHost
<1> HIDE DEF named
<1>5. /\ m \in Nat /\ DOMAIN named = 1 .. m /\ DOMAIN as = 1 .. m
      /\ \A i \in 1 .. m : as[i].type = "SRV" /\ as[i].svc = named[i] /\ named[i] \in L
  <2>1. m \in Nat /\ DOMAIN named = 1 .. m /\ \A i \in 1 .. m : named[i] \in Range(named)
    <3> HIDE DEF as, srv, ns, qs, all, asks
    <3> QED
        BY <1>3, ListIs
  <2> HIDE DEF m
  <2> QED
      BY <1>3, <2>1 DEF Answer
<1>21. /\ IsList(qs) /\ Distinct(qs)
       /\ \A s \in V : \E i \in DOMAIN qs : qs[i] = Its(s)
       /\ \A i \in DOMAIN qs : \E s \in V : qs[i] = Its(s)
  <2>1. DOMAIN asks = 1 .. m /\ \A i \in 1 .. m : asks[i] = Its(named[i])
    <3> HIDE DEF Its, as
    <3> QED
      BY <1>5
  <2>2. IsList(<<>>) /\ Distinct(<<>>) /\ DOMAIN <<>> = {}
      BY DEF IsList, Distinct
  <2>5. IsList(asks) /\ DOMAIN asks = 1 .. m
    <3>1. asks = [i \in 1 .. m |-> asks[i]]
        BY <1>5
    <3> HIDE DEF asks, Its, as, m
    <3> QED
        BY <1>5, <2>1, <3>1, ListOf
  <2> HIDE DEF asks, Its, as, m
  <2>3. /\ IsList(qs) /\ Distinct(qs)
        /\ \A j \in 1 .. m : \E i \in DOMAIN qs : qs[i] = asks[j]
        /\ \A i \in DOMAIN qs : \E j \in 1 .. m : qs[i] = asks[j]
    <3>1. AllAdded(<<>>, asks, qs)
        BY <2>2, <2>5, AddQuestionsIs
    <3> HIDE DEF qs
    <3> QED
        BY <2>2, <2>5, <3>1 DEF AllAdded
  <2>4. V = {named[j] : j \in 1 .. m}
      BY <1>3, <1>5 DEF Range
  <2> QED
      BY <2>1, <2>3, <2>4
<1> HIDE DEF qs, Its, asks
<1>22. /\ IsList(all) /\ GoesOn(qs, all) /\ (include_ip => AsksHost(all))
       /\ \A i \in DOMAIN all : i \in DOMAIN qs \/ (IsProbeQuestion(all[i]) /\ IsOfHost(all[i]))
       /\ ~include_ip => all = qs
  <2>1. CASE include_ip
      BY <1>21, <2>1, AppendHostQuestionsIs
  <2>2. CASE ~include_ip
      BY <1>21, <2>2 DEF GoesOn
  <2> QED
      BY <2>1, <2>2
<1>23. Enough(all, V, include_ip, x.svc, {})
  <2> HIDE DEF all, V
  <2> DEFINE g == [s \in V |-> CHOOSE i \in DOMAIN qs : qs[i] = Its(s)]
  <2>1. \A s \in V : g[s] \in DOMAIN qs /\ qs[g[s]] = Its(s)
      BY <1>21
  <2>2. DOMAIN g = V /\ g \in [V -> DOMAIN qs]
      BY <2>1
  <2> HIDE DEF g
  <2>3. \A i \in DOMAIN qs : i \in DOMAIN all /\ all[i] = qs[i]
      BY <1>22 DEF GoesOn
  <2>4. g \in [V -> DOMAIN all]
      BY <2>2, <2>3
  <2>5. \A i \in DOMAIN all : IsProbeQuestion(all[i]) /\ (IsOfHost(all[i]) \/ \E s \in V : g[s] = i)
    <3> TAKE i \in DOMAIN all
    <3>1. CASE i \in DOMAIN qs
      <4>1. PICK s \in V : qs[i] = Its(s)
          BY <1>21, <3>1
      <4>2. g[s] = i
          BY <1>21, <2>1, <3>1, <4>1 DEF Distinct
      <4> QED
          BY <1>20, <2>3, <3>1, <4>1, <4>2
    <3> QED
        BY <1>22, <3>1
  <2>6. \A s, v \in V : g[s] = g[v] => s = v
      BY <1>20, <2>1
  <2>7. \A s \in V : StandsFor(all[g[s]], s, x.svc, {})
      BY <1>20, <2>1, <2>3
  <2>8. Named(all, V, x.svc, {})
      BY <2>4, <2>5, <2>6, <2>7 DEF Named, NamedBy
  <2>9. include_ip <=> AsksHost(all)
    <3>1. ASSUME ~include_ip, AsksHost(all) PROVE FALSE
      <4>1. all = qs
          BY <1>22, <3>1
      <4>2. PICK i \in DOMAIN qs : IsOfHost(qs[i])
          BY <3>1, <4>1 DEF AsksHost
      <4> QED
          BY <1>20, <1>21, <4>2 DEF StandsFor
    <3> QED
        BY <1>22, <3>1
  <2> QED
      BY <2>5, <2>8, <2>9 DEF Enough
<1> HIDE DEF as, m
<1>6. Refers(srv, L) /\ \A i \in 1 .. m : \E k \in DOMAIN srv : SameAnswer(srv[k], as[i])
    BY <1>5, NothingRefers, CreateAnswersIs
<1> HIDE DEF srv
<1>7. \A s \in Range(services) : Claims(srv, s)
  <2> TAKE s \in Range(services)
  <2>1. PICK j \in 1 .. m : named[j] = s
    <3>1. s \in Range(named)
        BY <1>3
    <3> QED
        BY <1>5, <3>1 DEF Range
  <2>2. PICK k \in DOMAIN srv : SameAnswer(srv[k], as[j])
      BY <1>6
  <2>3. srv[k].type = "SRV" /\ srv[k].svc = s
      BY <1>5, <2>1, <2>2 DEF SameAnswer
  <2> QED
      BY <2>3 DEF Claims
<1>8. Refers(ns, L) /\ GoesOn(srv, ns)
  <2>1. CASE include_ip
      BY <1>6, <2>1, AppendHostListInServicesIs
  <2>2. CASE ~include_ip
      BY <1>6, <2>2 DEF GoesOn
  <2> QED
      BY <2>1, <2>2
<1> HIDE DEF ns, all, q
<1>9. \A s \in Range(services) : Claims(ns, s)
    BY <1>7, <1>8 DEF Claims, GoesOn
<1> DEFINE p == [q EXCEPT !.qs = all, !.servers = ns]
<1>10. /\ PacketFits(p, L) /\ p.servers = ns /\ p.qs = all
       /\ \A y, c : IsNew(q, y, c) => IsNew(p, y, c)
    BY <1>4, <1>8, <1>22, PacketProbes
<1> HIDE DEF p
<1>11. /\ PacketFits(p, L) /\ IsNew(p, x, b) /\ \A s \in Range(services) : Claims(p.servers, s)
       /\ Enough(p.qs, Range(services), include_ip, x.svc, {})
    BY <1>4, <1>9, <1>10, <1>23
<1> QED
    BY <1>1, <1>11 DEF p

-----------------------------------------------------------------------------
(* The server: what fits together between the operations of the library.    *)

\* The fields of a server, of a service and of a pcb.
ServerFields ==
    {"host", "inst", "srvs", "svc", "hosts", "pcb", "ready", "up", "ip", "twin", "tx", "out",
     "undefined"}
ServiceFields == {"inst", "type", "host", "port", "txt", "subs"}
PcbFields == {"state", "services", "ip", "running", "failed"}

\* What is at the addresses of services, and the same with services of the same types.
IsServices(svc) == DOMAIN svc = Svcs /\ \A s \in Svcs : DOMAIN svc[s] = ServiceFields
SameTypes(svc, new) ==
    IsServices(svc) => IsServices(new) /\ \A s \in Svcs : new[s].type = svc[s].type

\* A pcb and a server as every operation leaves them.
IsPcb(r) == DOMAIN r = PcbFields /\ r.state \in Off .. Running /\ IsList(r.services)

IsServer(x) ==
    /\ DOMAIN x = ServerFields
    /\ IsList(x.srvs) /\ IsList(x.hosts) /\ IsList(x.tx)
    /\ x.twin \in [Itfs -> Itfs \cup {None}] /\ x.up \subseteq Itfs
    /\ x.ready \subseteq Pcbs
    /\ DOMAIN x.pcb = Pcbs /\ \A b \in Pcbs : IsPcb(x.pcb[b])
    /\ IsServices(x.svc)

\* Without a host name there are no services; what packets and pcbs refer to are services.
Refs(x, L) ==
    /\ x.host = None => L = {}
    /\ Typed(x.svc, L)
    /\ \A k \in DOMAIN x.tx : PacketFits(x.tx[k], L)
    /\ \A b \in Pcbs : Range(x.pcb[b].services) \subseteq L

\* A packet asks for what a pcb probes for: it claims each service, and has a question for
\* each of them, and one for a host exactly if the pcb probes for its address.
Probing(r) == r.state \in Probe1 .. Probe3
AsksEnough(qs, r, svc, S) == qs # <<>> /\ Enough(qs, Range(r.services), r.ip, svc, S)
ProbesFor(p, b, r, svc, S) ==
    /\ p.pcb = b /\ \A s \in Range(r.services) : Claims(p.servers, s)
    /\ AsksEnough(p.qs, r, svc, S)

\* A pcb has one packet in a queue at most; or none; or its packets have no questions with
\* strings of a service.
Alone(t, b) == \A i, j \in DOMAIN t : t[i].pcb = b /\ t[j].pcb = b => i = j
Silent(t, b) == \A i \in DOMAIN t : t[i].pcb # b
Plain(p) == \A i \in DOMAIN p.qs : p.qs[i].of = None
AllPlain(t, b) == \A i \in DOMAIN t : t[i].pcb = b => Plain(t[i])

\* A pcb that has services to probe for is probing, and one that is probing has a packet
\* that asks for them, and no other.  The questions may have the strings of services of S,
\* which are being removed.
CoveredBy(x, b, S) ==
    /\ x.pcb[b].services # <<>> => Probing(x.pcb[b])
    /\ ~Probing(x.pcb[b]) => AllPlain(x.tx, b)
    /\ Probing(x.pcb[b]) =>
         /\ b \in x.ready /\ Alone(x.tx, b)
         /\ \E k \in DOMAIN x.tx : ProbesFor(x.tx[k], b, x.pcb[b], x.svc, S)
Covered(x, b) == CoveredBy(x, b, {})

\* Packets can be told apart; those that have been handed to the task come first, are
\* due, and the task's line w has their actions in their order (unless a push failed).
IsQueued(p) == p.queued
Apart(t) == \A i, j \in DOMAIN t : t[i].id = t[j].id => i = j
HandedPart(t) == {i \in DOMAIN t : IsQueued(t[i])}
IsFor(a, p) == a.type = "tx" /\ a.arg = p.id
InLine(t, w, f) ==
    /\ \A i, j \in HandedPart(t) : i < j => f[i] < f[j]
    /\ \A i \in HandedPart(t) : IsFor(w[f[i]], t[i])
Handed(t, w) ==
    /\ \A i \in HandedPart(t) : t[i].at = Now /\ \A j \in 1 .. i : IsQueued(t[j])
    /\ \E f \in [HandedPart(t) -> DOMAIN w] : InLine(t, w, f)
QueueFits(t, w, bad) == Apart(t) /\ (bad \/ Handed(t, w))

\* The server fits the services L and the task's line w; or does so but for the pcbs of B,
\* whose probe is being rebuilt.
Fit(x, L, w, bad) ==
    IsServer(x) /\ Refs(x, L) /\ QueueFits(x.tx, w, bad) /\ \A b \in Pcbs : Covered(x, b)
FitBut(x, L, w, bad, B) ==
    /\ IsServer(x) /\ Refs(x, L) /\ QueueFits(x.tx, w, bad)
    /\ \A c \in Pcbs : c \notin B => Covered(x, c)

\* Fit, but for the questions with the strings of s, which is being removed.
Leaving(x, L, w, bad, s) ==
    IsServer(x) /\ Refs(x, L) /\ QueueFits(x.tx, w, bad) /\ \A b \in Pcbs : CoveredBy(x, b, {s})

\* Two servers with the same names, services of the same types, and interfaces.
Keeps(x, y) ==
    /\ DOMAIN y = ServerFields /\ SameTypes(x.svc, y.svc)
    /\ y.host = x.host /\ y.srvs = x.srvs /\ y.hosts = x.hosts /\ y.twin = x.twin /\ y.up = x.up

\* And the same pcbs have a socket.
Stays(x, y) == Keeps(x, y) /\ y.ready = x.ready

\* Two servers that differ in what a pcb is at most; or not even in that.
AlikeBut(x, y, b) ==
    /\ Keeps(x, y) /\ y.tx = x.tx /\ DOMAIN y.pcb = Pcbs
    /\ y.ready \subseteq Pcbs /\ \A c \in Pcbs : c # b => (c \in y.ready <=> c \in x.ready)
    /\ \A c \in Pcbs : c # b => y.pcb[c] = x.pcb[c]
Alike(x, y) == Keeps(x, y) /\ y.tx = x.tx /\ y.pcb = x.pcb /\ y.ready = x.ready

\* Whoever has the same names as one that has the same names has them too.
LEMMA KeepsOn ==
    ASSUME NEW x, NEW y, Keeps(x, y), NEW z, Keeps(y, z)
    PROVE  Keeps(x, z)
BY DEF Keeps, SameTypes

\* A server has the names it has.
LEMMA KeepsSelf == ASSUME NEW x, IsServer(x) PROVE Keeps(x, x) /\ Stays(x, x)
BY DEF Keeps, Stays, IsServer, SameTypes

\* Services of the same types can be asked for by the same questions.
LEMMA EnoughStays ==
    ASSUME NEW svc, IsServices(svc), NEW new, SameTypes(svc, new), NEW V, V \subseteq Svcs,
           NEW qs, NEW ip, NEW S, Enough(qs, V, ip, svc, S)
    PROVE  Enough(qs, V, ip, new, S)
<1>1. PICK g \in [V -> DOMAIN qs] : NamedBy(g, qs, V, svc, S)
    BY DEF Enough, Named
<1>2. \A s \in V : StandsFor(qs[g[s]], s, new, S)
    BY <1>1 DEF NamedBy, StandsFor, SameTypes
<1>3. NamedBy(g, qs, V, new, S)
    BY <1>1, <1>2 DEF NamedBy
<1> QED
    BY <1>3 DEF Enough, Named

\* They keep their types.
LEMMA TypedStays ==
    ASSUME NEW svc, IsServices(svc), NEW new, SameTypes(svc, new), NEW L, Typed(svc, L)
    PROVE  Typed(new, L)
BY DEF Typed, SameTypes

\* What a server refers to is at addresses of services.
LEMMA RefsKnown ==
    ASSUME NEW x, NEW L, Refs(x, L), NEW b \in Pcbs
    PROVE  Range(x.pcb[b].services) \subseteq L /\ Range(x.pcb[b].services) \subseteq Svcs
BY DEF Refs, Typed

\* A packet that asks for what a pcb probes for goes on asking for it.
LEMMA ProbesStay ==
    ASSUME NEW svc, IsServices(svc), NEW new, SameTypes(svc, new), NEW r,
           Range(r.services) \subseteq Svcs, NEW p, NEW b, NEW S, ProbesFor(p, b, r, svc, S)
    PROVE  ProbesFor(p, b, r, new, S)
BY EnoughStays DEF ProbesFor, AsksEnough

\* A pcb that is left alone is covered as it was.
LEMMA CoveredAlike ==
    ASSUME NEW x, NEW y, NEW b \in Pcbs, IsServices(x.svc), SameTypes(x.svc, y.svc),
           y.tx = x.tx, y.pcb[b] = x.pcb[b], b \in x.ready => b \in y.ready,
           Range(x.pcb[b].services) \subseteq Svcs, NEW S, CoveredBy(x, b, S)
    PROVE  CoveredBy(y, b, S)
<1> DEFINE r == x.pcb[b]
<1>1. ASSUME NEW p, ProbesFor(p, b, r, x.svc, S) PROVE ProbesFor(p, b, r, y.svc, S)
    BY <1>1, EnoughStays DEF ProbesFor, AsksEnough
<1> QED
    BY <1>1 DEF CoveredBy

\* The same of the names and the sockets.
LEMMA StaysOn ==
    ASSUME NEW x, NEW y, Stays(x, y), NEW z, Stays(y, z)
    PROVE  Stays(x, z)
BY KeepsOn DEF Stays

\* What an operation leaves alone still fits.
LEMMA FitAlike ==
    ASSUME NEW x, NEW y, Alike(x, y), NEW L, NEW w, NEW bad
    PROVE  /\ Fit(x, L, w, bad) => Fit(y, L, w, bad)
           /\ \A s : Leaving(x, L, w, bad, s) => Leaving(y, L, w, bad, s)
           /\ \A B : FitBut(x, L, w, bad, B) => FitBut(y, L, w, bad, B)
<1>1. /\ DOMAIN y = ServerFields /\ y.host = x.host /\ y.srvs = x.srvs /\ y.hosts = x.hosts
      /\ y.twin = x.twin /\ y.up = x.up /\ y.tx = x.tx /\ y.pcb = x.pcb /\ y.ready = x.ready
      /\ SameTypes(x.svc, y.svc)
    BY DEF Alike, Keeps
<1>2. IsServer(x) => IsServer(y)
    BY <1>1 DEF IsServer, SameTypes
<1>3. IsServer(x) /\ Refs(x, L) => Refs(y, L)
    BY <1>1, TypedStays DEF Refs, IsServer
<1>4. IsServer(x) /\ Refs(x, L) => \A b \in Pcbs : \A S : CoveredBy(x, b, S) => CoveredBy(y, b, S)
    BY <1>1, RefsKnown, CoveredAlike DEF IsServer
<1>5. QueueFits(x.tx, w, bad) => QueueFits(y.tx, w, bad)
    BY <1>1
<1> QED
    BY <1>2, <1>3, <1>4, <1>5 DEF Fit, FitBut, Leaving, Covered

\* What fits but for some pcbs fits but for more, and but for less if the others are covered.
LEMMA FitLess ==
    ASSUME NEW x, NEW L, NEW w, NEW bad, NEW B, FitBut(x, L, w, bad, B), NEW C,
           \A c \in Pcbs : c \in B => c \in C \/ Covered(x, c)
    PROVE  FitBut(x, L, w, bad, C)
BY DEF FitBut

\* What fits, fits but for one pcb, and the other way round if this one does.
LEMMA FitBy ==
    ASSUME NEW x, NEW L, NEW w, NEW bad, NEW b \in Pcbs
    PROVE  /\ Fit(x, L, w, bad) => FitBut(x, L, w, bad, {b})
           /\ FitBut(x, L, w, bad, {b}) /\ Covered(x, b) => Fit(x, L, w, bad)
           /\ FitBut(x, L, w, bad, {b}) => IsServer(x) /\ Refs(x, L) /\ QueueFits(x.tx, w, bad)
BY DEF Fit, FitBut

\* A pcb that changes disturbs the others in nothing.
LEMMA FitAlikeBut ==
    ASSUME NEW x, NEW y, NEW b \in Pcbs, AlikeBut(x, y, b), NEW L, NEW w, NEW bad, NEW B,
           FitBut(x, L, w, bad, B), b \in B, IsPcb(y.pcb[b]), Range(y.pcb[b].services) \subseteq L
    PROVE  FitBut(y, L, w, bad, B)
<1>1. /\ DOMAIN y = ServerFields /\ y.host = x.host /\ y.srvs = x.srvs /\ y.hosts = x.hosts
      /\ y.twin = x.twin /\ y.up = x.up /\ y.tx = x.tx /\ y.ready \subseteq Pcbs /\ DOMAIN y.pcb = Pcbs
      /\ \A c \in Pcbs : c # b => (c \in y.ready <=> c \in x.ready) /\ y.pcb[c] = x.pcb[c]
      /\ SameTypes(x.svc, y.svc)
    BY DEF AlikeBut, Keeps
<1>2. IsServer(y)
  <2>1. \A c \in Pcbs : IsPcb(y.pcb[c])
      BY <1>1 DEF FitBut, IsServer
  <2> QED
      BY <1>1, <2>1 DEF FitBut, IsServer, SameTypes
<1>3. Refs(y, L)
  <2>1. \A c \in Pcbs : Range(y.pcb[c].services) \subseteq L
      BY <1>1 DEF FitBut, Refs
  <2>2. Typed(y.svc, L)
      BY <1>1, TypedStays DEF FitBut, Refs, IsServer
  <2> QED
      BY <1>1, <2>1, <2>2 DEF FitBut, Refs
<1>4. \A c \in Pcbs : c \notin B => Covered(y, c)
  <2> TAKE c \in Pcbs
  <2> HAVE c \notin B
  <2>1. Range(x.pcb[c].services) \subseteq Svcs /\ IsServices(x.svc) /\ Covered(x, c)
      BY RefsKnown DEF FitBut, IsServer
  <2> QED
      BY <1>1, <2>1, CoveredAlike DEF Covered
<1> QED
    BY <1>1, <1>2, <1>3, <1>4 DEF FitBut

\* Fields that what fits does not depend on.
LEMMA FieldsSet ==
    ASSUME NEW x, IsServer(x), NEW v
    PROVE  /\ Alike(x, [x EXCEPT !.out = v]) /\ Alike(x, [x EXCEPT !.inst = v])
           /\ Alike(x, [x EXCEPT !.undefined = v])
           /\ SameTypes(x.svc, v) => Alike(x, [x EXCEPT !.svc = v])
<1>1. DOMAIN x = ServerFields
    BY DEF IsServer
<1>2. Alike(x, [x EXCEPT !.out = v])
    BY <1>1 DEF Alike, Keeps, ServerFields, SameTypes
<1>3. Alike(x, [x EXCEPT !.inst = v])
    BY <1>1 DEF Alike, Keeps, ServerFields, SameTypes
<1>4. SameTypes(x.svc, v) => Alike(x, [x EXCEPT !.svc = v])
    BY <1>1 DEF Alike, Keeps, ServerFields
<1>5. Alike(x, [x EXCEPT !.undefined = v])
    BY <1>1 DEF Alike, Keeps, ServerFields, SameTypes
<1> QED
    BY <1>2, <1>3, <1>4, <1>5

\* The queue is set.
LEMMA TxSet ==
    ASSUME NEW x, IsServer(x), NEW t
    PROVE  LET y == [x EXCEPT !.tx = t]
           IN  /\ Keeps(x, y) /\ y.tx = t /\ y.pcb = x.pcb /\ y.ready = x.ready /\ y.out = x.out
               /\ y.svc = x.svc
<1>1. DOMAIN x = ServerFields
    BY DEF IsServer
<1> QED
    BY <1>1 DEF Keeps, ServerFields, SameTypes

\* A pcb is set, and the sockets there are.
LEMMA PcbSet ==
    ASSUME NEW x, IsServer(x), NEW b \in Pcbs, NEW r
    PROVE  LET y == [x EXCEPT !.pcb = [@ EXCEPT ![b] = r]]
           IN  AlikeBut(x, y, b) /\ y.pcb[b] = r /\ y.ready = x.ready /\ y.svc = x.svc
<1> DEFINE y == [x EXCEPT !.pcb = [@ EXCEPT ![b] = r]]
<1>1. DOMAIN x = ServerFields /\ DOMAIN x.pcb = Pcbs /\ x.ready \subseteq Pcbs
    BY DEF IsServer
<1>2. /\ Keeps(x, y) /\ y.tx = x.tx /\ y.ready = x.ready /\ y.svc = x.svc
      /\ y.pcb = [x.pcb EXCEPT ![b] = r]
    BY <1>1 DEF Keeps, ServerFields, SameTypes
<1> HIDE DEF y
<1>3. /\ DOMAIN y.pcb = Pcbs /\ y.pcb[b] = r
      /\ \A c \in Pcbs : c # b => y.pcb[c] = x.pcb[c]
    BY <1>1, <1>2
<1>4. AlikeBut(x, y, b) /\ y.pcb[b] = r /\ y.ready = x.ready /\ y.svc = x.svc
    BY <1>1, <1>2, <1>3 DEF AlikeBut
<1> QED
    BY <1>4 DEF y

\* Only the state of a pcb is set.
LEMMA SetPcbStateIs ==
    ASSUME NEW x, IsServer(x), NEW b \in Pcbs, NEW s \in Off .. Running
    PROVE  LET y == SetPcbState(x, b, s)
           IN  /\ AlikeBut(x, y, b) /\ y.ready = x.ready /\ IsPcb(y.pcb[b])
               /\ y.pcb[b].state = s /\ y.pcb[b].services = x.pcb[b].services
               /\ y.pcb[b].ip = x.pcb[b].ip /\ y.svc = x.svc
<1> DEFINE r == [x.pcb[b] EXCEPT !.state = s]
           y == [x EXCEPT !.pcb = [@ EXCEPT ![b] = r]]
<1>1. SetPcbState(x, b, s) = y
    BY DEF SetPcbState
<1>2. IsPcb(x.pcb[b])
    BY DEF IsServer
<1>3. IsPcb(r) /\ r.state = s /\ r.services = x.pcb[b].services /\ r.ip = x.pcb[b].ip
    BY <1>2 DEF IsPcb, PcbFields
<1> HIDE DEF r
<1>4. AlikeBut(x, y, b) /\ y.pcb[b] = r /\ y.ready = x.ready /\ y.svc = x.svc
    BY PcbSet
<1> HIDE DEF y
<1> QED
    BY <1>1, <1>3, <1>4

-----------------------------------------------------------------------------
(* The queue of packets: taken out of, put into, handed over.                *)

\* u is what is left of t, in its order; the packets may have changed but for their
\* number and their mark, and are as near.
Thins(t, u, f) ==
    /\ Rising(f)
    /\ \A j \in DOMAIN u : /\ u[j].id = t[f[j]].id
                           /\ IsQueued(u[j]) <=> IsQueued(t[f[j]])
                           /\ t[f[j]].at = Now => u[j].at = Now
Thinned(t, u) == \E f \in [DOMAIN u -> DOMAIN t] : Thins(t, u, f)

\* What rises tells its places apart.
LEMMA RisingApart ==
    ASSUME NEW m \in Nat, NEW n \in Nat, NEW f \in [1 .. m -> 1 .. n], Rising(f),
           NEW i \in 1 .. m, NEW j \in 1 .. m
    PROVE  (f[i] = f[j] => i = j) /\ (i <= j => f[i] <= f[j])
<1>1. i < j \/ j < i \/ i = j
    OBVIOUS
<1>2. (i < j => f[i] < f[j]) /\ (j < i => f[j] < f[i])
    BY DEF Rising
<1>3. f[i] \in Nat /\ f[j] \in Nat
    OBVIOUS
<1> QED
    BY <1>1, <1>2, <1>3

\* A queue that is thinned still fits the task's line.
LEMMA ThinnedFits ==
    ASSUME NEW t, IsList(t), NEW u, IsList(u), Thinned(t, u), NEW w, NEW bad, QueueFits(t, w, bad)
    PROVE  QueueFits(u, w, bad)
<1> DEFINE n == Len(t)
           m == Len(u)
<1>1. n \in Nat /\ m \in Nat /\ DOMAIN t = 1 .. n /\ DOMAIN u = 1 .. m
    BY ListIs
<1> HIDE DEF n, m
<1>2. PICK f \in [DOMAIN u -> DOMAIN t] : Thins(t, u, f)
    BY DEF Thinned
<1>3. /\ Rising(f) /\ f \in [1 .. m -> 1 .. n]
      /\ \A j \in 1 .. m : /\ u[j].id = t[f[j]].id
                           /\ IsQueued(u[j]) <=> IsQueued(t[f[j]])
                           /\ t[f[j]].at = Now => u[j].at = Now
    BY <1>1, <1>2 DEF Thins
<1>4. \A i, j \in 1 .. m : (f[i] = f[j] => i = j) /\ (i <= j => f[i] <= f[j])
    BY <1>1, <1>3, RisingApart
<1>5. Apart(u)
    BY <1>1, <1>3, <1>4 DEF Apart, QueueFits
<1>6. ASSUME Handed(t, w) PROVE Handed(u, w)
  <2>1. PICK g \in [HandedPart(t) -> DOMAIN w] : InLine(t, w, g)
      BY <1>6 DEF Handed
  <2>2. \A i \in HandedPart(u) : i \in 1 .. m /\ f[i] \in 1 .. n /\ f[i] \in HandedPart(t)
      BY <1>1, <1>3 DEF HandedPart
  <2>3. \A i \in HandedPart(u) : u[i].at = Now
      BY <1>3, <1>6, <2>2 DEF Handed
  <2>4. ASSUME NEW i \in HandedPart(u), NEW j \in 1 .. i PROVE IsQueued(u[j])
    <3>1. j \in 1 .. m /\ j <= i /\ i \in 1 .. m
        BY <1>1, <2>2
    <3>2. f[j] \in 1 .. f[i]
        BY <1>1, <1>3, <1>4, <3>1
    <3>3. IsQueued(t[f[j]])
        BY <1>6, <2>2, <3>2 DEF Handed
    <3> QED
        BY <1>3, <3>1, <3>3
  <2> DEFINE h == [i \in HandedPart(u) |-> g[f[i]]]
  <2>5. h \in [HandedPart(u) -> DOMAIN w]
      BY <2>1, <2>2
  <2>6. ASSUME NEW i \in HandedPart(u), NEW j \in HandedPart(u), i < j PROVE h[i] < h[j]
    <3>1. f[i] < f[j]
        BY <1>3, <2>2, <2>6 DEF Rising
    <3> QED
        BY <2>1, <2>2, <3>1 DEF InLine
  <2>7. \A i \in HandedPart(u) : IsFor(w[h[i]], u[i])
    <3> TAKE i \in HandedPart(u)
    <3>1. IsFor(w[g[f[i]]], t[f[i]])
        BY <2>1, <2>2 DEF InLine
    <3>2. u[i].id = t[f[i]].id
        BY <1>3, <2>2
    <3> QED
        BY <3>1, <3>2 DEF IsFor
  <2> HIDE DEF h
  <2>8. InLine(u, w, h)
      BY <2>6, <2>7 DEF InLine
  <2> QED
      BY <2>3, <2>4, <2>5, <2>8 DEF Handed
<1> QED
    BY <1>5, <1>6 DEF QueueFits

\* A queue without some of its packets is thinned, and what is left of it is its own.
LEMMA WithoutThins ==
    ASSUME NEW t, IsList(t), NEW gone
    PROVE  /\ IsList(Without(t, gone)) /\ Thinned(t, Without(t, gone))
           /\ Range(Without(t, gone)) = {p \in Range(t) : p \notin gone}
           /\ \A c : Alone(t, c) => Alone(Without(t, gone), c)
           /\ \A c : AllPlain(t, c) => AllPlain(Without(t, gone), c)
<1> DEFINE u == Without(t, gone)
<1>1. /\ IsList(u) /\ Range(u) = {p \in Range(t) : p \notin gone}
      /\ \E h \in [DOMAIN u -> DOMAIN t] :
            Rising(h) /\ \A j \in DOMAIN u : u[j] = t[h[j]] /\ u[j] \notin gone
    BY WithoutIs
<1> HIDE DEF u
<1>2. Thinned(t, u)
    BY <1>1 DEF Thinned, Thins
<1>3. ASSUME NEW c, Alone(t, c) PROVE Alone(u, c)
  <2>1. PICK h \in [DOMAIN u -> DOMAIN t] : Rising(h) /\ \A j \in DOMAIN u : u[j] = t[h[j]]
      BY <1>1
  <2> SUFFICES ASSUME NEW i \in DOMAIN u, NEW j \in DOMAIN u, u[i].pcb = c, u[j].pcb = c
               PROVE  i = j
      BY DEF Alone
  <2>2. h[i] = h[j]
      BY <1>3, <2>1 DEF Alone
  <2>3. /\ Len(u) \in Nat /\ DOMAIN u = 1 .. Len(u)
        /\ Len(t) \in Nat /\ DOMAIN t = 1 .. Len(t)
      BY <1>1, ListIs
  <2> DEFINE m == Len(u)
             n == Len(t)
  <2>4. /\ m \in Nat /\ n \in Nat /\ h \in [1 .. m -> 1 .. n]
        /\ i \in 1 .. m /\ j \in 1 .. m
      BY <2>1, <2>3
  <2> HIDE DEF m, n
  <2>5. Rising(h) /\ i \in 1 .. m /\ j \in 1 .. m
      BY <2>1, <2>4
  <2>6. (i < j => h[i] < h[j]) /\ (j < i => h[j] < h[i])
      BY <2>4, <2>5 DEF Rising
  <2>7. h[i] \in 1 .. n /\ h[j] \in 1 .. n
      BY <2>4
  <2> QED
      BY <2>2, <2>4, <2>6, <2>7
<1>4. \A c : AllPlain(t, c) => AllPlain(u, c)
    BY <1>1 DEF AllPlain
<1> QED
    BY <1>1, <1>2, <1>3, <1>4 DEF u

\* Packets changed in their places thin the queue by none.
LEMMA SamePlacesThin ==
    ASSUME NEW t, IsList(t), NEW u, DOMAIN u = DOMAIN t,
           \A j \in DOMAIN t : /\ u[j].id = t[j].id
                               /\ IsQueued(u[j]) <=> IsQueued(t[j])
                               /\ t[j].at = Now => u[j].at = Now
    PROVE  Thinned(t, u)
<1> DEFINE n == Len(t)
           f == [j \in DOMAIN u |-> j]
<1>1. n \in Nat /\ DOMAIN t = 1 .. n
    BY ListIs
<1> HIDE DEF n
<1>2. f \in [DOMAIN u -> DOMAIN t] /\ Rising(f) /\ \A j \in DOMAIN u : f[j] = j
    BY DEF Rising
<1> HIDE DEF f
<1>3. Thins(t, u, f)
    BY <1>2 DEF Thins
<1> QED
    BY <1>2, <1>3 DEF Thinned

\* The line of the task goes on: what was in it is where it was.
LEMMA LineGoesOn ==
    ASSUME NEW t, NEW w, NEW v, GoesOn(w, v), NEW bad, QueueFits(t, w, bad)
    PROVE  QueueFits(t, v, bad)
<1>1. ASSUME Handed(t, w) PROVE Handed(t, v)
  <2>1. PICK f \in [HandedPart(t) -> DOMAIN w] : InLine(t, w, f)
      BY <1>1 DEF Handed
  <2>2. f \in [HandedPart(t) -> DOMAIN v] /\ \A i \in HandedPart(t) : v[f[i]] = w[f[i]]
      BY <2>1 DEF GoesOn
  <2>3. InLine(t, v, f)
      BY <2>1, <2>2 DEF InLine
  <2> QED
      BY <1>1, <2>2, <2>3 DEF Handed
<1> QED
    BY <1>1 DEF QueueFits

\* u is t with q put in at k.
PutIn(t, k, q, u) ==
    /\ k \in 1 .. Len(t) + 1 /\ DOMAIN u = 1 .. Len(t) + 1
    /\ \A i \in 1 .. Len(t) : (i < k => u[i] = t[i]) /\ (i >= k => u[i + 1] = t[i])
    /\ u[k] = q

\* Where a packet of the queue with one put in comes from.
LEMMA PutInFrom ==
    ASSUME NEW t, IsList(t), NEW k, NEW q, NEW u, PutIn(t, k, q, u)
    PROVE  /\ k \in DOMAIN u /\ u[k] = q
           /\ \A i \in DOMAIN u : i # k => \E j \in DOMAIN t : u[i] = t[j] /\ i = IF j < k THEN j ELSE j + 1
<1> DEFINE n == Len(t)
<1>1. n \in Nat /\ DOMAIN t = 1 .. n
    BY ListIs
<1>2. /\ k \in 1 .. n + 1 /\ DOMAIN u = 1 .. n + 1
      /\ \A i \in 1 .. n : (i < k => u[i] = t[i]) /\ (i >= k => u[i + 1] = t[i])
      /\ u[k] = q
    BY DEF PutIn
<1> HIDE DEF n
<1>3. \A i \in 1 .. n + 1 : \/ i = k
                            \/ i \in 1 .. n /\ i < k /\ u[i] = t[i]
                            \/ i - 1 \in 1 .. n /\ i - 1 >= k /\ i = (i - 1) + 1
    BY <1>1, <1>2
<1>4. ASSUME NEW i \in 1 .. n + 1, i # k
      PROVE  \E j \in 1 .. n : u[i] = t[j] /\ i = IF j < k THEN j ELSE j + 1
  <2>1. CASE i < k
      BY <1>1, <1>2, <1>3, <1>4, <2>1
  <2>2. CASE i > k
    <3>1. i - 1 \in 1 .. n /\ i - 1 >= k /\ i = (i - 1) + 1
        BY <1>1, <1>2, <1>4, <2>2
    <3>2. u[(i - 1) + 1] = t[i - 1]
        BY <1>2, <3>1
    <3> QED
        BY <1>2, <3>1, <3>2
  <2> QED
      BY <1>1, <1>2, <1>4, <2>1, <2>2
<1> QED
    BY <1>1, <1>2, <1>4

\* A packet with a number of its own joins a queue whose packets can be told apart.
LEMMA PutInApart ==
    ASSUME NEW t, IsList(t), NEW k, NEW q, NEW u, PutIn(t, k, q, u),
           \A i \in DOMAIN t : t[i].id # q.id, Apart(t)
    PROVE  Apart(u)
<1>1. /\ k \in DOMAIN u /\ u[k] = q
      /\ \A i \in DOMAIN u : i # k => \E j \in DOMAIN t : u[i] = t[j] /\ i = IF j < k THEN j ELSE j + 1
    BY PutInFrom
<1> SUFFICES ASSUME NEW i \in DOMAIN u, NEW j \in DOMAIN u, u[i].id = u[j].id
             PROVE  i = j
    BY DEF Apart
<1>2. CASE i = k /\ j = k
    BY <1>2
<1>3. CASE i = k /\ j # k
    BY <1>1, <1>3
<1>4. CASE i # k /\ j = k
    BY <1>1, <1>4
<1>5. CASE i # k /\ j # k
  <2>1. PICK g \in DOMAIN t : u[i] = t[g] /\ i = IF g < k THEN g ELSE g + 1
      BY <1>1, <1>5
  <2>2. PICK h \in DOMAIN t : u[j] = t[h] /\ j = IF h < k THEN h ELSE h + 1
      BY <1>1, <1>5
  <2>3. g = h
      BY <2>1, <2>2 DEF Apart
  <2> QED
      BY <2>1, <2>2, <2>3
<1> QED
    BY <1>2, <1>3, <1>4, <1>5

\* The other pcbs have no more packets than before, and one that had none has this one.
LEMMA PutInAlone ==
    ASSUME NEW t, IsList(t), NEW k, NEW q, NEW u, PutIn(t, k, q, u)
    PROVE  /\ \A c : c # q.pcb /\ Alone(t, c) => Alone(u, c)
           /\ Silent(t, q.pcb) => Alone(u, q.pcb)
<1>1. /\ k \in DOMAIN u /\ u[k] = q
      /\ \A i \in DOMAIN u : i # k => \E j \in DOMAIN t : u[i] = t[j] /\ i = IF j < k THEN j ELSE j + 1
    BY PutInFrom
<1>2. ASSUME NEW c, c # q.pcb, Alone(t, c), NEW i \in DOMAIN u, NEW j \in DOMAIN u,
             u[i].pcb = c, u[j].pcb = c
      PROVE  i = j
  <2>1. i # k /\ j # k
      BY <1>1, <1>2
  <2>2. PICK g \in DOMAIN t : u[i] = t[g] /\ i = IF g < k THEN g ELSE g + 1
      BY <1>1, <2>1
  <2>3. PICK h \in DOMAIN t : u[j] = t[h] /\ j = IF h < k THEN h ELSE h + 1
      BY <1>1, <2>1
  <2>4. g = h
      BY <1>2, <2>2, <2>3 DEF Alone
  <2> QED
      BY <2>2, <2>3, <2>4
<1>3. ASSUME Silent(t, q.pcb), NEW i \in DOMAIN u, u[i].pcb = q.pcb PROVE i = k
  <2> SUFFICES ASSUME i # k PROVE FALSE
      OBVIOUS
  <2>1. PICK g \in DOMAIN t : u[i] = t[g]
      BY <1>1
  <2> QED
      BY <1>3, <2>1 DEF Silent
<1>4. \A c : c # q.pcb /\ Alone(t, c) => Alone(u, c)
    BY <1>2 DEF Alone
<1>5. Silent(t, q.pcb) => Alone(u, q.pcb)
    BY <1>3 DEF Alone
<1> QED
    BY <1>4, <1>5

\* A packet that is not handed over is put behind those that are.
LEMMA PutInFits ==
    ASSUME NEW t, IsList(t), NEW k, NEW q, NEW u, PutIn(t, k, q, u), ~IsQueued(q),
           \A i \in DOMAIN t : t[i].id # q.id,
           \A i \in HandedPart(t) : i < k,
           NEW w, NEW bad, QueueFits(t, w, bad)
    PROVE  QueueFits(u, w, bad)
<1> DEFINE n == Len(t)
<1>1. n \in Nat /\ DOMAIN t = 1 .. n
    BY ListIs
<1>2. /\ k \in 1 .. n + 1 /\ DOMAIN u = 1 .. n + 1
      /\ \A i \in 1 .. n : (i < k => u[i] = t[i]) /\ (i >= k => u[i + 1] = t[i])
      /\ u[k] = q
    BY DEF PutIn
<1> HIDE DEF n
<1>4. \A i \in 1 .. n + 1 : i # k => \E j \in 1 .. n : u[i] = t[j] /\ i = IF j < k THEN j ELSE j + 1
  <2>1. \A i \in DOMAIN u : i # k => \E j \in DOMAIN t : u[i] = t[j] /\ i = IF j < k THEN j ELSE j + 1
      BY PutInFrom
  <2> QED
      BY <1>1, <1>2, <2>1
<1>5. Apart(u)
    BY PutInApart DEF QueueFits
<1>6. ASSUME Handed(t, w) PROVE Handed(u, w)
  <2>1. \A i \in HandedPart(t) : i \in 1 .. n /\ i < k
      BY <1>1 DEF HandedPart
  <2>2. ASSUME NEW i \in HandedPart(u) PROVE i \in HandedPart(t) /\ u[i] = t[i]
    <3>1. i \in 1 .. n + 1 /\ IsQueued(u[i])
        BY <1>2 DEF HandedPart
    <3>2. i # k
        BY <1>2, <3>1
    <3>3. PICK j \in 1 .. n : u[i] = t[j] /\ i = IF j < k THEN j ELSE j + 1
        BY <1>4, <3>1, <3>2
    <3>4. j \in HandedPart(t)
        BY <1>1, <3>1, <3>3 DEF HandedPart
    <3> QED
        BY <2>1, <3>3, <3>4
  <2>3. ASSUME NEW i \in HandedPart(t) PROVE i \in HandedPart(u)
      BY <1>1, <1>2, <2>1 DEF HandedPart
  <2>4. HandedPart(u) = HandedPart(t)
      BY <2>2, <2>3
  <2>5. \A i \in HandedPart(t) : \A j \in 1 .. i : u[j] = t[j]
      BY <1>1, <1>2, <2>1
  <2>6. PICK f \in [HandedPart(t) -> DOMAIN w] : InLine(t, w, f)
      BY <1>6 DEF Handed
  <2>7. InLine(u, w, f)
      BY <2>2, <2>4, <2>6 DEF InLine
  <2>8. \A i \in HandedPart(u) : u[i].at = Now /\ \A j \in 1 .. i : IsQueued(u[j])
      BY <1>6, <2>2, <2>4, <2>5 DEF Handed
  <2> QED
      BY <2>4, <2>6, <2>7, <2>8 DEF Handed
<1> QED
    BY <1>5, <1>6 DEF QueueFits

-----------------------------------------------------------------------------
(* The queue of packets of the server.                                       *)

\* The packets of a pcb are still there, claim what they claimed and ask what they asked; the
\* others it has now ask what one of them asked or have no strings of a service; and it has
\* one at most if it had.
Saves(t, u, c) ==
    /\ \A i \in DOMAIN t : t[i].pcb = c =>
         \E j \in DOMAIN u : u[j].pcb = c /\ u[j].servers = t[i].servers /\ u[j].qs = t[i].qs
    /\ \A j \in DOMAIN u : u[j].pcb = c =>
         Plain(u[j]) \/ \E i \in DOMAIN t : t[i].pcb = c /\ u[j].qs = t[i].qs
    /\ Alone(t, c) => Alone(u, c)

\* A pcb is covered as long as its packets are saved.
LEMMA SavedCovers ==
    ASSUME NEW x, NEW y, NEW c, NEW S, CoveredBy(x, c, S), y.pcb[c] = x.pcb[c],
           c \in x.ready => c \in y.ready, Saves(x.tx, y.tx, c),
           IsServices(x.svc), SameTypes(x.svc, y.svc), Range(x.pcb[c].services) \subseteq Svcs
    PROVE  CoveredBy(y, c, S)
<1> DEFINE r == x.pcb[c]
<1>0. r.services # <<>> => Probing(r)
    BY DEF CoveredBy
<1>6. ~Probing(r) => AllPlain(y.tx, c)
    BY DEF CoveredBy, AllPlain, Plain, Saves
<1>7. ASSUME Probing(r)
      PROVE  /\ c \in y.ready /\ Alone(y.tx, c)
             /\ \E k \in DOMAIN y.tx : ProbesFor(y.tx[k], c, r, y.svc, S)
  <2>1. /\ c \in y.ready /\ Alone(x.tx, c)
        /\ \E k \in DOMAIN x.tx : ProbesFor(x.tx[k], c, r, x.svc, S)
      BY <1>7 DEF CoveredBy
  <2>2. PICK k \in DOMAIN x.tx : ProbesFor(x.tx[k], c, r, x.svc, S)
      BY <2>1
  <2>3. PICK j \in DOMAIN y.tx :
          y.tx[j].pcb = c /\ y.tx[j].servers = x.tx[k].servers /\ y.tx[j].qs = x.tx[k].qs
      BY <2>2 DEF Saves, ProbesFor
  <2>4. AsksEnough(y.tx[j].qs, r, y.svc, S)
      BY <2>2, <2>3, EnoughStays DEF ProbesFor, AsksEnough
  <2>5. ProbesFor(y.tx[j], c, r, y.svc, S)
      BY <2>2, <2>3, <2>4 DEF ProbesFor
  <2>6. Alone(y.tx, c)
      BY <2>1 DEF Saves
  <2> QED
      BY <2>1, <2>5, <2>6
<1> QED
    BY <1>0, <1>6, <1>7 DEF CoveredBy

\* Another queue in which all packets fit, and in which those of the other pcbs are saved.
LEMMA FitTx ==
    ASSUME NEW x, NEW y, NEW L, NEW w, NEW bad, NEW v, NEW failing, NEW B,
           FitBut(x, L, w, bad, B), Keeps(x, y), y.pcb = x.pcb, y.ready = x.ready, IsList(y.tx),
           \A k \in DOMAIN y.tx : PacketFits(y.tx[k], L),
           \A c \in Pcbs : c \notin B => Saves(x.tx, y.tx, c),
           QueueFits(y.tx, v, failing)
    PROVE  FitBut(y, L, v, failing, B)
<1>1. /\ DOMAIN y = ServerFields /\ y.host = x.host /\ y.srvs = x.srvs /\ y.hosts = x.hosts
      /\ y.twin = x.twin /\ y.up = x.up
      /\ SameTypes(x.svc, y.svc)
    BY DEF Keeps
<1>5. IsServer(x) /\ IsServices(x.svc) /\ Refs(x, L)
    BY DEF FitBut, IsServer
<1>2. IsServer(y)
    BY <1>1, <1>5 DEF IsServer, SameTypes
<1>3. Refs(y, L)
    BY <1>1, <1>5, TypedStays DEF Refs
<1>4. \A c \in Pcbs : c \notin B => Covered(y, c)
    BY <1>1, <1>5, RefsKnown, SavedCovers DEF FitBut, Covered
<1> QED
    BY <1>2, <1>3, <1>4 DEF FitBut

\* The place at which a packet is put into the queue: behind those that are due no later.
LEMMA SendAfterPuts ==
    ASSUME NEW x, IsList(x.tx), NEW p, NEW delay, DOMAIN x = ServerFields
    PROVE  LET y == SendAfter(x, p, delay)
           IN  /\ IsList(y.tx)
               /\ \E k : /\ PutIn(x.tx, k, [p EXCEPT !.at = delay], y.tx)
                         /\ k \in DOMAIN x.tx => x.tx[k].at > delay
<1> DEFINE t == x.tx
           q == [p EXCEPT !.at = delay]
           I == {i \in 1 .. Len(t) : t[i].at > delay}
           k == SelectInSeq(t, LAMBDA e : e.at > delay)
           n == Len(t)
           u == IF k = 0 THEN Append(t, q) ELSE InsertAt(t, k, q)
<1>1. IsList(t) /\ n \in Nat /\ DOMAIN t = 1 .. n
    BY ListIs
<1>2. k = IF I # {} THEN Min(I) ELSE 0
    BY DEF SelectInSeq
<1>3. I \in SUBSET (1 .. n) /\ \A i \in I : t[i].at > delay
    OBVIOUS
<1>4. SendAfter(x, p, delay).tx = u
    BY DEF SendAfter, ServerFields
<1> HIDE DEF t, q, I, k, n
<1>5. k = 0 \/ (k \in 1 .. n /\ t[k].at > delay)
    BY <1>1, <1>2, <1>3, MinIn
<1>6. CASE k = 0
  <2> DEFINE v == Append(t, q)
  <2>1. IsList(v) /\ (\A i \in 1 .. Len(t) : v[i] = t[i]) /\ v[Len(t) + 1] = q /\ Len(v) = Len(t) + 1
      BY <1>1, AppendIs
  <2> HIDE DEF v
  <2>2. DOMAIN v = 1 .. Len(t) + 1
      BY <2>1, ListIs
  <2>3. PutIn(t, Len(t) + 1, q, v)
      BY <1>1, <2>1, <2>2 DEF PutIn, n
  <2>4. Len(t) + 1 \notin DOMAIN t
      BY <1>1 DEF n
  <2>5. IsList(v) /\ \E j : PutIn(t, j, q, v) /\ (j \in DOMAIN t => t[j].at > delay)
      BY <2>1, <2>3, <2>4
  <2>6. u = v
      BY <1>6 DEF v
  <2> HIDE DEF u
  <2> QED
      BY <1>4, <2>5, <2>6 DEF q, t
<1>7. CASE k \in 1 .. n /\ t[k].at > delay
  <2> DEFINE v == InsertAt(t, k, q)
  <2>0. k \in DOMAIN t
      BY <1>1, <1>7
  <2>1. /\ IsList(v) /\ Len(v) = Len(t) + 1 /\ v[k] = q
        /\ \A i \in 1 .. k - 1 : v[i] = t[i]
        /\ \A i \in k .. Len(t) : v[i + 1] = t[i]
      BY <1>1, <2>0, InsertAtIs
  <2> HIDE DEF v
  <2>2. DOMAIN v = 1 .. Len(t) + 1
      BY <2>1, ListIs
  <2>3. PutIn(t, k, q, v)
    <3>1. \A i \in 1 .. Len(t) : (i < k => i \in 1 .. k - 1) /\ (i >= k => i \in k .. Len(t))
        BY <1>1, <1>7 DEF n
    <3> QED
        BY <1>1, <1>7, <2>1, <2>2, <3>1 DEF PutIn, n
  <2>5. IsList(v) /\ \E j : PutIn(t, j, q, v) /\ (j \in DOMAIN t => t[j].at > delay)
      BY <1>7, <2>1, <2>3
  <2>6. u = v
      BY <1>1, <1>7 DEF v
  <2> HIDE DEF u
  <2> QED
      BY <1>4, <2>5, <2>6 DEF q, t
<1> QED
    BY <1>5, <1>6, <1>7

\* The packet waits, as a probe for what it claims and asks for.
Sent(p, t) == \E k \in DOMAIN t : t[k].pcb = p.pcb /\ t[k].servers = p.servers /\ t[k].qs = p.qs

\* A packet that is not handed over joins the queue, and the queue fits the task's line.
LEMMA SendAfterIs ==
    ASSUME NEW x, NEW L, NEW w, NEW bad, NEW B, FitBut(x, L, w, bad, B),
           NEW p, PacketFits(p, L), p.pcb \in B, ~IsQueued(p), p.id \notin LiveIds(x), NEW delay \in Nat
    PROVE  LET y == SendAfter(x, p, delay)
           IN  /\ FitBut(y, L, w, bad, B) /\ Keeps(x, y) /\ y.pcb = x.pcb /\ y.ready = x.ready
               /\ \A c : c # p.pcb => Saves(x.tx, y.tx, c)
               /\ Sent(p, y.tx) /\ (Silent(x.tx, p.pcb) => Alone(y.tx, p.pcb))
               /\ Plain(p) /\ AllPlain(x.tx, p.pcb) => AllPlain(y.tx, p.pcb)
<1> DEFINE y == SendAfter(x, p, delay)
           q == [p EXCEPT !.at = delay]
<1>1. IsServer(x) /\ DOMAIN x = ServerFields /\ IsList(x.tx) /\ Refs(x, L) /\ QueueFits(x.tx, w, bad)
    BY DEF FitBut, IsServer
<1>2. Keeps(x, y) /\ y.pcb = x.pcb /\ y.ready = x.ready
    BY <1>1 DEF SendAfter, Keeps, ServerFields, SameTypes
<1>3. IsList(y.tx) /\ \E k : PutIn(x.tx, k, q, y.tx) /\ (k \in DOMAIN x.tx => x.tx[k].at > delay)
    BY <1>1, SendAfterPuts
<1> HIDE DEF y
<1>4. PICK k : PutIn(x.tx, k, q, y.tx) /\ (k \in DOMAIN x.tx => x.tx[k].at > delay)
    BY <1>3
<1>5. /\ PacketFits(q, L) /\ ~IsQueued(q) /\ q.id = p.id /\ q.pcb = p.pcb /\ q.servers = p.servers
      /\ q.qs = p.qs
  <2>1. DOMAIN p = PacketFields
      BY DEF PacketFits, IsPacket
  <2>2. /\ DOMAIN q = PacketFields /\ q.id = p.id /\ q.pcb = p.pcb /\ q.at = delay
        /\ q.queued = p.queued /\ q.answers = p.answers /\ q.additional = p.additional
        /\ q.servers = p.servers /\ q.qs = p.qs
      BY <2>1 DEF PacketFields
  <2> HIDE DEF q
  <2>3. IsQueued(q) <=> IsQueued(p)
      BY <2>2 DEF IsQueued
  <2>4. IsPacket(q)
      BY <2>2 DEF PacketFits, IsPacket
  <2> QED
      BY <2>2, <2>3, <2>4 DEF PacketFits
<1> HIDE DEF q
<1>6. \A i \in DOMAIN x.tx : x.tx[i].id # q.id /\ PacketFits(x.tx[i], L)
    BY <1>1, <1>5 DEF LiveIds, Refs
<1> DEFINE n == Len(x.tx)
<1>7. n \in Nat /\ DOMAIN x.tx = 1 .. n
    BY <1>1, ListIs
<1>8. /\ k \in 1 .. n + 1 /\ DOMAIN y.tx = 1 .. n + 1
      /\ \A i \in 1 .. n : (i < k => y.tx[i] = x.tx[i]) /\ (i >= k => y.tx[i + 1] = x.tx[i])
      /\ y.tx[k] = q
    BY <1>4 DEF PutIn
<1> HIDE DEF n
<1>9. bad \/ \A i \in HandedPart(x.tx) : i < k
  <2> SUFFICES ASSUME Handed(x.tx, w), NEW i \in HandedPart(x.tx), ~(i < k)
               PROVE  FALSE
      BY <1>1 DEF QueueFits
  <2>1. i \in 1 .. n /\ k \in 1 .. i /\ k \in 1 .. n
      BY <1>7, <1>8 DEF HandedPart
  <2>2. IsQueued(x.tx[k])
      BY <2>1 DEF Handed
  <2>3. k \in HandedPart(x.tx)
      BY <1>7, <2>1, <2>2 DEF HandedPart
  <2>4. x.tx[k].at = 0
      BY <2>3 DEF Handed, Now
  <2>5. x.tx[k].at > delay
      BY <1>4, <1>7, <2>1
  <2> QED
      BY <2>4, <2>5
<1>10. QueueFits(y.tx, w, bad)
  <2>1. CASE bad
    <3>1. Apart(y.tx)
        BY <1>1, <1>4, <1>6, PutInApart DEF QueueFits
    <3> QED
        BY <2>1, <3>1 DEF QueueFits
  <2>2. CASE \A i \in HandedPart(x.tx) : i < k
      BY <1>1, <1>4, <1>5, <1>6, <2>2, PutInFits
  <2> QED
      BY <1>9, <2>1, <2>2
<1>11. \A i \in 1 .. n : \E j \in 1 .. n + 1 : y.tx[j] = x.tx[i]
  <2> TAKE i \in 1 .. n
  <2>1. CASE i < k
      BY <1>7, <1>8, <2>1
  <2>2. CASE i >= k
      BY <1>7, <1>8, <2>2
  <2> QED
      BY <1>7, <1>8, <2>1, <2>2
<1>17. /\ \A c : c # p.pcb /\ Alone(x.tx, c) => Alone(y.tx, c)
       /\ Silent(x.tx, p.pcb) => Alone(y.tx, p.pcb)
    BY <1>1, <1>4, <1>5, PutInAlone
<1>13. \A j \in 1 .. n + 1 : j = k \/ \E i \in 1 .. n : y.tx[j] = x.tx[i]
  <2> TAKE j \in 1 .. n + 1
  <2>1. CASE j < k
      BY <1>7, <1>8, <2>1
  <2>2. CASE j > k
    <3>1. j - 1 \in 1 .. n /\ j - 1 >= k /\ j = (j - 1) + 1
        BY <1>7, <1>8, <2>2
    <3> QED
        BY <1>8, <3>1
  <2> QED
      BY <1>7, <1>8, <2>1, <2>2
<1>12. \A c : c # p.pcb => Saves(x.tx, y.tx, c)
  <2> TAKE c
  <2> HAVE c # p.pcb
  <2>1. \A i \in DOMAIN x.tx : x.tx[i].pcb = c =>
          \E j \in DOMAIN y.tx :
            y.tx[j].pcb = c /\ y.tx[j].servers = x.tx[i].servers /\ y.tx[j].qs = x.tx[i].qs
      BY <1>7, <1>8, <1>11
  <2>2. \A j \in DOMAIN y.tx : y.tx[j].pcb = c =>
          \E i \in DOMAIN x.tx : x.tx[i].pcb = c /\ y.tx[j].qs = x.tx[i].qs
    <3> SUFFICES ASSUME NEW j \in DOMAIN y.tx, y.tx[j].pcb = c
                 PROVE  \E i \in DOMAIN x.tx : x.tx[i].pcb = c /\ y.tx[j].qs = x.tx[i].qs
        OBVIOUS
    <3>1. j # k
        BY <1>5, <1>8
    <3>2. PICK i \in 1 .. n : y.tx[j] = x.tx[i]
        BY <1>8, <1>13, <3>1
    <3> QED
        BY <1>7, <3>2
  <2> QED
      BY <1>17, <2>1, <2>2 DEF Saves
<1>18. ASSUME Plain(p), AllPlain(x.tx, p.pcb) PROVE AllPlain(y.tx, p.pcb)
  <2> SUFFICES ASSUME NEW j \in DOMAIN y.tx, y.tx[j].pcb = p.pcb PROVE Plain(y.tx[j])
      BY DEF AllPlain
  <2>1. CASE j = k
      BY <1>5, <1>8, <1>18, <2>1 DEF Plain
  <2>2. CASE \E i \in 1 .. n : y.tx[j] = x.tx[i]
      BY <1>7, <1>18, <2>2 DEF AllPlain
  <2> QED
      BY <1>8, <1>13, <2>1, <2>2
<1>14. \A j \in DOMAIN y.tx : PacketFits(y.tx[j], L)
    BY <1>5, <1>6, <1>7, <1>8, <1>13
<1>15. FitBut(y, L, w, bad, B)
    BY <1>2, <1>3, <1>10, <1>12, <1>14, FitTx
<1>16. Sent(p, y.tx)
  <2>1. k \in DOMAIN y.tx /\ y.tx[k].pcb = p.pcb /\ y.tx[k].servers = p.servers /\ y.tx[k].qs = p.qs
      BY <1>5, <1>8
  <2> QED
      BY <2>1 DEF Sent
<1> QED
    BY <1>2, <1>12, <1>15, <1>16, <1>17, <1>18 DEF y

\* The packets of a pcb are dropped, those of the others are saved.
LEMMA ClearTxQueueIfIs ==
    ASSUME NEW x, NEW L, NEW w, NEW bad, NEW b \in Pcbs, NEW B, b \in B, FitBut(x, L, w, bad, B)
    PROVE  LET y == ClearTxQueueIf(x, b)
           IN  /\ FitBut(y, L, w, bad, B) /\ Keeps(x, y) /\ y.pcb = x.pcb /\ y.ready = x.ready
               /\ Silent(y.tx, b) /\ AllPlain(y.tx, b)
<1> DEFINE gone == {p \in Range(x.tx) : p.pcb = b}
           t == Without(x.tx, gone)
           y == [x EXCEPT !.tx = t]
<1>1. ClearTxQueueIf(x, b) = y
    BY DEF ClearTxQueueIf
<1>2. IsServer(x) /\ IsList(x.tx) /\ QueueFits(x.tx, w, bad) /\ Refs(x, L)
    BY DEF FitBut, IsServer
<1>3. /\ IsList(t) /\ Thinned(x.tx, t) /\ Range(t) = {p \in Range(x.tx) : p \notin gone}
      /\ \A c : Alone(x.tx, c) => Alone(t, c)
    BY <1>2, WithoutThins
<1> HIDE DEF t
<1>4. Range(t) = {p \in Range(x.tx) : p.pcb # b}
    BY <1>3
<1> HIDE DEF gone
<1>5. Keeps(x, y) /\ y.tx = t /\ y.pcb = x.pcb /\ y.ready = x.ready
    BY <1>2, TxSet
<1> HIDE DEF y
<1>6. QueueFits(t, w, bad)
    BY <1>2, <1>3, ThinnedFits
<1>7. \A k \in DOMAIN t : PacketFits(t[k], L)
  <2>1. \A k \in DOMAIN t : t[k] \in Range(x.tx)
      BY <1>4 DEF Range
  <2> QED
      BY <1>2, <2>1 DEF Refs, Range
<1>8. \A c \in Pcbs : c \notin B => Saves(x.tx, t, c)
  <2> SUFFICES ASSUME NEW c \in Pcbs, c # b, NEW i \in DOMAIN x.tx, x.tx[i].pcb = c
               PROVE  \E j \in DOMAIN t :
                        t[j].pcb = c /\ t[j].servers = x.tx[i].servers /\ t[j].qs = x.tx[i].qs
    <3>1. \A j \in DOMAIN t : \E i \in DOMAIN x.tx : t[j] = x.tx[i]
        BY <1>4 DEF Range
    <3> QED
        BY <1>3, <3>1 DEF Saves
  <2>1. x.tx[i] \in Range(t)
      BY <1>4 DEF Range
  <2>2. PICK j \in DOMAIN t : t[j] = x.tx[i]
      BY <2>1 DEF Range
  <2> QED
      BY <2>2
<1>9. FitBut(y, L, w, bad, B)
    BY <1>3, <1>5, <1>6, <1>7, <1>8, FitTx
<1>10. Silent(t, b) /\ AllPlain(t, b)
    BY <1>4 DEF Silent, AllPlain, Range
<1> QED
    BY <1>1, <1>5, <1>9, <1>10

\* A pcb starts to probe for services, and a packet claims all it probes for.
LEMMA InitProbeNewServiceIs ==
    ASSUME NEW x, NEW L, NEW w, NEW bad, NEW b \in Pcbs, NEW B, b \in B, FitBut(x, L, w, bad, B),
           x.host # None, b \in x.ready, Silent(x.tx, b),
           NEW services, IsList(services), Range(services) \subseteq L, NEW probe_ip,
           services # <<>> \/ x.pcb[b].services # <<>> \/ probe_ip
    PROVE  LET y == InitProbeNewService(x, b, services, probe_ip)
           IN  FitBut(y, L, w, bad, B) /\ Covered(y, b) /\ Keeps(x, y) /\ y.ready = x.ready
<1> DEFINE pcb == x.pcb[b]
           all == services \o pcb.services
           addrs == pcb.ip \/ probe_ip
           p == CreateProbePacket(x, b, all, TRUE, addrs, {})
           r == [state |-> Probe1, services |-> all, ip |-> addrs, running |-> TRUE, failed |-> pcb.failed]
           x1 == [x EXCEPT !.pcb = [@ EXCEPT ![b] = r]]
           delay == IF pcb.failed > 5 THEN Later ELSE Soon
           y == SendAfter(x1, p, delay)
<1>1. InitProbeNewService(x, b, services, probe_ip) = y
    BY DEF InitProbeNewService
<1>2. IsServer(x) /\ IsList(x.tx) /\ IsPcb(pcb) /\ Range(pcb.services) \subseteq L
    BY DEF FitBut, IsServer, Refs
<1>3. IsList(pcb.services)
    BY <1>2 DEF IsPcb
<1>4. IsList(all) /\ Range(all) \subseteq L
  <2> DEFINE more == pcb.services
  <2>0. all = services \o more /\ IsList(more) /\ Range(more) \subseteq L
      BY <1>2, <1>3
  <2> HIDE DEF more, pcb, all, addrs, p, r, x1, delay, y
  <2>1. IsList(all) /\ Range(all) = Range(services) \cup Range(more)
      BY <2>0, ConcatRange, Zenon
  <2> QED
      BY <2>0, <2>1
<1>14. all # <<>> \/ addrs
  <2> DEFINE more == pcb.services
  <2>0. all = services \o more /\ IsList(more) /\ (services # <<>> \/ more # <<>> \/ addrs)
      BY <1>3
  <2> HIDE DEF more, pcb, all, addrs, p, r, x1, delay, y
  <2>1. Len(all) = Len(services) + Len(more)
      BY <2>0, ConcatIs
  <2>2. Len(services) \in Nat /\ Len(more) \in Nat
      BY <2>0, ListIs
  <2>3. (services # <<>> => Len(services) # 0) /\ (more # <<>> => Len(more) # 0)
      BY <2>0 DEF IsList
  <2>4. all = <<>> => Len(all) = 0
      OBVIOUS
  <2> QED
      BY <2>0, <2>1, <2>2, <2>3, <2>4
<1>5. delay \in Nat
    BY DEF Later, Soon
<1> HIDE DEF pcb, all, addrs, delay
<1>6. /\ PacketFits(p, L) /\ IsNew(p, x, b) /\ \A s \in Range(all) : Claims(p.servers, s)
      /\ Enough(p.qs, Range(all), addrs, x.svc, {})
  <2>1. Typed(x.svc, L)
      BY DEF FitBut, Refs
  <2> QED
      BY <1>2, <1>4, <2>1, CreateProbePacketIs
<1> HIDE DEF p
<1>16. p.qs # <<>>
    BY <1>4, <1>6, <1>14, AsksSome
<1>7. IsPcb(r) /\ r.services = all /\ r.state = Probe1 /\ r.ip = addrs
    BY <1>4 DEF IsPcb, PcbFields, Off, Running, Probe1
<1> HIDE DEF r
<1>8. AlikeBut(x, x1, b) /\ x1.pcb[b] = r /\ x1.ready = x.ready
    BY <1>2, PcbSet
<1> HIDE DEF x1
<1>9. FitBut(x1, L, w, bad, B)
    BY <1>4, <1>7, <1>8, FitAlikeBut
<1>10. Keeps(x, x1) /\ x1.tx = x.tx
    BY <1>8 DEF AlikeBut
<1>11. ~IsQueued(p) /\ p.id \notin LiveIds(x1) /\ p.pcb = b
    BY <1>6, <1>10 DEF IsNew, IsQueued, LiveIds
<1>12. /\ FitBut(y, L, w, bad, B) /\ Keeps(x1, y) /\ y.pcb = x1.pcb /\ y.ready = x1.ready
       /\ Sent(p, y.tx) /\ Alone(y.tx, b)
    BY <1>5, <1>6, <1>9, <1>10, <1>11, SendAfterIs
<1> HIDE DEF y
<1>15. Keeps(x, y)
    BY <1>10, <1>12, KeepsOn
<1>13. Covered(y, b)
  <2>1. PICK k \in DOMAIN y.tx :
          y.tx[k].pcb = p.pcb /\ y.tx[k].servers = p.servers /\ y.tx[k].qs = p.qs
      BY <1>12 DEF Sent
  <2>2. y.pcb[b] = r /\ b \in y.ready
      BY <1>8, <1>12
  <2>5. Enough(p.qs, Range(all), addrs, y.svc, {})
    <3>1. IsServices(x.svc) /\ SameTypes(x.svc, y.svc)
        BY <1>2, <1>15 DEF IsServer, Keeps
    <3>2. Range(all) \subseteq Svcs
        BY <1>4 DEF FitBut, Refs, Typed
    <3> QED
        BY <1>6, <3>1, <3>2, EnoughStays
  <2>3. ProbesFor(y.tx[k], b, r, y.svc, {})
      BY <1>6, <1>7, <1>11, <1>16, <2>1, <2>5 DEF ProbesFor, AsksEnough
  <2>4. Probing(r)
      BY <1>7 DEF Probing, Probe1, Probe3
  <2> QED
      BY <1>12, <2>2, <2>3, <2>4 DEF Covered, CoveredBy
<1> QED
    BY <1>1, <1>8, <1>12, <1>13, <1>15

\* A pcb that has a socket probes again; without a host name it has nothing to probe for.
LEMMA InitPcbProbeOpen ==
    ASSUME NEW x, NEW L, NEW w, NEW bad, NEW b \in Pcbs, NEW B, b \in B, FitBut(x, L, w, bad, B), b \in x.ready,
           NEW services, IsList(services), Range(services) \subseteq L, NEW probe_ip,
           services # <<>> \/ probe_ip
    PROVE  LET y == InitPcbProbe(x, b, services, probe_ip)
           IN  FitBut(y, L, w, bad, B) /\ Covered(y, b) /\ Stays(x, y)
<1> DEFINE x1 == ClearTxQueueIf(x, b)
           rest == Without(services, Range(x.pcb[b].services))
           none == SetPcbState(x1, b, Running)
           more == InitProbeNewService(x1, b, rest, probe_ip)
           new == InitProbeNewService(x1, b, services, probe_ip)
<1>1. InitPcbProbe(x, b, services, probe_ip) =
        IF x.host = None THEN none ELSE IF IsProbing(x, b) THEN more ELSE new
    BY DEF InitPcbProbe
<1>2. /\ FitBut(x1, L, w, bad, B) /\ Keeps(x, x1) /\ x1.pcb = x.pcb /\ x1.ready = x.ready
      /\ Silent(x1.tx, b) /\ AllPlain(x1.tx, b)
    BY ClearTxQueueIfIs
<1>3. IsList(rest) /\ Range(rest) \subseteq L
    BY WithoutIs
<1>7. rest # <<>> \/ x.pcb[b].services # <<>> \/ probe_ip
  <2> SUFFICES ASSUME x.pcb[b].services = <<>>, services # <<>> PROVE rest # <<>>
      OBVIOUS
  <2>1. Range(x.pcb[b].services) = {}
      BY DEF Range
  <2>2. Range(rest) = Range(services)
    <3> DEFINE gone == Range(x.pcb[b].services)
    <3>1. rest = Without(services, gone) /\ gone = {}
        BY <2>1
    <3> HIDE DEF gone, rest
    <3>2. Range(rest) = {e \in Range(services) : e \notin gone}
        BY <3>1, WithoutIs
    <3> QED
        BY <3>1, <3>2
  <2>3. Range(services) # {}
    <3>1. Len(services) # 0
        BY DEF IsList
    <3>2. Len(services) \in Nat /\ \A i \in 1 .. Len(services) : services[i] \in Range(services)
        BY ListIs
    <3>3. 1 \in 1 .. Len(services)
        BY <3>1, <3>2
    <3> QED
        BY <3>2, <3>3
  <2> HIDE DEF rest
  <2>4. Range(<<>>) = {}
      BY DEF Range
  <2> QED
      BY <2>2, <2>3, <2>4
<1> HIDE DEF x1, rest
<1>4. x1.host = x.host
    BY <1>2 DEF Keeps
<1>5. CASE x.host = None
  <2>1. Running \in Off .. Running
      BY DEF Running, Off
  <2>2. IsServer(x1) /\ x1.pcb[b].services = <<>> /\ Range(x1.pcb[b].services) \subseteq L
    <3>1. IsServer(x1) /\ L = {} /\ Range(x1.pcb[b].services) \subseteq L /\ IsPcb(x1.pcb[b])
        BY <1>2, <1>4, <1>5 DEF FitBut, Refs, IsServer
    <3>2. IsList(x1.pcb[b].services)
        BY <3>1 DEF IsPcb
    <3> QED
        BY <3>1, <3>2 DEF IsList
  <2>3. /\ AlikeBut(x1, none, b) /\ none.ready = x1.ready /\ IsPcb(none.pcb[b])
        /\ none.pcb[b].services = <<>> /\ none.pcb[b].state = Running
      BY <2>1, <2>2, SetPcbStateIs
  <2> HIDE DEF none
  <2>4. FitBut(none, L, w, bad, B)
      BY <1>2, <2>2, <2>3, FitAlikeBut
  <2>5. Covered(none, b)
      BY <1>2, <2>3 DEF Covered, CoveredBy, AlikeBut, Probing, Running, Probe1, Probe3
  <2>6. Keeps(x, none)
      BY <1>2, <2>3, KeepsOn DEF AlikeBut
  <2> QED
      BY <1>1, <1>2, <1>5, <2>3, <2>4, <2>5, <2>6 DEF Stays
<1>6. CASE x.host # None
  <2>1. FitBut(more, L, w, bad, B) /\ Covered(more, b) /\ Keeps(x1, more) /\ more.ready = x1.ready
      BY <1>2, <1>3, <1>4, <1>6, <1>7, InitProbeNewServiceIs
  <2>2. FitBut(new, L, w, bad, B) /\ Covered(new, b) /\ Keeps(x1, new) /\ new.ready = x1.ready
      BY <1>2, <1>4, <1>6, InitProbeNewServiceIs
  <2> HIDE DEF more, new
  <2>3. Keeps(x, more) /\ Keeps(x, new)
      BY <1>2, <2>1, <2>2, KeepsOn
  <2> QED
      BY <1>1, <1>2, <1>6, <2>1, <2>2, <2>3 DEF Stays
<1> QED
    BY <1>5, <1>6

\* The same when only this pcb was not covered.
LEMMA InitPcbProbeIs ==
    ASSUME NEW x, NEW L, NEW w, NEW bad, NEW b \in Pcbs, FitBut(x, L, w, bad, {b}), b \in x.ready,
           NEW services, IsList(services), Range(services) \subseteq L, NEW probe_ip,
           services # <<>> \/ probe_ip
    PROVE  LET y == InitPcbProbe(x, b, services, probe_ip)
           IN  Fit(y, L, w, bad) /\ Stays(x, y)
<1> DEFINE y == InitPcbProbe(x, b, services, probe_ip)
           B == {b}
<1>1. b \in B /\ FitBut(x, L, w, bad, B)
    OBVIOUS
<1> HIDE DEF B
<1>2. FitBut(y, L, w, bad, B) /\ Covered(y, b) /\ Stays(x, y)
    BY <1>1, InitPcbProbeOpen
<1> HIDE DEF y
<1> QED
    BY <1>2, FitBy DEF y, B

-----------------------------------------------------------------------------
(* What is done to one pcb after the other.                                  *)

\* What was being probed for is forgotten.
ClearPcb(x, b) == [x EXCEPT !.pcb[b].services = <<>>, !.pcb[b].running = FALSE]

\* The pcb has nothing to be covered then, and the others are as they were.
LEMMA ClearPcbIs ==
    ASSUME NEW x, NEW L, NEW w, NEW bad, NEW b \in Pcbs, NEW B, b \in B,
           FitBut(x, L, w, bad, B)
    PROVE  LET y == ClearPcb(x, b)
           IN  FitBut(y, L, w, bad, B) /\ Stays(x, y)
<1> DEFINE r == [x.pcb[b] EXCEPT !.services = <<>>]
           r1 == [r EXCEPT !.running = FALSE]
           y == ClearPcb(x, b)
<1>1. IsServer(x) /\ IsPcb(x.pcb[b])
    BY DEF FitBut, IsServer
<1>2. /\ DOMAIN x = ServerFields /\ DOMAIN x.pcb = Pcbs /\ x.ready \subseteq Pcbs
    BY <1>1 DEF IsServer
<1>3. /\ DOMAIN y = ServerFields /\ y.svc = x.svc /\ y.host = x.host /\ y.srvs = x.srvs /\ y.hosts = x.hosts
      /\ y.twin = x.twin /\ y.up = x.up /\ y.tx = x.tx /\ y.ready = x.ready
      /\ DOMAIN y.pcb = Pcbs /\ y.pcb[b] = r1
      /\ \A c \in Pcbs : c # b => y.pcb[c] = x.pcb[c]
    BY <1>2 DEF ClearPcb, ServerFields
<1> HIDE DEF y
<1>4. DOMAIN r = PcbFields /\ r.services = <<>> /\ r.state = x.pcb[b].state
    BY <1>1 DEF IsPcb, PcbFields
<1> HIDE DEF r
<1>5. DOMAIN r1 = PcbFields /\ r1.services = <<>> /\ r1.state = x.pcb[b].state
    BY <1>4 DEF PcbFields
<1> HIDE DEF r1
<1>6. IsPcb(r1) /\ Range(r1.services) \subseteq L
    BY <1>1, <1>5 DEF IsPcb, IsList, Range
<1>7. AlikeBut(x, y, b)
    BY <1>2, <1>3 DEF AlikeBut, Keeps, SameTypes
<1> QED
    BY <1>3, <1>6, <1>7, FitAlikeBut DEF y, AlikeBut, Stays

\* The pcbs probe one after the other.
ProbesAll(r, n, x, services, probe_ip, clear, as) ==
    /\ r[0] = x /\ r[n] = FoldLeft(LAMBDA z, b : InitPcbProbe(IF clear THEN ClearPcb(z, b) ELSE z, b, services, probe_ip), x, as)
    /\ \A i \in 1 .. n : r[i] = InitPcbProbe(IF clear THEN ClearPcb(r[i - 1], as[i]) ELSE r[i - 1], as[i], services, probe_ip)

\* The fold takes these steps.
LEMMA ProbeAllPcbsFold ==
    ASSUME NEW x, NEW services, NEW probe_ip, NEW clear, NEW as,
           NEW n \in Nat, DOMAIN as = 1 .. n
    PROVE  \E r : ProbesAll(r, n, x, services, probe_ip, clear, as)
<1> DEFINE Op(y, i) == InitPcbProbe(IF clear THEN ClearPcb(y, as[i]) ELSE y, as[i], services, probe_ip)
           After(g, s) == IF s = {} THEN x ELSE Op(g[s \ {Max(s)}], Max(s))
           Is(k, g) == g = [s \in SUBSET (1 .. k) |-> After(g, s)]
           fold == CHOOSE g : Is(n, g)
           T == {k \in 0 .. n : \E g : Is(k, g)}
<1>1. FoldLeft(LAMBDA z, b : InitPcbProbe(IF clear THEN ClearPcb(z, b) ELSE z, b, services, probe_ip), x, as) = fold[1 .. n]
    BY DEF FoldLeft, MapThenFoldSet
<1> HIDE DEF Op
<1>2. Is(0, [s \in SUBSET (1 .. 0) |-> x])
    OBVIOUS
<1>3. ASSUME NEW k \in 0 .. n - 1, NEW g, Is(k, g) PROVE \E h : Is(k + 1, h)
  <2> DEFINE h == [s \in SUBSET (1 .. k + 1) |->
                     IF k + 1 \in s THEN Op(g[s \ {k + 1}], k + 1) ELSE g[s]]
  <2>0. \A s \in SUBSET (1 .. k) : g[s] = After(g, s)
      BY <1>3
  <2>1. /\ \A s \in SUBSET (1 .. k) : h[s] = g[s]
        /\ \A s \in SUBSET (1 .. k + 1) : k + 1 \in s => h[s] = Op(g[s \ {k + 1}], k + 1)
        /\ h = [s \in SUBSET (1 .. k + 1) |-> h[s]]
      OBVIOUS
  <2> HIDE DEF h
  <2>2. \A s \in SUBSET (1 .. k + 1) : h[s] = After(h, s)
      BY k \in Nat, <2>0, <2>1, PlacesUpTo
  <2> QED
      BY <2>1, <2>2
<1>4. Is(n, fold)
  <2> HIDE DEF Is
  <2>1. 0 \in T /\ \A k \in 0 .. n - 1 : k \in T => k + 1 \in T
      BY <1>2, <1>3
  <2> HIDE DEF T
  <2>2. 0 .. n \subseteq T
      BY <2>1, UpFromZero
  <2> QED
      BY <2>2 DEF T
<1> HIDE DEF fold
<1> DEFINE r == [i \in 0 .. n |-> fold[1 .. i]]
<1>5. r[0] = x /\ r[n] = fold[1 .. n]
  <2>1. 1 .. 0 = {} /\ r[0] = fold[1 .. 0] /\ r[n] = fold[1 .. n]
      OBVIOUS
  <2>2. fold[{}] = x
      BY <1>4
  <2> QED
      BY <2>1, <2>2
<1>6. ASSUME NEW i \in 1 .. n PROVE r[i] = Op(r[i - 1], i)
  <2>1. r[i] = fold[1 .. i] /\ r[i - 1] = fold[1 .. i - 1]
      OBVIOUS
  <2>2. fold[1 .. i] = Op(fold[(1 .. i) \ {Max(1 .. i)}], Max(1 .. i))
      BY <1>4, PlacesBefore
  <2> HIDE DEF r
  <2> QED
      BY <2>1, <2>2, PlacesBefore
<1> HIDE DEF r
<1>7. ProbesAll(r, n, x, services, probe_ip, clear, as)
    BY <1>1, <1>5, <1>6 DEF Op, ProbesAll
<1> QED
    BY <1>7

\* The pcbs there are can be gone through.
LEMMA SomePcbs ==
    ASSUME NEW P, P \subseteq Pcbs
    PROVE  \E n \in Nat : /\ DOMAIN SetToSeq(P) = 1 .. n /\ \A i \in 1 .. n : SetToSeq(P)[i] \in P
                       /\ \A b \in P : \E i \in 1 .. n : SetToSeq(P)[i] = b
<1>1. IsFiniteSet(Pcbs)
    BY PcbsAssumption, FS_Product DEF Pcbs
<1>2. IsFiniteSet(P)
    BY <1>1, FS_Subset
<1>3. \E n \in Nat : DOMAIN SetToSeq(P) = 1 .. n /\ SetToSeq(P) \in [1 .. n -> P]
                   /\ Range(SetToSeq(P)) = P
    BY <1>2, SetToSeqIs
<1> QED
    BY <1>3 DEF Range

\* All pcbs that have a socket probe; none of them needs to be covered before.
LEMMA ProbeAllPcbsOpen ==
    ASSUME NEW x, NEW L, NEW w, NEW bad, FitBut(x, L, w, bad, x.ready),
           NEW services, IsList(services), Range(services) \subseteq L, NEW probe_ip, NEW clear,
           services # <<>> \/ probe_ip
    PROVE  LET y == ProbeAllPcbs(x, services, probe_ip, clear)
           IN  Fit(y, L, w, bad) /\ Stays(x, y)
<1> DEFINE P == {b \in Pcbs : Ready(x, b)}
           as == SetToSeq(P)
           y == FoldLeft(LAMBDA z, b : InitPcbProbe(IF clear THEN ClearPcb(z, b) ELSE z,
                                                    b, services, probe_ip), x, as)
           Left(i) == {c \in x.ready : \A j \in 1 .. i : as[j] # c}
<1>0. ProbeAllPcbs(x, services, probe_ip, clear) = y
    BY DEF ProbeAllPcbs, OnPcbs, ClearPcb
<1>1. PICK n \in Nat : /\ DOMAIN as = 1 .. n /\ \A i \in 1 .. n : as[i] \in P
                       /\ \A b \in P : \E i \in 1 .. n : as[i] = b
    BY SomePcbs
<1>2. PICK r : ProbesAll(r, n, x, services, probe_ip, clear, as)
    BY <1>1, ProbeAllPcbsFold
<1>3. /\ \A i \in 1 .. n : as[i] \in Pcbs /\ as[i] \in x.ready
      /\ x.ready \subseteq Pcbs /\ \A b \in x.ready : \E i \in 1 .. n : as[i] = b
    BY <1>1 DEF Ready, FitBut, IsServer
<1>7. r[n] = y
    BY <1>2 DEF ProbesAll
<1> HIDE DEF as, y
<1>8. Left(0) = x.ready /\ Left(n) = {}
  <2>1. 1 .. 0 = {}
      OBVIOUS
  <2>2. Left(0) = x.ready
      BY <2>1
  <2>3. \A c \in x.ready : c \notin Left(n)
      BY <1>3
  <2> QED
      BY <2>2, <2>3
<1>9. ASSUME NEW i \in 1 .. n, NEW c \in Left(i - 1), c # as[i] PROVE c \in Left(i)
  <2>1. \A j \in 1 .. i : j \in 1 .. i - 1 \/ j = i
      OBVIOUS
  <2> QED
      BY <1>9, <2>1
<1> HIDE DEF Left
<1> DEFINE Has(i) == FitBut(r[i], L, w, bad, Left(i)) /\ Stays(x, r[i])
<1>4. Has(0)
    BY <1>2, <1>8, KeepsSelf DEF ProbesAll, FitBut
<1>5. ASSUME NEW i \in 1 .. n, Has(i - 1) PROVE Has(i)
  <2> DEFINE z == r[i - 1]
             b == as[i]
             B == Left(i - 1) \cup {b}
             z1 == IF clear THEN ClearPcb(z, b) ELSE z
  <2>1. r[i] = InitPcbProbe(z1, b, services, probe_ip)
      BY <1>2 DEF ProbesAll
  <2>2. FitBut(z, L, w, bad, Left(i - 1)) /\ Stays(x, z)
      BY <1>5
  <2>3. b \in B /\ b \in Pcbs /\ b \in x.ready
      BY <1>3
  <2>4. \A c \in Pcbs : c \in Left(i - 1) => c \in B
      OBVIOUS
  <2>5. \A c \in B : c \in Left(i) \/ c = b
      BY <1>9
  <2> HIDE DEF z, b, B
  <2>6. FitBut(z, L, w, bad, B)
      BY <2>2, <2>4, FitLess
  <2>7. FitBut(z1, L, w, bad, B) /\ Stays(x, z1)
    <3>1. CASE clear
        BY <2>2, <2>3, <2>6, <3>1, ClearPcbIs, StaysOn
    <3>2. CASE ~clear
        BY <2>2, <2>6, <3>2
    <3> QED
        BY <3>1, <3>2
  <2> HIDE DEF z1
  <2>8. b \in z1.ready
      BY <2>3, <2>7 DEF Stays
  <2>9. FitBut(r[i], L, w, bad, B) /\ Covered(r[i], b) /\ Stays(z1, r[i])
      BY <2>1, <2>3, <2>7, <2>8, InitPcbProbeOpen
  <2>10. \A c \in Pcbs : c \in B => c \in Left(i) \/ Covered(r[i], c)
      BY <2>5, <2>9
  <2>11. FitBut(r[i], L, w, bad, Left(i))
      BY <2>9, <2>10, FitLess
  <2> QED
      BY <2>7, <2>9, <2>11, StaysOn
<1> HIDE DEF Has
<1>6. Has(n)
  <2> DEFINE T == {i \in 0 .. n : Has(i)}
  <2>1. 0 \in T
      BY <1>4
  <2>2. \A i \in 1 .. n : i - 1 \in T => i \in T
    <3>1. \A i \in 1 .. n : i \in 0 .. n
        OBVIOUS
    <3> QED
        BY <1>5, <3>1
  <2> HIDE DEF T
  <2>3. n \in T
      BY <2>1, <2>2, UpTo
  <2> QED
      BY <2>3 DEF T
<1>10. FitBut(y, L, w, bad, {}) /\ Stays(x, y)
    BY <1>6, <1>7, <1>8 DEF Has
<1> QED
    BY <1>0, <1>10 DEF Fit, FitBut

\* All pcbs that have a socket probe.
LEMMA ProbeAllPcbsIs ==
    ASSUME NEW x, NEW L, NEW w, NEW bad, Fit(x, L, w, bad),
           NEW services, IsList(services), Range(services) \subseteq L, NEW probe_ip, NEW clear,
           services # <<>> \/ probe_ip
    PROVE  LET y == ProbeAllPcbs(x, services, probe_ip, clear)
           IN  Fit(y, L, w, bad) /\ Stays(x, y)
<1> FitBut(x, L, w, bad, x.ready)
    BY DEF Fit, FitBut
<1> QED
    BY ProbeAllPcbsOpen

\* What a pcb sends next is extended by announcements; it announces from the start.
LEMMA AppendAnnouncementIs ==
    ASSUME NEW x, NEW L, NEW w, NEW bad, NEW b \in Pcbs, Fit(x, L, w, bad), IsAnnouncing(x, b),
           NEW services, IsList(services), Range(services) \subseteq L, NEW include_ip
    PROVE  LET y == AppendAnnouncement(x, b, services, include_ip)
           IN  Fit(y, L, w, bad) /\ Stays(x, y)
<1> DEFINE t == x.tx
           n == Len(t)
           k == NextPacket(x, b)
           l == AnnounceServices(t[k].answers, services)
           A == IF include_ip THEN AppendHostListInServices(x, l, services, TRUE, FALSE) ELSE l
           D == IF include_ip THEN DeallocAnswer(t[k].additional, "A", None) ELSE t[k].additional
           p == [t[k] EXCEPT !.answers = A]
           q == [p EXCEPT !.additional = D]
           r == [x.pcb[b] EXCEPT !.state = Announce1]
           y == [x EXCEPT !.pcb[b].state = Announce1, !.tx[k].answers = A,
                          !.tx[k].additional = IF include_ip THEN DeallocAnswer(@, "A", None) ELSE @]
<1>0. AppendAnnouncement(x, b, services, include_ip) = IF k = 0 THEN x ELSE y
    BY DEF AppendAnnouncement
<1>1. /\ IsServer(x) /\ IsList(t) /\ Refs(x, L) /\ QueueFits(t, w, bad) /\ IsPcb(x.pcb[b])
      /\ DOMAIN x = ServerFields /\ DOMAIN x.pcb = Pcbs /\ x.ready \subseteq Pcbs
    BY DEF Fit, IsServer
<1>2. n \in Nat /\ DOMAIN t = 1 .. n
    BY <1>1, ListIs
<1>3. k = 0 \/ k \in DOMAIN t
  <2> DEFINE I == {i \in 1 .. n : t[i].pcb = b}
  <2>1. k = IF I # {} THEN Min(I) ELSE 0
      BY DEF NextPacket, SelectInSeq
  <2>2. I \in SUBSET (1 .. n)
      OBVIOUS
  <2> HIDE DEF I, k
  <2> QED
      BY <1>2, <2>1, <2>2, MinIn
<1>4. CASE k = 0
    BY <1>0, <1>1, <1>4, KeepsSelf
<1>5. CASE k \in DOMAIN t /\ k # 0
  <2>1. PacketFits(t[k], L)
      BY <1>1, <1>5 DEF Refs
  <2>2. Refers(l, L)
    <3>1. Refers(t[k].answers, L)
        BY <2>1 DEF PacketFits
    <3> QED
        BY <3>1, AnnounceServicesIs
  <2> HIDE DEF l, k
  <2>3. Refers(A, L) /\ Refers(D, L)
    <3>1. Refers(t[k].additional, L)
        BY <2>1 DEF PacketFits
    <3> QED
        BY <2>2, <3>1, AppendHostListInServicesIs, DeallocAnswerIs
  <2>4. /\ DOMAIN y = ServerFields /\ y.svc = x.svc /\ y.host = x.host /\ y.srvs = x.srvs /\ y.hosts = x.hosts
        /\ y.twin = x.twin /\ y.up = x.up /\ y.ready = x.ready
        /\ DOMAIN y.pcb = Pcbs /\ y.pcb[b] = r
        /\ \A c \in Pcbs : c # b => y.pcb[c] = x.pcb[c]
    <3> HIDE DEF A, t
    <3> QED
        BY <1>1 DEF ServerFields
  <2>5. /\ DOMAIN y.tx = DOMAIN t /\ y.tx[k] = q
        /\ \A i \in DOMAIN t : i # k => y.tx[i] = t[i]
    <3>1. y.tx = [[t EXCEPT ![k].answers = A] EXCEPT ![k].additional = D]
      <4> HIDE DEF A
      <4> QED
          BY <1>1 DEF ServerFields
    <3> HIDE DEF y
    <3>2. DOMAIN t[k] = PacketFields
        BY <2>1 DEF PacketFits, IsPacket
    <3> HIDE DEF A, t
    <3> QED
        BY <1>5, <3>1, <3>2 DEF PacketFields
  <2> HIDE DEF y
  <2>6. /\ DOMAIN q = PacketFields /\ q.id = t[k].id /\ q.pcb = t[k].pcb /\ q.at = t[k].at
        /\ q.servers = t[k].servers /\ q.queued = t[k].queued /\ q.answers = A /\ q.additional = D
        /\ q.qs = t[k].qs
    <3>1. DOMAIN t[k] = PacketFields
        BY <2>1 DEF PacketFits, IsPacket
    <3> HIDE DEF A, D
    <3> QED
        BY <3>1 DEF PacketFields
  <2> HIDE DEF q, A, D
  <2>7. PacketFits(q, L) /\ (IsQueued(q) <=> IsQueued(t[k]))
    <3>1. IsQueued(q) <=> IsQueued(t[k])
        BY <2>6 DEF IsQueued
    <3>2. IsPacket(q)
        BY <2>1, <2>6 DEF PacketFits, IsPacket
    <3> QED
        BY <2>1, <2>3, <2>6, <3>1, <3>2 DEF PacketFits
  <2>8. \A i \in DOMAIN t : /\ y.tx[i].id = t[i].id /\ (IsQueued(y.tx[i]) <=> IsQueued(t[i]))
                            /\ y.tx[i].at = t[i].at /\ PacketFits(y.tx[i], L)
                            /\ y.tx[i].pcb = t[i].pcb /\ y.tx[i].servers = t[i].servers
                            /\ y.tx[i].qs = t[i].qs
      BY <1>1, <2>5, <2>6, <2>7 DEF Refs
  <2>9. IsList(y.tx)
    <3>1. y.tx = [i \in 1 .. n |-> y.tx[i]]
      <4>1. y.tx = [[t EXCEPT ![k].answers = A] EXCEPT ![k].additional = D]
        <5> HIDE DEF A
        <5> QED
            BY <1>1 DEF ServerFields, y
      <4> QED
          BY <1>2, <4>1
    <3> QED
        BY <1>2, <2>5, <3>1, ListOf
  <2>10. QueueFits(y.tx, w, bad)
      BY <1>1, <2>5, <2>8, <2>9, SamePlacesThin, ThinnedFits
  <2> DEFINE z == SetPcbState(x, b, Announce1)
  <2>11. /\ AlikeBut(x, z, b) /\ z.svc = x.svc /\ z.ready = x.ready /\ IsPcb(z.pcb[b]) /\ z.pcb[b] = r
         /\ z.pcb[b].services = x.pcb[b].services /\ z.pcb[b].state = Announce1
    <3>1. Announce1 \in Off .. Running
        BY DEF Announce1, Off, Running
    <3>2. z.pcb[b] = r
        BY <1>1 DEF SetPcbState, ServerFields
    <3> HIDE DEF z
    <3> QED
        BY <1>1, <3>1, <3>2, SetPcbStateIs DEF z
  <2> HIDE DEF z, r
  <2>12. FitBut(z, L, w, bad, {b})
      BY <1>1, <2>11, FitBy, FitAlikeBut DEF Refs
  <2>13. Keeps(z, y) /\ y.pcb = z.pcb /\ y.ready = z.ready
    <3>1. y.pcb = z.pcb
      <4>1. y.pcb = [x.pcb EXCEPT ![b].state = Announce1]
          BY <1>1 DEF ServerFields, y
      <4>2. z.pcb = [x.pcb EXCEPT ![b].state = Announce1]
          BY <1>1 DEF ServerFields, z, SetPcbState
      <4> QED
          BY <4>1, <4>2
    <3> QED
        BY <2>4, <2>11, <3>1 DEF AlikeBut, Keeps, SameTypes
  <2>14. \A c \in Pcbs : Saves(z.tx, y.tx, c)
    <3>1. z.tx = t
        BY <2>11 DEF AlikeBut
    <3> QED
        BY <2>5, <2>8, <3>1 DEF Saves, Alone
  <2>15. FitBut(y, L, w, bad, {b})
      BY <2>5, <2>8, <2>9, <2>10, <2>12, <2>13, <2>14, FitTx
  <2>16. Covered(y, b)
    <3>1. x.pcb[b].state \notin Probe1 .. Probe3
        BY DEF IsAnnouncing, Announce1, Announce3, Probe1, Probe3
    <3>2. x.pcb[b].services = <<>> /\ AllPlain(t, b)
        BY <3>1 DEF Fit, Covered, CoveredBy, Probing
    <3>4. AllPlain(y.tx, b)
        BY <2>5, <2>8, <3>2 DEF AllPlain, Plain
    <3>3. ~Probing(y.pcb[b])
        BY <2>11, <2>13 DEF Probing, Announce1, Probe1, Probe3
    <3> QED
        BY <2>11, <2>13, <3>2, <3>3, <3>4 DEF Covered, CoveredBy
  <2> QED
      BY <1>0, <1>5, <2>4, <2>15, <2>16, FitBy DEF Keeps, SameTypes, Stays, k
<1> QED
    BY <1>3, <1>4, <1>5

-----------------------------------------------------------------------------
(* Announcements, goodbyes, and interfaces that come and go.                 *)

\* A pcb announces services; one that probes starts over, one that is off does nothing.
LEMMA PcbAnnounceIs ==
    ASSUME NEW x, NEW L, NEW w, NEW bad, NEW b \in Pcbs, Fit(x, L, w, bad),
           NEW services, IsList(services), Range(services) \subseteq L, NEW include_ip,
           services # <<>> \/ include_ip
    PROVE  LET y == PcbAnnounce(x, b, services, include_ip)
           IN  Fit(y, L, w, bad) /\ Stays(x, y)
<1> DEFINE probe == InitPcbProbe(x, b, services, include_ip)
           more == AppendAnnouncement(x, b, services, include_ip)
           x1 == SetPcbState(x, b, Announce1)
           p == CreateAnnouncePacket(x, b, services, include_ip)
           new == SendAfter(x1, p, Now)
           y == PcbAnnounce(x, b, services, include_ip)
<1>1. \/ y = x
      \/ b \in x.ready /\ y = probe
      \/ IsAnnouncing(x, b) /\ y = more
      \/ x.pcb[b].state = Running /\ y = new
  <2> HIDE DEF probe, more, new
  <2>1. CASE ~Ready(x, b)
      BY <2>1 DEF PcbAnnounce
  <2>2. CASE Ready(x, b) /\ IsProbing(x, b)
      BY <2>2 DEF PcbAnnounce, Ready, probe, IsProbing, IsAnnouncing, Probe3, Dup, Announce1, Announce3, Running
  <2>3. CASE Ready(x, b) /\ ~IsProbing(x, b) /\ IsAnnouncing(x, b)
      BY <2>3 DEF PcbAnnounce, more, IsAnnouncing, Announce1, Announce3, Running
  <2>4. CASE Ready(x, b) /\ ~IsProbing(x, b) /\ ~IsAnnouncing(x, b)
      BY <2>4 DEF PcbAnnounce, new, x1, p
  <2> QED
      BY <2>1, <2>2, <2>3, <2>4
<1> SUFFICES Fit(y, L, w, bad) /\ Stays(x, y)
    BY DEF y
<1> HIDE DEF y
<1>2. IsServer(x) /\ FitBut(x, L, w, bad, {b})
    BY FitBy DEF Fit
<1>3. Stays(x, x)
    BY <1>2, KeepsSelf
<1>4. CASE b \in x.ready /\ y = probe
    BY <1>2, <1>4, InitPcbProbeIs
<1>5. CASE IsAnnouncing(x, b) /\ y = more
    BY <1>5, AppendAnnouncementIs
<1>6. CASE x.pcb[b].state = Running /\ y = new
  <2>1. Announce1 \in Off .. Running
      BY DEF Announce1, Off, Running
  <2>2. /\ AlikeBut(x, x1, b) /\ x1.ready = x.ready /\ IsPcb(x1.pcb[b])
        /\ x1.pcb[b].services = x.pcb[b].services /\ x1.pcb[b].state = Announce1
      BY <1>2, <2>1, SetPcbStateIs
  <2> HIDE DEF x1
  <2>3. x.pcb[b].services = <<>> /\ AllPlain(x.tx, b)
      BY <1>6 DEF Fit, Covered, CoveredBy, Probing, Running, Probe1, Probe3
  <2>4. FitBut(x1, L, w, bad, {b})
    <3>1. Range(x1.pcb[b].services) \subseteq L
        BY <2>2 DEF Fit, Refs
    <3> QED
        BY <1>2, <2>2, <3>1, FitAlikeBut
  <2>5. PacketFits(p, L) /\ IsNew(p, x, b) /\ Plain(p)
    <3>1. IsList(x.tx)
        BY <1>2 DEF IsServer
    <3> QED
        BY <3>1, CreateAnnouncePacketIs DEF Plain
  <2> HIDE DEF p
  <2>6. ~IsQueued(p) /\ p.id \notin LiveIds(x1) /\ Keeps(x, x1) /\ Now \in Nat
        /\ p.pcb \in {b}
      BY <2>2, <2>5 DEF IsNew, IsQueued, LiveIds, AlikeBut, Now
  <2>7. FitBut(new, L, w, bad, {b}) /\ Keeps(x1, new) /\ new.pcb = x1.pcb /\ new.ready = x1.ready
       /\ (Plain(p) /\ AllPlain(x1.tx, p.pcb) => AllPlain(new.tx, p.pcb))
      BY <2>4, <2>5, <2>6, SendAfterIs
  <2> HIDE DEF new
  <2>11. AllPlain(new.tx, b)
      BY <2>2, <2>3, <2>5, <2>6, <2>7 DEF AlikeBut
  <2>8. Covered(new, b)
      BY <2>2, <2>3, <2>7, <2>11 DEF Covered, CoveredBy, Probing, Announce1, Probe1, Probe3
  <2>9. Fit(new, L, w, bad)
      BY <2>7, <2>8, FitBy
  <2>10. Keeps(x, new)
      BY <2>6, <2>7, KeepsOn
  <2> QED
      BY <1>6, <2>2, <2>7, <2>9, <2>10 DEF Stays
<1> QED
    BY <1>1, <1>3, <1>4, <1>5, <1>6

\* The pcbs announce one after the other.
AnnouncesAll(r, n, x, services, include_ip, as) ==
    /\ r[0] = x /\ r[n] = FoldLeft(LAMBDA z, b : PcbAnnounce(z, b, services, include_ip), x, as)
    /\ \A i \in 1 .. n : r[i] = PcbAnnounce(r[i - 1], as[i], services, include_ip)

\* The fold takes these steps.
LEMMA AnnounceAllPcbsFold ==
    ASSUME NEW x, NEW services, NEW include_ip, NEW as,
           NEW n \in Nat, DOMAIN as = 1 .. n
    PROVE  \E r : AnnouncesAll(r, n, x, services, include_ip, as)
<1> DEFINE Op(y, i) == PcbAnnounce(y, as[i], services, include_ip)
           After(g, s) == IF s = {} THEN x ELSE Op(g[s \ {Max(s)}], Max(s))
           Is(k, g) == g = [s \in SUBSET (1 .. k) |-> After(g, s)]
           fold == CHOOSE g : Is(n, g)
           T == {k \in 0 .. n : \E g : Is(k, g)}
<1>1. FoldLeft(LAMBDA z, b : PcbAnnounce(z, b, services, include_ip), x, as) = fold[1 .. n]
    BY DEF FoldLeft, MapThenFoldSet
<1> HIDE DEF Op
<1>2. Is(0, [s \in SUBSET (1 .. 0) |-> x])
    OBVIOUS
<1>3. ASSUME NEW k \in 0 .. n - 1, NEW g, Is(k, g) PROVE \E h : Is(k + 1, h)
  <2> DEFINE h == [s \in SUBSET (1 .. k + 1) |->
                     IF k + 1 \in s THEN Op(g[s \ {k + 1}], k + 1) ELSE g[s]]
  <2>0. \A s \in SUBSET (1 .. k) : g[s] = After(g, s)
      BY <1>3
  <2>1. /\ \A s \in SUBSET (1 .. k) : h[s] = g[s]
        /\ \A s \in SUBSET (1 .. k + 1) : k + 1 \in s => h[s] = Op(g[s \ {k + 1}], k + 1)
        /\ h = [s \in SUBSET (1 .. k + 1) |-> h[s]]
      OBVIOUS
  <2> HIDE DEF h
  <2>2. \A s \in SUBSET (1 .. k + 1) : h[s] = After(h, s)
      BY k \in Nat, <2>0, <2>1, PlacesUpTo
  <2> QED
      BY <2>1, <2>2
<1>4. Is(n, fold)
  <2> HIDE DEF Is
  <2>1. 0 \in T /\ \A k \in 0 .. n - 1 : k \in T => k + 1 \in T
      BY <1>2, <1>3
  <2> HIDE DEF T
  <2>2. 0 .. n \subseteq T
      BY <2>1, UpFromZero
  <2> QED
      BY <2>2 DEF T
<1> HIDE DEF fold
<1> DEFINE r == [i \in 0 .. n |-> fold[1 .. i]]
<1>5. r[0] = x /\ r[n] = fold[1 .. n]
  <2>1. 1 .. 0 = {} /\ r[0] = fold[1 .. 0] /\ r[n] = fold[1 .. n]
      OBVIOUS
  <2>2. fold[{}] = x
      BY <1>4
  <2> QED
      BY <2>1, <2>2
<1>6. ASSUME NEW i \in 1 .. n PROVE r[i] = Op(r[i - 1], i)
  <2>1. r[i] = fold[1 .. i] /\ r[i - 1] = fold[1 .. i - 1]
      OBVIOUS
  <2>2. fold[1 .. i] = Op(fold[(1 .. i) \ {Max(1 .. i)}], Max(1 .. i))
      BY <1>4, PlacesBefore
  <2> HIDE DEF r
  <2> QED
      BY <2>1, <2>2, PlacesBefore
<1> HIDE DEF r
<1>7. AnnouncesAll(r, n, x, services, include_ip, as)
    BY <1>1, <1>5, <1>6 DEF Op, AnnouncesAll
<1> QED
    BY <1>7

\* All pcbs announce.
LEMMA AnnounceAllPcbsIs ==
    ASSUME NEW x, NEW L, NEW w, NEW bad, Fit(x, L, w, bad),
           NEW services, IsList(services), Range(services) \subseteq L, NEW include_ip,
           services # <<>> \/ include_ip
    PROVE  LET y == AnnounceAllPcbs(x, services, include_ip)
           IN  Fit(y, L, w, bad) /\ Stays(x, y)
<1> DEFINE P == {b \in Pcbs : TRUE}
           as == SetToSeq(P)
           y == FoldLeft(LAMBDA z, b : PcbAnnounce(z, b, services, include_ip), x, as)
<1>0. AnnounceAllPcbs(x, services, include_ip) = y
    BY DEF AnnounceAllPcbs, OnPcbs
<1>1. PICK n \in Nat : DOMAIN as = 1 .. n /\ \A i \in 1 .. n : as[i] \in P
    BY SomePcbs
<1>2. PICK r : AnnouncesAll(r, n, x, services, include_ip, as)
    BY <1>1, AnnounceAllPcbsFold
<1>3. \A i \in 1 .. n : as[i] \in Pcbs
    BY <1>1
<1>7. r[n] = y
    BY <1>2 DEF AnnouncesAll
<1> HIDE DEF as, y
<1> DEFINE Has(i) == Fit(r[i], L, w, bad) /\ Stays(x, r[i])
<1>4. Has(0)
    BY <1>2, KeepsSelf DEF AnnouncesAll, Fit
<1>5. ASSUME NEW i \in 1 .. n, Has(i - 1) PROVE Has(i)
  <2> DEFINE z == r[i - 1]
             b == as[i]
             u == PcbAnnounce(z, b, services, include_ip)
  <2>1. r[i] = u
      BY <1>2 DEF AnnouncesAll
  <2>2. Fit(z, L, w, bad) /\ Stays(x, z) /\ b \in Pcbs
      BY <1>3, <1>5
  <2>3. Fit(u, L, w, bad) /\ Stays(z, u)
    <3> HIDE DEF z, b
    <3> QED
        BY <2>2, PcbAnnounceIs
  <2> HIDE DEF z, u
  <2> QED
      BY <2>1, <2>2, <2>3, StaysOn
<1> HIDE DEF Has
<1>6. Has(n)
  <2> DEFINE T == {i \in 0 .. n : Has(i)}
  <2>1. 0 \in T
      BY <1>4
  <2>2. \A i \in 1 .. n : i - 1 \in T => i \in T
    <3>1. \A i \in 1 .. n : i \in 0 .. n
        OBVIOUS
    <3> QED
        BY <1>5, <3>1
  <2> HIDE DEF T
  <2>3. n \in T
      BY <2>1, <2>2, UpTo
  <2> QED
      BY <2>3 DEF T
<1> QED
    BY <1>0, <1>6, <1>7 DEF Has

\* What is put on the wire changes nothing else.
LEMMA DispatchIs ==
    ASSUME NEW x, IsServer(x), NEW p
    PROVE  Alike(x, Dispatch(x, p))
<1> DEFINE read == Reads(x, \E q \in Range(p.qs) : q.of = Freed)
<1>1. Alike(x, read)
    BY FieldsSet DEF Reads
<1>2. IsServer(read)
    BY <1>1 DEF IsServer, Alike, Keeps, SameTypes
<1> HIDE DEF read
<1>3. \A v : Alike(read, [read EXCEPT !.out = v])
    BY <1>2, FieldsSet
<1>4. \A v : Alike(x, [read EXCEPT !.out = v])
    BY <1>1, <1>3, KeepsOn DEF Alike
<1> QED
    BY <1>1, <1>4 DEF Dispatch, read

\* A goodbye is put on the wire at once.
LEMMA SendByeIs ==
    ASSUME NEW x, NEW L, NEW w, NEW bad, Fit(x, L, w, bad), NEW b, NEW services, NEW include_ip
    PROVE  LET y == SendBye(x, b, services, include_ip)
           IN  Fit(y, L, w, bad) /\ Stays(x, y)
<1> DEFINE y == SendBye(x, b, services, include_ip)
<1>1. Alike(x, y)
    BY DispatchIs DEF SendBye, Fit
<1> HIDE DEF y
<1> QED
    BY <1>1, FitAlike DEF Alike, Stays, y

\* The pcbs say goodbye one after the other.
ByesAll(r, n, x, services, include_ip, as) ==
    /\ r[0] = x /\ r[n] = FoldLeft(LAMBDA z, b : SendBye(z, b, services, include_ip), x, as)
    /\ \A i \in 1 .. n : r[i] = SendBye(r[i - 1], as[i], services, include_ip)

\* The fold takes these steps.
LEMMA SendByeServiceFold ==
    ASSUME NEW x, NEW services, NEW include_ip, NEW as,
           NEW n \in Nat, DOMAIN as = 1 .. n
    PROVE  \E r : ByesAll(r, n, x, services, include_ip, as)
<1> DEFINE Op(y, i) == SendBye(y, as[i], services, include_ip)
           After(g, s) == IF s = {} THEN x ELSE Op(g[s \ {Max(s)}], Max(s))
           Is(k, g) == g = [s \in SUBSET (1 .. k) |-> After(g, s)]
           fold == CHOOSE g : Is(n, g)
           T == {k \in 0 .. n : \E g : Is(k, g)}
<1>1. FoldLeft(LAMBDA z, b : SendBye(z, b, services, include_ip), x, as) = fold[1 .. n]
    BY DEF FoldLeft, MapThenFoldSet
<1> HIDE DEF Op
<1>2. Is(0, [s \in SUBSET (1 .. 0) |-> x])
    OBVIOUS
<1>3. ASSUME NEW k \in 0 .. n - 1, NEW g, Is(k, g) PROVE \E h : Is(k + 1, h)
  <2> DEFINE h == [s \in SUBSET (1 .. k + 1) |->
                     IF k + 1 \in s THEN Op(g[s \ {k + 1}], k + 1) ELSE g[s]]
  <2>0. \A s \in SUBSET (1 .. k) : g[s] = After(g, s)
      BY <1>3
  <2>1. /\ \A s \in SUBSET (1 .. k) : h[s] = g[s]
        /\ \A s \in SUBSET (1 .. k + 1) : k + 1 \in s => h[s] = Op(g[s \ {k + 1}], k + 1)
        /\ h = [s \in SUBSET (1 .. k + 1) |-> h[s]]
      OBVIOUS
  <2> HIDE DEF h
  <2>2. \A s \in SUBSET (1 .. k + 1) : h[s] = After(h, s)
      BY k \in Nat, <2>0, <2>1, PlacesUpTo
  <2> QED
      BY <2>1, <2>2
<1>4. Is(n, fold)
  <2> HIDE DEF Is
  <2>1. 0 \in T /\ \A k \in 0 .. n - 1 : k \in T => k + 1 \in T
      BY <1>2, <1>3
  <2> HIDE DEF T
  <2>2. 0 .. n \subseteq T
      BY <2>1, UpFromZero
  <2> QED
      BY <2>2 DEF T
<1> HIDE DEF fold
<1> DEFINE r == [i \in 0 .. n |-> fold[1 .. i]]
<1>5. r[0] = x /\ r[n] = fold[1 .. n]
  <2>1. 1 .. 0 = {} /\ r[0] = fold[1 .. 0] /\ r[n] = fold[1 .. n]
      OBVIOUS
  <2>2. fold[{}] = x
      BY <1>4
  <2> QED
      BY <2>1, <2>2
<1>6. ASSUME NEW i \in 1 .. n PROVE r[i] = Op(r[i - 1], i)
  <2>1. r[i] = fold[1 .. i] /\ r[i - 1] = fold[1 .. i - 1]
      OBVIOUS
  <2>2. fold[1 .. i] = Op(fold[(1 .. i) \ {Max(1 .. i)}], Max(1 .. i))
      BY <1>4, PlacesBefore
  <2> HIDE DEF r
  <2> QED
      BY <2>1, <2>2, PlacesBefore
<1> HIDE DEF r
<1>7. ByesAll(r, n, x, services, include_ip, as)
    BY <1>1, <1>5, <1>6 DEF Op, ByesAll
<1> QED
    BY <1>7

\* The pcbs that run say goodbye.
LEMMA SendByeServiceIs ==
    ASSUME NEW x, NEW L, NEW w, NEW bad, Fit(x, L, w, bad),
           NEW services, NEW include_ip
    PROVE  LET y == SendByeService(x, services, include_ip)
           IN  Fit(y, L, w, bad) /\ Stays(x, y)
<1> DEFINE P == {b \in Pcbs : Ready(x, b) /\ x.pcb[b].state = Running}
           as == SetToSeq(P)
           y == FoldLeft(LAMBDA z, b : SendBye(z, b, services, include_ip), x, as)
<1>0. SendByeService(x, services, include_ip) = IF x.host = None THEN x ELSE y
    BY DEF SendByeService, OnPcbs
<1>1. PICK n \in Nat : DOMAIN as = 1 .. n /\ \A i \in 1 .. n : as[i] \in P
    BY SomePcbs
<1>2. PICK r : ByesAll(r, n, x, services, include_ip, as)
    BY <1>1, SendByeServiceFold
<1>3. \A i \in 1 .. n : as[i] \in Pcbs
    BY <1>1
<1>7. r[n] = y
    BY <1>2 DEF ByesAll
<1> HIDE DEF as, y
<1> DEFINE Has(i) == Fit(r[i], L, w, bad) /\ Stays(x, r[i])
<1>4. Has(0)
    BY <1>2, KeepsSelf DEF ByesAll, Fit
<1>5. ASSUME NEW i \in 1 .. n, Has(i - 1) PROVE Has(i)
  <2> DEFINE z == r[i - 1]
  <2>1. r[i] = SendBye(z, as[i], services, include_ip)
      BY <1>2 DEF ByesAll
  <2>2. Fit(z, L, w, bad) /\ Stays(x, z) /\ as[i] \in Pcbs
      BY <1>3, <1>5
  <2> HIDE DEF z
  <2>3. Fit(r[i], L, w, bad) /\ Stays(z, r[i])
      BY <2>1, <2>2, SendByeIs
  <2> QED
      BY <2>2, <2>3, StaysOn
<1> HIDE DEF Has
<1>6. Has(n)
  <2> DEFINE T == {i \in 0 .. n : Has(i)}
  <2>1. 0 \in T
      BY <1>4
  <2>2. \A i \in 1 .. n : i - 1 \in T => i \in T
    <3>1. \A i \in 1 .. n : i \in 0 .. n
        OBVIOUS
    <3> QED
        BY <1>5, <3>1
  <2> HIDE DEF T
  <2>3. n \in T
      BY <2>1, <2>2, UpTo
  <2> QED
      BY <2>3 DEF T
<1>8. Stays(x, x)
    BY KeepsSelf DEF Fit
<1> QED
    BY <1>0, <1>6, <1>7, <1>8 DEF Has

\* The goodbye of subtypes too.
LEMMA SendByeSubtypeIs ==
    ASSUME NEW x, IsServer(x), NEW s, NEW inst, NEW subs
    PROVE  Alike(x, SendByeSubtype(x, s, inst, subs))
<1>1. \A v : Alike(x, [x EXCEPT !.out = v])
    BY FieldsSet
<1> QED
    BY <1>1 DEF SendByeSubtype

\* A pcb that is not probing, for nothing, is covered.
LEMMA NothingCovers ==
    ASSUME NEW x, NEW b, x.pcb[b].services = <<>>, ~Probing(x.pcb[b]), AllPlain(x.tx, b)
    PROVE  Covered(x, b)
BY DEF Covered, CoveredBy

\* A pcb that is not probing is set to a state in which it is not probing either.
LEMMA FitState ==
    ASSUME NEW x, NEW L, NEW w, NEW bad, NEW b \in Pcbs, Fit(x, L, w, bad),
           b \notin x.ready \/ x.pcb[b].state \notin Probe1 .. Probe3,
           NEW s \in Off .. Running, s \notin Probe1 .. Probe3
    PROVE  LET y == SetPcbState(x, b, s)
           IN  Fit(y, L, w, bad) /\ Stays(x, y)
<1> DEFINE y == SetPcbState(x, b, s)
<1>1. IsServer(x) /\ FitBut(x, L, w, bad, {b}) /\ x.pcb[b].services = <<>> /\ AllPlain(x.tx, b)
    BY FitBy DEF Fit, Covered, CoveredBy, Probing
<1>2. /\ AlikeBut(x, y, b) /\ y.ready = x.ready /\ IsPcb(y.pcb[b])
      /\ y.pcb[b].services = x.pcb[b].services /\ y.pcb[b].state = s
    BY <1>1, SetPcbStateIs
<1> HIDE DEF y
<1>3. Range(y.pcb[b].services) \subseteq L /\ ~Probing(y.pcb[b])
    BY <1>2 DEF Fit, Refs, Probing
<1>4. FitBut(y, L, w, bad, {b}) /\ Covered(y, b)
    BY <1>1, <1>2, <1>3, FitAlikeBut, NothingCovers DEF AlikeBut
<1>5. Fit(y, L, w, bad)
    BY <1>4, FitBy
<1>6. Stays(x, y)
    BY <1>2 DEF AlikeBut, Stays
<1> QED
    BY <1>5, <1>6 DEF y

\* A pcb is enabled: it gets its socket when the interface is up, and probes again.
LEMMA PcbEnableIs ==
    ASSUME NEW x, NEW L, NEW w, NEW bad, NEW b \in Pcbs, Fit(x, L, w, bad),
           Range(x.srvs) \subseteq L
    PROVE  LET y == PcbEnable(x, b)
           IN  Fit(y, L, w, bad) /\ Keeps(x, y)
<1> DEFINE x1 == IfInit(x, b)
           probe == InitPcbProbe(x, b, x.srvs, TRUE)
           begin == InitPcbProbe(x1, b, x1.srvs, TRUE)
           r == [x.pcb[b] EXCEPT !.failed = 0]
           fresh == [x EXCEPT !.pcb = [@ EXCEPT ![b] = r]]
           y == PcbEnable(x, b)
<1>1. \/ b \in x.ready /\ y = probe
      \/ y = begin
      \/ y = fresh
    BY DEF PcbEnable, RestartPcb, Ready
<1> SUFFICES Fit(y, L, w, bad) /\ Keeps(x, y)
    BY DEF y
<1> HIDE DEF y
<1>2. /\ IsServer(x) /\ FitBut(x, L, w, bad, {b}) /\ Covered(x, b) /\ IsPcb(x.pcb[b])
      /\ Range(x.pcb[b].services) \subseteq L
    BY FitBy DEF Fit, IsServer, Refs
<1>3. CASE b \in x.ready /\ y = probe
  <2>1. IsList(x.srvs)
      BY <1>2 DEF IsServer
  <2> QED
      BY <1>2, <1>3, <2>1, InitPcbProbeIs DEF Stays
<1>4. CASE y = begin
  <2>1. AlikeBut(x, x1, b) /\ x1.pcb = x.pcb /\ b \in x1.ready
    <3>1. DOMAIN x = ServerFields /\ DOMAIN x.pcb = Pcbs /\ x.ready \subseteq Pcbs
        BY <1>2 DEF IsServer
    <3>2. Keeps(x, x1) /\ x1.tx = x.tx /\ x1.pcb = x.pcb /\ x1.ready = x.ready \cup {b}
        BY <3>1 DEF IfInit, Keeps, ServerFields, SameTypes
    <3> HIDE DEF x1
    <3> QED
        BY <3>1, <3>2 DEF AlikeBut
  <2> HIDE DEF x1
  <2>2. FitBut(x1, L, w, bad, {b})
      BY <1>2, <2>1, FitAlikeBut
  <2>3. Keeps(x, x1) /\ IsList(x1.srvs) /\ x1.srvs = x.srvs
      BY <1>2, <2>1 DEF AlikeBut, Keeps, IsServer
  <2>4. Fit(begin, L, w, bad) /\ Stays(x1, begin)
      BY <2>1, <2>2, <2>3, InitPcbProbeIs
  <2> HIDE DEF begin
  <2> QED
      BY <1>4, <2>3, <2>4, KeepsOn DEF Stays
<1>5. CASE y = fresh
  <2>1. IsPcb(r) /\ r.services = x.pcb[b].services /\ r.state = x.pcb[b].state
        /\ r.ip = x.pcb[b].ip
      BY <1>2 DEF IsPcb, PcbFields
  <2> HIDE DEF r
  <2>2. AlikeBut(x, fresh, b) /\ fresh.pcb[b] = r /\ fresh.ready = x.ready /\ fresh.svc = x.svc
      BY <1>2, PcbSet
  <2> HIDE DEF fresh
  <2>3. FitBut(fresh, L, w, bad, {b})
      BY <1>2, <2>1, <2>2, FitAlikeBut
  <2>4. Covered(fresh, b)
    <3>1. \A p : ProbesFor(p, b, x.pcb[b], x.svc, {}) => ProbesFor(p, b, r, x.svc, {})
        BY <2>1 DEF ProbesFor, AsksEnough
    <3>2. Probing(r) <=> Probing(x.pcb[b])
        BY <2>1 DEF Probing
    <3> QED
        BY <1>2, <2>1, <2>2, <3>1, <3>2 DEF Covered, CoveredBy, AlikeBut
  <2> QED
      BY <1>5, <2>2, <2>3, <2>4, FitBy DEF AlikeBut
<1> QED
    BY <1>1, <1>3, <1>4, <1>5

\* A pcb that loses its socket loses its packets and what it probes for.
LEMMA DeinitPcbIs ==
    ASSUME NEW x, NEW L, NEW w, NEW bad, NEW b \in Pcbs, Fit(x, L, w, bad)
    PROVE  LET y == DeinitPcb(ClearTxQueueIf(x, b), b)
           IN  Fit(y, L, w, bad) /\ Keeps(x, y)
<1> DEFINE x1 == ClearTxQueueIf(x, b)
           y == DeinitPcb(x1, b)
<1>1. FitBut(x1, L, w, bad, {b}) /\ Keeps(x, x1) /\ x1.pcb = x.pcb /\ x1.ready = x.ready
      /\ AllPlain(x1.tx, b)
    BY FitBy, ClearTxQueueIfIs
<1> HIDE DEF x1
<1>2. DOMAIN x1 = ServerFields /\ DOMAIN x1.pcb = Pcbs /\ x1.ready \subseteq Pcbs
    BY <1>1 DEF FitBut, IsServer
<1>3. /\ Keeps(x1, y) /\ y.tx = x1.tx /\ y.ready = x1.ready \ {b}
      /\ y.pcb = [x1.pcb EXCEPT ![b] = OffPcb]
    BY <1>2 DEF DeinitPcb, Keeps, ServerFields, SameTypes
<1> HIDE DEF y
<1>4. AlikeBut(x1, y, b) /\ y.pcb[b] = OffPcb
    BY <1>2, <1>3 DEF AlikeBut
<1>5. /\ IsPcb(OffPcb) /\ OffPcb.services = <<>> /\ Range(OffPcb.services) \subseteq L
      /\ ~Probing(OffPcb)
    BY DEF Probing, Probe1, Probe3, OffPcb, IsPcb, PcbFields, Off, Running, IsList, Range
<1>6. FitBut(y, L, w, bad, {b}) /\ Covered(y, b)
    BY <1>1, <1>3, <1>4, <1>5, FitAlikeBut, NothingCovers
<1>7. Fit(y, L, w, bad)
    BY <1>6, FitBy
<1>8. Keeps(x, y)
    BY <1>1, <1>3, KeepsOn
<1> QED
    BY <1>7, <1>8 DEF y, x1

\* A pcb is disabled: when its twin was its duplicate, the twin takes over.
LEMMA PcbDisableIs ==
    ASSUME NEW x, NEW L, NEW w, NEW bad, NEW b \in Pcbs, Fit(x, L, w, bad),
           Range(x.srvs) \subseteq L
    PROVE  LET y == PcbDisable(x, b)
           IN  Fit(y, L, w, bad) /\ Keeps(x, y)
<1> DEFINE other == <<x.twin[b[1]], b[2]>>
           x1 == DeinitPcb(ClearTxQueueIf(x, b), b)
           x2 == SetPcbState(x1, other, Off)
           off == SetPcbState(x, b, Off)
           on == PcbEnable(x2, other)
           y == PcbDisable(x, b)
<1>1. \/ b \notin x.ready /\ y = off
      \/ x.twin[b[1]] # None /\ IsDuplicate(x1, other) /\ y = on
      \/ y = x1
    BY DEF PcbDisable, Ready
<1> SUFFICES Fit(y, L, w, bad) /\ Keeps(x, y)
    BY DEF y
<1> HIDE DEF y
<1>2. Off \in Off .. Running /\ Off \notin Probe1 .. Probe3
    BY DEF Off, Running, Probe1, Probe3
<1>3. CASE b \notin x.ready /\ y = off
  <2> HIDE DEF off
  <2>1. Fit(off, L, w, bad) /\ Stays(x, off)
      BY <1>2, <1>3, FitState DEF off
  <2> QED
      BY <1>3, <2>1 DEF Stays
<1>4. Fit(x1, L, w, bad) /\ Keeps(x, x1)
    BY DeinitPcbIs
<1> HIDE DEF x1
<1>5. CASE x.twin[b[1]] # None /\ IsDuplicate(x1, other) /\ y = on
  <2>1. other \in Pcbs
    <3>1. x.twin \in [Itfs -> Itfs \cup {None}]
        BY DEF Fit, IsServer
    <3> QED
        BY <1>5, <3>1 DEF Pcbs
  <2> HIDE DEF other
  <2>2. x1.pcb[other].state \notin Probe1 .. Probe3
      BY <1>5 DEF IsDuplicate, Dup, Probe1, Probe3
  <2>3. Fit(x2, L, w, bad) /\ Stays(x1, x2)
      BY <1>2, <1>4, <2>1, <2>2, FitState
  <2> HIDE DEF x2
  <2>4. Keeps(x, x2) /\ Range(x2.srvs) \subseteq L
      BY <1>4, <2>3, KeepsOn DEF Stays, Keeps
  <2>5. Fit(on, L, w, bad) /\ Keeps(x2, on)
      BY <2>1, <2>3, <2>4, PcbEnableIs
  <2> HIDE DEF on
  <2> QED
      BY <1>5, <2>4, <2>5, KeepsOn
<1> QED
    BY <1>1, <1>3, <1>4, <1>5

-----------------------------------------------------------------------------
(* A service is about to be freed: nothing may refer to it any more.         *)

\* A pcb that probed as r goes on as q without the service; "questions" says whether it
\* probed for it.
StillProbes(r, q, s, questions) ==
    /\ Probing(r) /\ q.ip = r.ip /\ s \notin Range(q.services)
    /\ \/ ~questions /\ q.services = r.services
       \/ /\ questions
          /\ s \in Range(r.services) /\ Range(q.services) = Range(r.services) \ {s}
          /\ q.services # <<>> \/ q.ip

\* A pcb does not probe for a service any more; it goes on when others are left.
LEMMA CheckProbingServicesIs ==
    ASSUME NEW x, IsServer(x), NEW b \in Pcbs, NEW s, NEW removed,
           x.pcb[b].services # <<>> => Probing(x.pcb[b])
    PROVE  LET c == CheckProbingServices(x, b, s, removed)
               y == c.st
           IN  /\ AlikeBut(x, y, b) /\ y.ready = x.ready /\ IsPcb(y.pcb[b])
               /\ Range(y.pcb[b].services) \subseteq Range(x.pcb[b].services)
               /\ y.pcb[b].services # <<>> => Probing(y.pcb[b])
               /\ Probing(y.pcb[b]) => StillProbes(x.pcb[b], y.pcb[b], s, c.questions)
               /\ Probing(x.pcb[b]) /\ ~Probing(y.pcb[b]) =>
                    c.questions /\ Range(x.pcb[b].services) = {s} /\ ~x.pcb[b].ip
<1> DEFINE p == x.pcb[b]
           rest == Without(p.services, {s})
           done == IsProbing(x, b) /\ rest = <<>> /\ ~p.ip
           state == IF done THEN Running ELSE p.state
           run == p.running /\ ~done
           gone == [x EXCEPT !.pcb[b].services = rest, !.pcb[b].running = run, !.pcb[b].state = state]
           back == SetPcbState(x, b, Running)
           c == CheckProbingServices(x, b, s, removed)
           y == c.st
           asks == c.questions
<1>1. IsPcb(p) /\ DOMAIN x.pcb = Pcbs
    BY DEF IsServer
<1>2. \/ IsProbing(x, b) /\ Contains(p.services, s) /\ y = gone /\ asks = TRUE
      \/ ~IsProbing(x, b) /\ y = back
      \/ ~(IsProbing(x, b) /\ Contains(p.services, s)) /\ y = x /\ asks = FALSE
  <2>1. CASE IsProbing(x, b) /\ Contains(p.services, s)
    <3>1. CheckProbingServices(x, b, s, removed) =
            CASE IsProbing(x, b) /\ Contains(p.services, s) -> [st |-> gone, questions |-> TRUE]
              [] IsAnnouncing(x, b) /\ removed -> [st |-> back, questions |-> FALSE]
              [] OTHER -> [st |-> x, questions |-> FALSE]
        BY DEF CheckProbingServices
    <3>2. ~IsAnnouncing(x, b)
        BY <2>1 DEF IsProbing, IsAnnouncing, Dup, Probe3, Announce1, Announce3
    <3> HIDE DEF gone, p
    <3> QED
        BY <2>1, <3>1, <3>2
  <2>2. CASE ~(IsProbing(x, b) /\ Contains(p.services, s)) /\ IsAnnouncing(x, b) /\ removed
    <3>1. ~IsProbing(x, b)
        BY <2>2 DEF IsProbing, IsAnnouncing, Dup, Probe3, Announce1, Announce3
    <3> QED
        BY <2>2, <3>1 DEF CheckProbingServices
  <2>3. CASE ~(IsProbing(x, b) /\ Contains(p.services, s)) /\ ~(IsAnnouncing(x, b) /\ removed)
      BY <2>3 DEF CheckProbingServices
  <2> QED
      BY <2>1, <2>2, <2>3
<1>3. Probing(p) => IsProbing(x, b)
    BY DEF Probing, IsProbing, Probe1, Probe3, Dup
<1> SUFFICES /\ AlikeBut(x, y, b) /\ y.ready = x.ready /\ IsPcb(y.pcb[b])
             /\ Range(y.pcb[b].services) \subseteq Range(p.services)
             /\ y.pcb[b].services # <<>> => Probing(y.pcb[b])
             /\ Probing(y.pcb[b]) => StillProbes(p, y.pcb[b], s, asks)
             /\ Probing(p) /\ ~Probing(y.pcb[b]) => asks /\ Range(p.services) = {s} /\ ~p.ip
    OBVIOUS
<1> HIDE DEF c, y, asks
<1>4. CASE IsProbing(x, b) /\ Contains(p.services, s) /\ y = gone /\ asks = TRUE
  <2> DEFINE r1 == [p EXCEPT !.services = rest]
             r2 == [r1 EXCEPT !.running = run]
             r3 == [r2 EXCEPT !.state = state]
             z == [x EXCEPT !.pcb = [@ EXCEPT ![b] = r3]]
  <2>1. DOMAIN x = ServerFields
      BY DEF IsServer
  <2>2. IsList(rest) /\ Range(rest) = {e \in Range(p.services) : e \notin {s}}
    <3>1. IsList(p.services)
        BY <1>1 DEF IsPcb
    <3> QED
        BY <3>1, WithoutIs
  <2>3. \/ state = p.state /\ (rest # <<>> \/ p.ip)
        \/ state = Running /\ rest = <<>> /\ ~p.ip
      BY <1>4
  <2>4. state \in Off .. Running
      BY <1>1 DEF IsPcb, Off, Running
  <2>5. gone = z
    <3> HIDE DEF rest, run, state
    <3> QED
        BY <1>1, <2>1 DEF ServerFields, IsPcb, PcbFields
  <2> HIDE DEF rest, run, state, gone
  <2>6. IsPcb(r3) /\ r3.services = rest /\ r3.state = state /\ r3.ip = p.ip
      BY <1>1, <2>2, <2>4 DEF IsPcb, PcbFields
  <2> HIDE DEF r3, p, done
  <2>7. AlikeBut(x, z, b) /\ z.pcb[b] = r3 /\ z.ready = x.ready
    <3>1. \A r : LET u == [x EXCEPT !.pcb = [@ EXCEPT ![b] = r]]
                IN  AlikeBut(x, u, b) /\ u.pcb[b] = r /\ u.ready = x.ready /\ u.svc = x.svc
        BY IsServer(x), b \in Pcbs, PcbSet
    <3> QED
        BY <3>1
  <2> USE DEF p, done
  <2> HIDE DEF z
  <2>8. s \in Range(p.services) /\ p.services # <<>>
    <3>1. IsList(p.services)
        BY <1>1 DEF IsPcb
    <3>2. DOMAIN p.services = 1 .. Len(p.services)
        BY <3>1, ListIs
    <3> HIDE DEF p
    <3> QED
        BY <1>4, <3>2 DEF Contains, Range
  <2>9. Probing(p)
      BY <2>8
  <2>10. rest # <<>> => Probing(r3)
      BY <2>3, <2>6, <2>9 DEF Probing
  <2>11. ASSUME Probing(r3) PROVE StillProbes(p, r3, s, asks)
    <3>1. state = p.state /\ (rest # <<>> \/ p.ip)
        BY <2>3, <2>6, <2>11 DEF Probing, Running, Probe1, Probe3
    <3>2. Range(r3.services) = Range(p.services) \ {s} /\ s \notin Range(r3.services)
        BY <2>2, <2>6
    <3> QED
        BY <1>4, <2>6, <2>8, <2>9, <3>1, <3>2 DEF StillProbes
  <2>12. ASSUME ~Probing(r3) PROVE asks /\ Range(p.services) = {s} /\ ~p.ip
    <3>1. rest = <<>> /\ ~p.ip
        BY <2>3, <2>6, <2>9, <2>12 DEF Probing
    <3>2. Range(rest) = {}
        BY <3>1 DEF Range
    <3> QED
        BY <1>4, <2>2, <2>8, <3>1, <3>2
  <2> QED
      BY <1>4, <2>2, <2>5, <2>6, <2>7, <2>10, <2>11, <2>12
<1>5. CASE ~IsProbing(x, b) /\ y = back
  <2>1. Running \in Off .. Running
      BY DEF Off, Running
  <2>2. /\ AlikeBut(x, back, b) /\ back.ready = x.ready /\ IsPcb(back.pcb[b])
        /\ back.pcb[b].services = p.services /\ back.pcb[b].state = Running
      BY <2>1, SetPcbStateIs
  <2> HIDE DEF back
  <2>3. p.services = <<>>
      BY <1>3, <1>5
  <2>4. ~Probing(back.pcb[b])
      BY <2>2 DEF Probing, Running, Probe1, Probe3
  <2> QED
      BY <1>3, <1>5, <2>2, <2>3, <2>4
<1>6. CASE ~(IsProbing(x, b) /\ Contains(p.services, s)) /\ y = x /\ asks = FALSE
  <2>1. AlikeBut(x, x, b)
      BY DEF AlikeBut, Keeps, SameTypes, IsServer
  <2>2. IsList(p.services)
      BY <1>1 DEF IsPcb
  <2>3. Probing(p) => s \notin Range(p.services)
    <3>1. DOMAIN p.services = 1 .. Len(p.services)
        BY <2>2, ListIs
    <3> HIDE DEF p
    <3> QED
        BY <1>3, <1>6, <3>1 DEF Contains, Range
  <2>4. Probing(p) => StillProbes(p, p, s, asks)
      BY <1>6, <2>3 DEF StillProbes
  <2> QED
      BY <1>1, <1>6, <2>1, <2>4
<1> QED
    BY <1>2, <1>4, <1>5, <1>6

\* A packet that answers nothing about the service any more.
Strips(p, s, a) ==
    a = [p EXCEPT !.answers = DeallocServiceAnswers(@, s),
                  !.additional = DeallocServiceAnswers(@, s),
                  !.servers = DeallocServiceAnswers(@, s)]

Rid(q, p, L, s, qs) ==
    /\ PacketFits(q, L \ {s}) /\ q.id = p.id /\ q.at = p.at
    /\ IsQueued(q) <=> IsQueued(p)
    /\ q.pcb = p.pcb /\ q.servers = DeallocServiceAnswers(p.servers, s)
    /\ q.qs = qs

\* It refers to the service no more, whatever it asks.
LEMMA DeallocPacketIs ==
    ASSUME NEW p, NEW L, PacketFits(p, L), NEW s,
           NEW a, Strips(p, s, a), NEW qs, IsList(qs), IsList(a.qs) => IsList(qs)
    PROVE  Rid([a EXCEPT !.qs = qs], p, L, s, qs)
<1> DEFINE q == [a EXCEPT !.qs = qs]
           u == DeallocServiceAnswers(p.answers, s)
           v == DeallocServiceAnswers(p.additional, s)
           k == DeallocServiceAnswers(p.servers, s)
<1>1. Refers(u, L \ {s}) /\ Refers(v, L \ {s}) /\ Refers(k, L \ {s})
    BY DeallocServiceAnswersIs DEF PacketFits
<1>2. DOMAIN p = PacketFields /\ IsPacket(p)
    BY DEF PacketFits, IsPacket
<1>3. a = [p EXCEPT !.answers = u, !.additional = v, !.servers = k]
    BY <1>2 DEF PacketFields, Strips
<1> HIDE DEF u, v, k
<1>4. /\ DOMAIN q = PacketFields /\ q.id = p.id /\ q.at = p.at /\ q.pcb = p.pcb
      /\ q.servers = k /\ q.answers = u /\ q.additional = v /\ q.queued = p.queued
      /\ q.qs = qs
    BY <1>2, <1>3 DEF PacketFields
<1> HIDE DEF q
<1>5. IsPacket(q)
    BY <1>2, <1>4 DEF IsPacket
<1>6. PacketFits(q, L \ {s})
    BY <1>1, <1>4, <1>5 DEF PacketFits
<1>7. IsQueued(q) <=> IsQueued(p)
    BY <1>4 DEF IsQueued
<1> QED
    BY <1>4, <1>6, <1>7 DEF k, q, Rid

\* How far the removal has come: the first n packets of t have been looked at.
Waits(z, t, n, s, b) ==
    /\ z.pcb[b].services # <<>> => Probing(z.pcb[b])
    /\ ~Probing(z.pcb[b]) =>
         AllPlain(z.tx, b) /\ \A k \in DOMAIN t : k > n /\ t[k].pcb = b => Plain(t[k])
    /\ Probing(z.pcb[b]) =>
         /\ b \in z.ready /\ Alone(t, b)
         /\ \/ /\ Silent(z.tx, b)
               /\ \E k \in DOMAIN t : k > n /\ ProbesFor(t[k], b, z.pcb[b], z.svc, {})
            \/ /\ s \notin Range(z.pcb[b].services) /\ Alone(z.tx, b)
               /\ \E k \in DOMAIN z.tx : ProbesFor(z.tx[k], b, z.pcb[b], z.svc, {s})
               /\ \A k \in DOMAIN t : k > n => t[k].pcb # b
Cleared(x, z, t, n, s, L) ==
    /\ IsServer(z) /\ Stays(x, z) /\ Typed(z.svc, L)
    /\ \A k \in DOMAIN z.tx : PacketFits(z.tx[k], L \ {s})
    /\ \E f \in [DOMAIN z.tx -> 1 .. n] : Thins(t, z.tx, f)
    /\ \A b \in Pcbs : Range(z.pcb[b].services) \subseteq L
    /\ \A b \in Pcbs : Waits(z, t, n, s, b)

\* The first question for a type is taken out, when there is one; no other is.
LEMMA RemoveFirstQuestionIs ==
    ASSUME NEW qs, IsList(qs), NEW type
    PROVE  LET new == RemoveFirstQuestion(qs, type)
           IN  /\ IsList(new) /\ Range(new) \subseteq Range(qs)
               /\ (\E i \in DOMAIN qs : qs[i].type = "ANY" /\ qs[i].svc = type /\ type # None) =>
                    \E k, h : OneFewer(qs, new, k, h) /\ qs[k].svc = type /\ type # None
<1> DEFINE Fits(i) == qs[i].type = "ANY" /\ qs[i].svc # None /\ qs[i].svc = type
           I == {i \in 1 .. Len(qs) : Fits(i)}
           k == IF I = {} THEN 0 ELSE Min(I)
           new == RemoveFirstQuestion(qs, type)
<1>1. Len(qs) \in Nat /\ DOMAIN qs = 1 .. Len(qs)
    BY ListIs
<1>2. new = IF k = 0 THEN qs ELSE RemoveAt(qs, k)
    BY DEF RemoveFirstQuestion, FirstQuestion, SelectInSeq
<1>3. CASE I = {}
    BY <1>1, <1>2, <1>3
<1>4. CASE I # {}
  <2>1. k \in I /\ k = Min(I)
    <3>1. I \in SUBSET (1 .. Len(qs))
        OBVIOUS
    <3> HIDE DEF I
    <3> QED
        BY <1>1, <1>4, <3>1, MinIn
  <2>2. k \in DOMAIN qs /\ qs[k].svc = type /\ type # None /\ k # 0
      BY <1>1, <2>1
  <2> HIDE DEF k, new, I, Fits
  <2>3. new = RemoveAt(qs, k)
      BY <1>2, <2>2
  <2>4. /\ IsList(new) /\ Range(new) \subseteq Range(qs)
        /\ \E h : OneFewer(qs, new, k, h)
      BY <2>2, <2>3, RemoveAtIs
  <2> QED
      BY <2>2, <2>4 DEF new
<1> QED
    BY <1>3, <1>4

\* The questions of a probe include one for the type of each service it is for.
LEMMA NamedTypes ==
    ASSUME NEW qs, NEW V, NEW ip, NEW svc, NEW S, Enough(qs, V, ip, svc, S), NEW s \in V,
           svc[s].type # None
    PROVE  \E i \in DOMAIN qs : qs[i].type = "ANY" /\ qs[i].svc = svc[s].type
<1>1. PICK g \in [V -> DOMAIN qs] : NamedBy(g, qs, V, svc, S)
    BY DEF Enough, Named
<1>2. g[s] \in DOMAIN qs /\ StandsFor(qs[g[s]], s, svc, S)
    BY <1>1 DEF NamedBy
<1>3. IsProbeQuestion(qs[g[s]])
    BY <1>2 DEF Enough
<1> QED
    BY <1>2, <1>3 DEF StandsFor, IsProbeQuestion

\* When the first question for the type of s is gone the others stand for the services
\* other than s: the one that stood for s may have to stand for another now.
LEMMA NamedWithout ==
    ASSUME NEW qs, NEW V, NEW svc, Named(qs, V, svc, {}), NEW s \in V, svc[s].type # None,
           NEW new, NEW k, NEW h, OneFewer(qs, new, k, h), qs[k].svc = svc[s].type
    PROVE  Named(new, V \ {s}, svc, {s})
<1>1. PICK g \in [V -> DOMAIN qs] : NamedBy(g, qs, V, svc, {})
    BY DEF Named
<1>2. /\ k \in DOMAIN qs /\ h \in [DOMAIN new -> DOMAIN qs]
      /\ \A j \in DOMAIN new : new[j] = qs[h[j]] /\ h[j] # k
      /\ \A i \in DOMAIN qs : i # k => \E j \in DOMAIN new : h[j] = i
      /\ \A i, j \in DOMAIN new : h[i] = h[j] => i = j
    BY DEF OneFewer
<1>3. /\ \A i \in DOMAIN qs : IsOfHost(qs[i]) \/ \E v \in V : g[v] = i
      /\ \A v, w \in V : g[v] = g[w] => v = w
      /\ \A v \in V : StandsFor(qs[g[v]], v, svc, {})
    BY <1>1 DEF NamedBy
<1>4. PICK u \in V : g[u] = k
  <2>1. ~IsOfHost(qs[k])
      BY DEF IsOfHost
  <2> QED
      BY <1>2, <1>3, <2>1
<1> DEFINE W == V \ {s}
           d == [v \in W |-> IF v = u THEN g[s] ELSE g[v]]
           e == [v \in W |-> CHOOSE j \in DOMAIN new : h[j] = d[v]]
<1>5. \A v \in W : /\ d[v] \in DOMAIN qs /\ v \in V
                   /\ v = u => d[v] = g[s]
                   /\ v # u => d[v] = g[v]
    OBVIOUS
<1>6. ASSUME NEW v \in W PROVE d[v] # k
  <2>1. v # s /\ v \in V
      OBVIOUS
  <2>2. CASE v = u
      BY <1>3, <1>4, <1>5, <2>1, <2>2
  <2>3. CASE v # u
      BY <1>3, <1>4, <1>5, <2>1, <2>3
  <2> QED
      BY <2>2, <2>3
<1> HIDE DEF d
<1>7. \A v \in W : e[v] \in DOMAIN new /\ h[e[v]] = d[v]
    BY <1>2, <1>5, <1>6
<1>8. e \in [W -> DOMAIN new]
    BY <1>7
<1> HIDE DEF e
<1>9. ASSUME NEW j \in DOMAIN new, ~IsOfHost(new[j]) PROVE \E v \in W : e[v] = j
  <2>1. new[j] = qs[h[j]] /\ h[j] \in DOMAIN qs /\ h[j] # k
      BY <1>2
  <2>2. PICK w \in V : g[w] = h[j]
      BY <1>3, <1>9, <2>1
  <2>3. w # u
      BY <1>4, <2>1, <2>2
  <2>4. ASSUME NEW v \in W, d[v] = h[j] PROVE e[v] = j
      BY <1>2, <1>7, <2>4
  <2>5. CASE w = s
    <3>1. u \in W /\ d[u] = h[j]
        BY <1>5, <2>2, <2>3, <2>5
    <3> QED
        BY <2>4, <3>1
  <2>6. CASE w # s
    <3>1. w \in W /\ d[w] = h[j]
        BY <1>5, <2>2, <2>3, <2>6
    <3> QED
        BY <2>4, <3>1
  <2> QED
      BY <2>5, <2>6
<1>10. ASSUME NEW v \in W, NEW w \in W, e[v] = e[w] PROVE v = w
  <2>1. d[v] = d[w]
      BY <1>7, <1>10
  <2>2. v # s /\ w # s /\ v \in V /\ w \in V
      OBVIOUS
  <2> QED
      BY <1>3, <1>5, <2>1, <2>2
<1>11. ASSUME NEW v \in W PROVE StandsFor(new[e[v]], v, svc, {s})
  <2>1. new[e[v]] = qs[d[v]]
      BY <1>2, <1>7
  <2>2. CASE v # u
    <3>1. StandsFor(qs[g[v]], v, svc, {})
        BY <1>3
    <3> QED
        BY <1>5, <2>1, <2>2, <3>1 DEF StandsFor
  <2>3. CASE v = u
    <3>1. StandsFor(qs[g[s]], s, svc, {}) /\ StandsFor(qs[k], u, svc, {})
        BY <1>3, <1>4
    <3>2. svc[u].type = svc[s].type
        BY <3>1 DEF StandsFor
    <3> QED
        BY <1>5, <2>1, <2>3, <3>1, <3>2 DEF StandsFor
  <2> QED
      BY <2>2, <2>3
<1>12. NamedBy(e, new, W, svc, {s})
    BY <1>9, <1>10, <1>11 DEF NamedBy
<1> QED
    BY <1>8, <1>12 DEF Named

\* The questions that are left are enough for what is still probed for.
LEMMA StillEnough ==
    ASSUME NEW r, IsPcb(r), NEW q, IsPcb(q), NEW s, NEW questions, StillProbes(r, q, s, questions),
           NEW qs, IsList(qs), NEW svc, Typed(svc, Range(r.services)),
           AsksEnough(qs, r, svc, {}),
           NEW new, questions => new = RemoveFirstQuestion(qs, svc[s].type), ~questions => new = qs
    PROVE  AsksEnough(new, q, svc, {s})
<1> DEFINE type == svc[s].type
           one == RemoveFirstQuestion(qs, type)
           R == Range(r.services)
           Q == Range(q.services)
<1>1. /\ IsList(q.services) /\ qs # <<>> /\ q.ip = r.ip
      /\ Enough(qs, R, r.ip, svc, {})
    BY DEF IsPcb, AsksEnough, StillProbes
<1>2. CASE ~questions /\ q.services = r.services
  <2>1. PICK g \in [R -> DOMAIN qs] : NamedBy(g, qs, R, svc, {})
      BY <1>1 DEF Enough, Named
  <2>2. NamedBy(g, qs, R, svc, {s})
      BY <2>1 DEF NamedBy, StandsFor
  <2>3. Enough(qs, R, r.ip, svc, {s})
      BY <1>1, <2>2 DEF Enough, Named
  <2> QED
      BY <1>1, <1>2, <2>3 DEF AsksEnough
<1>3. CASE questions /\ s \in R /\ Q = R \ {s} /\ (q.services # <<>> \/ q.ip)
  <2>1. type # None
      BY <1>3 DEF Typed
  <2>2. \E i \in DOMAIN qs : qs[i].type = "ANY" /\ qs[i].svc = type
      BY <1>1, <1>3, <2>1, NamedTypes
  <2> HIDE DEF one
  <2>3. PICK k, h : OneFewer(qs, one, k, h) /\ qs[k].svc = type
      BY <2>1, <2>2, RemoveFirstQuestionIs DEF one
  <2>4. Named(qs, R, svc, {})
      BY <1>1 DEF Enough
  <2> HIDE DEF R, Q
  <2>5. Named(one, Q, svc, {s})
      BY <1>3, <2>1, <2>3, <2>4, NamedWithout
  <2>6. \A j \in DOMAIN one : IsProbeQuestion(one[j])
      BY <1>1, <2>3 DEF Enough, OneFewer
  <2>7. AsksHost(one) <=> AsksHost(qs)
    <3>1. ~IsOfHost(qs[k])
        BY <2>1, <2>3 DEF IsOfHost
    <3>2. ASSUME AsksHost(qs) PROVE AsksHost(one)
      <4>1. PICK i \in DOMAIN qs : IsOfHost(qs[i])
          BY <3>2 DEF AsksHost
      <4>2. PICK j \in DOMAIN one : h[j] = i
          BY <2>3, <3>1, <4>1 DEF OneFewer
      <4> QED
          BY <2>3, <4>1, <4>2 DEF AsksHost, OneFewer
    <3>3. ASSUME AsksHost(one) PROVE AsksHost(qs)
        BY <2>3, <3>3 DEF AsksHost, OneFewer
    <3> QED
        BY <3>2, <3>3
  <2>8. Enough(one, Q, q.ip, svc, {s})
      BY <1>1, <2>5, <2>6, <2>7 DEF Enough
  <2>9. one # <<>>
      BY <1>1, <1>3, <2>8, AsksSome DEF Q
  <2> QED
      BY <1>3, <2>8, <2>9 DEF AsksEnough, Q, one
<1> QED
    BY <1>2, <1>3 DEF StillProbes

\* A pcb that has nothing left to probe for has no question left.
LEMMA NoneLeft ==
    ASSUME NEW r, NEW s, Range(r.services) = {s}, ~r.ip, NEW qs, IsList(qs), NEW svc,
           Typed(svc, {s}), AsksEnough(qs, r, svc, {})
    PROVE  DOMAIN RemoveFirstQuestion(qs, svc[s].type) = {}
<1> DEFINE type == svc[s].type
           one == RemoveFirstQuestion(qs, type)
<1>1. type # None /\ Enough(qs, {s}, r.ip, svc, {})
    BY DEF Typed, AsksEnough
<1>2. \E i \in DOMAIN qs : qs[i].type = "ANY" /\ qs[i].svc = type
    BY <1>1, s \in {s}, NamedTypes
<1> HIDE DEF one
<1>3. PICK k, h : OneFewer(qs, one, k, h) /\ qs[k].svc = type
    BY <1>1, <1>2, RemoveFirstQuestionIs DEF one
<1>4. PICK g \in [{s} -> DOMAIN qs] : NamedBy(g, qs, {s}, svc, {})
    BY <1>1 DEF Enough, Named
<1>5. \A i \in DOMAIN qs : i = g[s]
    BY <1>1, <1>4 DEF NamedBy, Enough, AsksHost
<1>6. \A j \in DOMAIN one : FALSE
    BY <1>3, <1>5 DEF OneFewer
<1> QED
    BY <1>6 DEF one

\* A packet is put behind the others: the other pcbs are no less alone, or silent.
LEMMA JoinsAlone ==
    ASSUME NEW t, IsList(t), NEW q
    PROVE  LET u == Append(t, q)
           IN  /\ \A c : c # q.pcb => (Silent(t, c) => Silent(u, c)) /\ (Alone(t, c) => Alone(u, c))
               /\ \A c : c # q.pcb => (AllPlain(t, c) => AllPlain(u, c))
               /\ Silent(t, q.pcb) => Alone(u, q.pcb)
               /\ AllPlain(t, q.pcb) /\ Plain(q) => AllPlain(u, q.pcb)
<1> DEFINE u == Append(t, q)
           m == Len(t)
<1>1. m \in Nat /\ DOMAIN t = 1 .. m
    BY ListIs
<1>2. IsList(u) /\ Len(u) = m + 1 /\ u[m + 1] = q /\ \A k \in 1 .. m : u[k] = t[k]
    BY AppendIs
<1>3. DOMAIN u = 1 .. m + 1
    BY <1>2, ListIs
<1> HIDE DEF m, u
<1>4. \A k \in DOMAIN u : (k \in DOMAIN t /\ u[k] = t[k]) \/ (k = m + 1 /\ u[k] = q)
    BY <1>1, <1>2, <1>3
<1>5. ASSUME NEW c, c # q.pcb, Silent(t, c) PROVE Silent(u, c)
    BY <1>4, <1>5 DEF Silent
<1>6. ASSUME NEW c, c # q.pcb, Alone(t, c) PROVE Alone(u, c)
    BY <1>4, <1>6 DEF Alone
<1>7. ASSUME Silent(t, q.pcb) PROVE Alone(u, q.pcb)
    BY <1>4, <1>7 DEF Alone, Silent
<1>8. \A c : c # q.pcb => (AllPlain(t, c) => AllPlain(u, c))
    BY <1>4 DEF AllPlain
<1>9. AllPlain(t, q.pcb) /\ Plain(q) => AllPlain(u, q.pcb)
    BY <1>4 DEF AllPlain
<1> QED
    BY <1>5, <1>6, <1>7, <1>8, <1>9 DEF u

\* A packet that does not thin the queue any further: it is put behind the others.
LEMMA ThinsOn ==
    ASSUME NEW t, NEW n \in Nat, NEW u, IsList(u), NEW f \in [DOMAIN u -> 1 .. n], Thins(t, u, f),
           NEW q, q.id = t[n + 1].id, q.at = t[n + 1].at, IsQueued(q) <=> IsQueued(t[n + 1])
    PROVE  \E g \in [DOMAIN Append(u, q) -> 1 .. n + 1] : Thins(t, Append(u, q), g)
<1> DEFINE m == Len(u)
           v == Append(u, q)
           g == [j \in 1 .. m + 1 |-> IF j = m + 1 THEN n + 1 ELSE f[j]]
<1>1. m \in Nat /\ DOMAIN u = 1 .. m
    BY ListIs
<1>2. IsList(v) /\ Len(v) = m + 1 /\ v[m + 1] = q /\ \A j \in 1 .. m : v[j] = u[j]
    BY AppendIs
<1>3. DOMAIN v = 1 .. m + 1
    BY <1>2, ListIs
<1> HIDE DEF m, v
<1>4. g \in [1 .. m + 1 -> 1 .. n + 1] /\ g[m + 1] = n + 1 /\ \A j \in 1 .. m : g[j] = f[j] /\ f[j] \in 1 .. n
    BY <1>1
<1>5. DOMAIN g = 1 .. m + 1
    OBVIOUS
<1> HIDE DEF g
<1>6. Rising(g)
  <2>1. SUFFICES ASSUME NEW i \in 1 .. m + 1, NEW j \in 1 .. m + 1, i < j PROVE g[i] < g[j]
      BY <1>5 DEF Rising
  <2>2. i \in 1 .. m /\ (j = m + 1 \/ j \in 1 .. m)
      BY <1>1, <2>1
  <2>3. CASE j = m + 1
    <3>1. g[i] \in 1 .. n /\ g[j] = n + 1
        BY <1>4, <2>2, <2>3
    <3> QED
        BY <3>1
  <2>4. CASE j \in 1 .. m
    <3>1. f[i] < f[j]
        BY <1>1, <2>1, <2>2, <2>4 DEF Rising, Thins
    <3> QED
        BY <1>4, <2>2, <2>4, <3>1
  <2> QED
      BY <2>2, <2>3, <2>4
<1>7. \A j \in 1 .. m + 1 : /\ v[j].id = t[g[j]].id
                            /\ IsQueued(v[j]) <=> IsQueued(t[g[j]])
                            /\ t[g[j]].at = Now => v[j].at = Now
  <2>1. ASSUME NEW j \in 1 .. m
        PROVE  /\ v[j].id = t[g[j]].id
               /\ IsQueued(v[j]) <=> IsQueued(t[g[j]])
               /\ t[g[j]].at = Now => v[j].at = Now
      BY <1>1, <1>2, <1>4 DEF Thins
  <2>2. /\ v[m + 1].id = t[g[m + 1]].id
        /\ IsQueued(v[m + 1]) <=> IsQueued(t[g[m + 1]])
        /\ t[g[m + 1]].at = Now => v[m + 1].at = Now
      BY <1>2, <1>4
  <2>3. \A j \in 1 .. m + 1 : j \in 1 .. m \/ j = m + 1
      BY <1>1
  <2> QED
      BY <2>1, <2>2, <2>3
<1> QED
    BY <1>3, <1>4, <1>6, <1>7 DEF v, Thins

\* A packet is looked at: what is left of it, if anything is, is put back.
LEMMA RemoveServiceFromPacketIs ==
    ASSUME NEW x, NEW z, NEW t, IsList(t), NEW n \in Nat, n + 1 \in DOMAIN t, NEW s, NEW L,
           PacketFits(t[n + 1], L), Cleared(x, z, t, n, s, L)
    PROVE  Cleared(x, RemoveServiceFromPacket(z, t[n + 1], s), t, n + 1, s, L)
<1> DEFINE p == t[n + 1]
           b == p.pcb
           a == [p EXCEPT !.answers = DeallocServiceAnswers(@, s),
                          !.additional = DeallocServiceAnswers(@, s),
                          !.servers = DeallocServiceAnswers(@, s)]
           c == IF Ready(z, b)
                THEN CheckProbingServices(z, b, s, p.answers # <<>> /\ a.answers = <<>>)
                ELSE [st |-> z, questions |-> FALSE]
           qs == RemoveFirstQuestion(p.qs, z.svc[s].type)
           q == [a EXCEPT !.qs = IF c.questions THEN qs ELSE p.qs]
           freed == c.questions /\ ComparesFreed(p.qs, z.svc[s].type)
           y == Reads(c.st, freed)
           gone == q.qs = <<>> /\ q.answers = <<>> /\ q.additional = <<>> /\ q.servers = <<>>
           with == [y EXCEPT !.tx = Append(@, q)]
           new == RemoveServiceFromPacket(z, p, s)
<1>1. IsServer(z) /\ DOMAIN p = PacketFields /\ b \in Pcbs
    BY DEF Cleared, PacketFits, IsPacket
<1>2. new = IF gone THEN y ELSE with
  <2>1. a.qs = p.qs
      BY <1>1 DEF PacketFields
  <2>2. DOMAIN a = PacketFields
      BY <1>1 DEF PacketFields
  <2> DEFINE p1 == IF c.questions THEN [a EXCEPT !.qs = RemoveFirstQuestion(@, z.svc[s].type)] ELSE a
  <2>3. new = IF p1.qs = <<>> /\ p1.answers = <<>> /\ p1.additional = <<>> /\ p1.servers = <<>>
              THEN y ELSE [y EXCEPT !.tx = Append(@, p1)]
      BY DEF RemoveServiceFromPacket
  <2> HIDE DEF a, c, new, y
  <2>4. p1 = q
    <3>1. a = [a EXCEPT !.qs = p.qs]
      <4> HIDE DEF p
      <4> QED
          BY <1>1 DEF PacketFields, a
    <3> QED
        BY <2>1, <3>1
  <2> HIDE DEF p1, q
  <2> QED
      BY <2>3, <2>4
<1>3. /\ PacketFits(q, L \ {s}) /\ q.id = p.id /\ q.at = p.at /\ (IsQueued(q) <=> IsQueued(p))
      /\ q.pcb = b /\ q.servers = DeallocServiceAnswers(p.servers, s)
      /\ q.qs = IF c.questions THEN qs ELSE p.qs
  <2> DEFINE v == IF c.questions THEN qs ELSE p.qs
  <2>1. PacketFits(p, L)
      OBVIOUS
  <2>4. IsList(v)
    <3>1. IsList(p.qs)
        BY <2>1 DEF PacketFits, IsPacket
    <3> HIDE DEF p, c
    <3>2. IsList(qs)
        BY <3>1, RemoveFirstQuestionIs
    <3> QED
        BY <3>1, <3>2
  <2> HIDE DEF p, c, qs, v
  <2>2. q = [a EXCEPT !.qs = v]
      BY DEF v
  <2>3. a = [p EXCEPT !.answers = DeallocServiceAnswers(@, s),
                      !.additional = DeallocServiceAnswers(@, s),
                      !.servers = DeallocServiceAnswers(@, s)]
      OBVIOUS
  <2> HIDE DEF q, a
  <2>5. Strips(p, s, a)
      BY <2>3 DEF Strips
  <2>6. Rid([a EXCEPT !.qs = v], p, L, s, v)
      BY <2>1, <2>4, <2>5, DeallocPacketIs
  <2>7. p.pcb = b
      BY DEF b, p
  <2> QED
      BY <2>2, <2>6, <2>7 DEF v, Rid
<1>4. /\ AlikeBut(z, y, b) /\ y.ready = z.ready /\ IsPcb(y.pcb[b])
      /\ Range(y.pcb[b].services) \subseteq Range(z.pcb[b].services)
      /\ y.pcb[b].services # <<>> => Probing(y.pcb[b])
      /\ Probing(y.pcb[b]) => StillProbes(z.pcb[b], y.pcb[b], s, c.questions)
      /\ Probing(z.pcb[b]) /\ ~Probing(y.pcb[b]) =>
           c.questions /\ Range(z.pcb[b].services) = {s} /\ ~z.pcb[b].ip
  <2> DEFINE v == c.st
             o == v.undefined \/ freed
  <2>1. /\ z.pcb[b].services # <<>> => Probing(z.pcb[b])
        /\ Probing(z.pcb[b]) => b \in z.ready
      BY <1>1 DEF Cleared, Waits
  <2>2. /\ AlikeBut(z, v, b) /\ v.ready = z.ready /\ IsPcb(v.pcb[b])
        /\ Range(v.pcb[b].services) \subseteq Range(z.pcb[b].services)
        /\ v.pcb[b].services # <<>> => Probing(v.pcb[b])
        /\ Probing(v.pcb[b]) => StillProbes(z.pcb[b], v.pcb[b], s, c.questions)
        /\ Probing(z.pcb[b]) /\ ~Probing(v.pcb[b]) =>
             c.questions /\ Range(z.pcb[b].services) = {s} /\ ~z.pcb[b].ip
    <3>1. CASE Ready(z, b)
      <4>1. c = CheckProbingServices(z, b, s, p.answers # <<>> /\ a.answers = <<>>)
          BY <3>1
      <4> HIDE DEF p, a, b, c
      <4> QED
          BY <1>1, <2>1, <4>1, CheckProbingServicesIs
    <3>2. CASE ~Ready(z, b)
      <4>1. v = z
          BY <3>2
      <4>2. ~Probing(z.pcb[b])
          BY <2>1, <3>2 DEF Ready
      <4> HIDE DEF p, a, b, c
      <4>3. AlikeBut(z, z, b) /\ IsPcb(z.pcb[b])
          BY <1>1 DEF AlikeBut, Keeps, IsServer, SameTypes
      <4> QED
          BY <2>1, <4>1, <4>2, <4>3
    <3> QED
        BY <3>1, <3>2
  <2> HIDE DEF v, freed, b, c
  <2>3. IsServer(v)
    <3>1. \A k \in Pcbs : IsPcb(v.pcb[k])
        BY <1>1, <2>2 DEF AlikeBut, IsServer
    <3> QED
        BY <1>1, <2>2, <3>1 DEF AlikeBut, Keeps, IsServer, SameTypes
  <2>4. y = [v EXCEPT !.undefined = o]
      BY <2>3 DEF Reads, v, IsServer, ServerFields
  <2> HIDE DEF y, o
  <2>5. Alike(v, y)
      BY <2>3, <2>4, FieldsSet
  <2>6. y.pcb = v.pcb /\ y.ready = v.ready
      BY <2>5 DEF Alike
  <2>7. AlikeBut(z, y, b)
      BY <1>1, <2>2, <2>5 DEF Alike, AlikeBut, Keeps, SameTypes, IsServer
  <2> QED
      BY <2>2, <2>6, <2>7
<1> HIDE DEF p, b, q, y, c, qs, freed
<1>5. y.tx = z.tx /\ IsList(z.tx) /\ DOMAIN y = ServerFields
    BY <1>1, <1>4 DEF AlikeBut, Keeps, IsServer
<1>6. IsServer(y) /\ Stays(z, y)
  <2>1. \A k \in Pcbs : IsPcb(y.pcb[k])
      BY <1>1, <1>4 DEF AlikeBut, IsServer
  <2> QED
      BY <1>1, <1>4, <2>1 DEF AlikeBut, Keeps, IsServer, Stays, SameTypes
<1>7. PICK u : /\ IsList(u) /\ Keeps(y, new) /\ new.tx = u /\ new.pcb = y.pcb /\ new.ready = y.ready
               /\ \A k \in DOMAIN u : PacketFits(u[k], L \ {s})
               /\ \E f \in [DOMAIN u -> 1 .. n + 1] : Thins(t, u, f)
               /\ GoesOn(z.tx, u)
               /\ \A k : k # b => (Silent(z.tx, k) => Silent(u, k)) /\ (Alone(z.tx, k) => Alone(u, k))
               /\ \A k : k # b => (AllPlain(z.tx, k) => AllPlain(u, k))
               /\ AllPlain(z.tx, b) /\ Plain(q) => AllPlain(u, b)
               /\ gone \/ ((\E k \in DOMAIN u : u[k] = q) /\ (Silent(z.tx, b) => Alone(u, b)))
  <2>1. PICK f \in [DOMAIN z.tx -> 1 .. n] : Thins(t, z.tx, f)
      BY DEF Cleared
  <2>2. \A k \in DOMAIN z.tx : PacketFits(z.tx[k], L \ {s})
      BY DEF Cleared
  <2>3. CASE gone
    <3>1. Keeps(y, new) /\ new.tx = z.tx /\ new.pcb = y.pcb /\ new.ready = y.ready
        BY <1>2, <1>5, <1>6, <2>3, KeepsSelf
    <3>2. f \in [DOMAIN z.tx -> 1 .. n + 1]
        OBVIOUS
    <3> HIDE DEF new, gone
    <3>3. GoesOn(z.tx, z.tx) /\ \E g \in [DOMAIN z.tx -> 1 .. n + 1] : Thins(t, z.tx, g)
        BY <2>1, <3>2 DEF GoesOn
    <3> QED
        BY <1>5, <2>2, <2>3, <3>1, <3>3
  <2>4. CASE ~gone
    <3> DEFINE u == Append(z.tx, q)
               m == Len(z.tx)
    <3>1. Keeps(y, new) /\ new.tx = u /\ new.pcb = y.pcb /\ new.ready = y.ready
      <4>1. new = [y EXCEPT !.tx = u]
          BY <1>2, <1>5, <2>4
      <4> HIDE DEF new, u
      <4> QED
          BY <1>6, <4>1, TxSet
    <3>2. m \in Nat /\ DOMAIN z.tx = 1 .. m
        BY <1>5, ListIs
    <3>3. IsList(u) /\ Len(u) = m + 1 /\ u[m + 1] = q /\ \A k \in 1 .. m : u[k] = z.tx[k]
        BY <1>5, AppendIs
    <3>4. DOMAIN u = 1 .. m + 1
        BY <3>3, ListIs
    <3>5. \E g \in [DOMAIN u -> 1 .. n + 1] : Thins(t, u, g)
        BY <1>3, <1>5, <2>1, ThinsOn DEF p
    <3> HIDE DEF new, gone, u, m
    <3>6. \A k \in DOMAIN u : PacketFits(u[k], L \ {s})
      <4>1. \A k \in 1 .. m + 1 : k \in 1 .. m \/ k = m + 1
          BY <3>2
      <4> QED
          BY <1>3, <2>2, <3>2, <3>3, <3>4, <4>1
    <3>7. GoesOn(z.tx, u)
        BY <3>2, <3>3, <3>4 DEF GoesOn
    <3>8. \E k \in DOMAIN u : u[k] = q
        BY <3>2, <3>3, <3>4
    <3>9. /\ \A k : k # b => (Silent(z.tx, k) => Silent(u, k)) /\ (Alone(z.tx, k) => Alone(u, k))
          /\ Silent(z.tx, b) => Alone(u, b)
          /\ \A k : k # b => (AllPlain(z.tx, k) => AllPlain(u, k))
          /\ AllPlain(z.tx, b) /\ Plain(q) => AllPlain(u, b)
        BY <1>3, <1>5, JoinsAlone DEF u
    <3> QED
        BY <3>1, <3>3, <3>5, <3>6, <3>7, <3>8, <3>9
  <2> QED
      BY <2>3, <2>4
<1> HIDE DEF new
<1>8. /\ Keeps(y, new) /\ new.tx = u /\ new.pcb = y.pcb /\ new.ready = y.ready
      /\ SameTypes(y.svc, new.svc)
    BY <1>7 DEF Keeps
<1>9. IsServer(new) /\ Stays(x, new)
  <2>1. IsServer(new)
      BY <1>6, <1>7, <1>8 DEF IsServer, Keeps, SameTypes
  <2>2. Stays(x, z) /\ Stays(y, new)
      BY <1>8 DEF Cleared, Stays
  <2> QED
      BY <1>6, <2>1, <2>2, StaysOn
<1>14. SameTypes(z.svc, new.svc) /\ IsServices(z.svc) /\ Typed(z.svc, L) /\ Typed(new.svc, L)
  <2>1. SameTypes(z.svc, y.svc)
      BY <1>6 DEF Stays, Keeps
  <2>2. IsServices(z.svc) /\ Typed(z.svc, L)
      BY <1>1 DEF IsServer, Cleared
  <2>3. SameTypes(z.svc, new.svc)
      BY <1>8, <2>1 DEF SameTypes
  <2> QED
      BY <2>2, <2>3, TypedStays
<1>10. \A k \in Pcbs : Range(new.pcb[k].services) \subseteq L
  <2>1. \A k \in Pcbs : Range(z.pcb[k].services) \subseteq L
      BY DEF Cleared
  <2> QED
      BY <1>1, <1>4, <1>8, <2>1 DEF AlikeBut
<1>11. ASSUME NEW k \in Pcbs PROVE Waits(new, t, n + 1, s, k)
  <2>1. Waits(z, t, n, s, k)
      BY DEF Cleared
  <2>2. new.ready = z.ready /\ new.pcb[k] = y.pcb[k]
      BY <1>4, <1>8
  <2>3. p.pcb = b /\ p = t[n + 1] /\ n + 1 > n
      BY DEF b, p
  <2>6. Range(z.pcb[k].services) \subseteq Svcs /\ Range(new.pcb[k].services) \subseteq Svcs
      BY <1>10, <1>14 DEF Cleared, Typed
  <2>7. ASSUME NEW e, NEW S, ProbesFor(e, k, z.pcb[k], z.svc, S)
        PROVE  ProbesFor(e, k, z.pcb[k], new.svc, S)
      BY <1>14, <2>6, <2>7, ProbesStay
  <2>4. CASE k # b
    <3>1. y.pcb[k] = z.pcb[k]
        BY <1>4, <2>4 DEF AlikeBut
    <3>2. ASSUME NEW i \in DOMAIN t, i > n, t[i].pcb = k PROVE i > n + 1
      <4>1. i # n + 1
          BY <2>3, <2>4, <3>2
      <4>2. i \in Int
          BY ListIs
      <4> QED
          BY <3>2, <4>1, <4>2
    <3>3. ASSUME NEW i \in DOMAIN t, i > n + 1 PROVE i > n
      <4>1. i \in Int
          BY ListIs
      <4> QED
          BY <3>3, <4>1
    <3>4. ASSUME Silent(z.tx, k), NEW i \in DOMAIN t, i > n, ProbesFor(t[i], k, z.pcb[k], z.svc, {})
          PROVE  /\ Silent(new.tx, k) /\ i > n + 1
                 /\ ProbesFor(t[i], k, new.pcb[k], new.svc, {})
      <4>1. t[i].pcb = k
          BY <3>4 DEF ProbesFor
      <4> QED
          BY <1>7, <1>8, <2>2, <2>4, <2>7, <3>1, <3>2, <3>4, <4>1
    <3>5. ASSUME Alone(z.tx, k), NEW i \in DOMAIN z.tx, ProbesFor(z.tx[i], k, z.pcb[k], z.svc, {s})
          PROVE  /\ Alone(new.tx, k)
                 /\ \E j \in DOMAIN new.tx : ProbesFor(new.tx[j], k, new.pcb[k], new.svc, {s})
      <4>1. Alone(new.tx, k) /\ i \in DOMAIN new.tx /\ new.tx[i] = z.tx[i]
          BY <1>7, <1>8, <2>4, <3>5 DEF GoesOn
      <4>2. ProbesFor(new.tx[i], k, new.pcb[k], new.svc, {s})
          BY <2>2, <2>7, <3>1, <3>5, <4>1
      <4> QED
          BY <4>1, <4>2
    <3>6. AllPlain(z.tx, k) => AllPlain(new.tx, k)
        BY <1>7, <1>8, <2>4
    <3> DEFINE r == z.pcb[k]
    <3>7. new.pcb[k] = r /\ new.ready = z.ready
        BY <2>2, <3>1
    <3> HIDE DEF r
    <3>8. /\ r.services # <<>> => Probing(r)
          /\ ~Probing(r) =>
               AllPlain(new.tx, k) /\ \A i \in DOMAIN t : i > n + 1 /\ t[i].pcb = k => Plain(t[i])
        BY <2>1, <3>3, <3>6 DEF Waits, r
    <3>9. ASSUME Probing(r)
          PROVE  /\ k \in z.ready /\ Alone(t, k)
                 /\ \/ /\ Silent(new.tx, k)
                       /\ \E i \in DOMAIN t : i > n + 1 /\ ProbesFor(t[i], k, r, new.svc, {})
                    \/ /\ s \notin Range(r.services) /\ Alone(new.tx, k)
                       /\ \E i \in DOMAIN new.tx : ProbesFor(new.tx[i], k, r, new.svc, {s})
                       /\ \A i \in DOMAIN t : i > n + 1 => t[i].pcb # k
      <4>1. /\ k \in z.ready /\ Alone(t, k)
            /\ \/ /\ Silent(z.tx, k)
                  /\ \E i \in DOMAIN t : i > n /\ ProbesFor(t[i], k, z.pcb[k], z.svc, {})
               \/ /\ s \notin Range(r.services) /\ Alone(z.tx, k)
                  /\ \E i \in DOMAIN z.tx : ProbesFor(z.tx[i], k, z.pcb[k], z.svc, {s})
                  /\ \A i \in DOMAIN t : i > n => t[i].pcb # k
          BY <2>1, <3>9 DEF Waits, r
      <4>2. CASE /\ Silent(z.tx, k)
                 /\ \E i \in DOMAIN t : i > n /\ ProbesFor(t[i], k, z.pcb[k], z.svc, {})
          BY <3>4, <3>7, <4>1, <4>2
      <4>3. CASE /\ s \notin Range(r.services) /\ Alone(z.tx, k)
                 /\ \E i \in DOMAIN z.tx : ProbesFor(z.tx[i], k, z.pcb[k], z.svc, {s})
                 /\ \A i \in DOMAIN t : i > n => t[i].pcb # k
        <5>1. \A i \in DOMAIN t : i > n + 1 => t[i].pcb # k
            BY <3>3, <4>3
        <5>2. Alone(new.tx, k) /\ \E j \in DOMAIN new.tx : ProbesFor(new.tx[j], k, r, new.svc, {s})
            BY <3>5, <3>7, <4>3
        <5> QED
            BY <4>1, <4>3, <5>1, <5>2
      <4> QED
          BY <4>1, <4>2, <4>3
    <3> QED
        BY <3>7, <3>8, <3>9 DEF Waits
  <2>5. CASE k = b
    <3>1. new.pcb[k].services # <<>> => Probing(new.pcb[k])
        BY <1>4, <2>2, <2>5
    <3>2. ASSUME Probing(new.pcb[k])
          PROVE  /\ k \in new.ready /\ Alone(t, k)
                 /\ s \notin Range(new.pcb[k].services) /\ Alone(new.tx, k)
                 /\ \E i \in DOMAIN new.tx : ProbesFor(new.tx[i], k, new.pcb[k], new.svc, {s})
                 /\ \A i \in DOMAIN t : i > n + 1 => t[i].pcb # k
      <4>1. StillProbes(z.pcb[k], new.pcb[k], s, c.questions)
          BY <1>4, <2>2, <2>5, <3>2
      <4>2. /\ Probing(z.pcb[k]) /\ s \notin Range(new.pcb[k].services)
            /\ Range(new.pcb[k].services) \subseteq Range(z.pcb[k].services)
          BY <1>4, <2>2, <2>5, <4>1 DEF StillProbes
      <4>3. /\ k \in z.ready /\ Alone(t, k) /\ Silent(z.tx, k)
            /\ \E i \in DOMAIN t : i > n /\ ProbesFor(t[i], k, z.pcb[k], z.svc, {})
          BY <2>1, <2>3, <2>5, <4>2 DEF Waits
      <4>4. ProbesFor(p, k, z.pcb[k], z.svc, {})
        <5>1. PICK i \in DOMAIN t : ProbesFor(t[i], k, z.pcb[k], z.svc, {})
            BY <4>3
        <5>2. i = n + 1
            BY <2>3, <2>5, <4>3, <5>1 DEF Alone, ProbesFor
        <5> QED
            BY <2>3, <5>1, <5>2
      <4>5. AsksEnough(q.qs, new.pcb[k], new.svc, {s})
        <5>1. IsPcb(z.pcb[k]) /\ IsPcb(new.pcb[k]) /\ AsksEnough(p.qs, z.pcb[k], z.svc, {})
            BY <1>1, <1>9, <4>4 DEF IsServer, ProbesFor
        <5>2. IsList(p.qs)
            BY <2>3 DEF PacketFits, IsPacket
        <5>3. Typed(z.svc, Range(z.pcb[k].services))
            BY <1>14 DEF Typed, Cleared
        <5>4. AsksEnough(q.qs, new.pcb[k], z.svc, {s})
          <6>1. /\ c.questions => q.qs = RemoveFirstQuestion(p.qs, z.svc[s].type)
                /\ ~c.questions => q.qs = p.qs
              BY <1>3 DEF qs
          <6> QED
              BY <4>1, <5>1, <5>2, <5>3, <6>1, StillEnough
        <5> QED
            BY <1>14, <2>6, <5>4, EnoughStays DEF AsksEnough
      <4>6. \A e \in Range(new.pcb[k].services) : Claims(q.servers, e)
        <5>1. \A e \in Range(new.pcb[k].services) : e # s /\ Claims(p.servers, e)
            BY <4>2, <4>4 DEF ProbesFor
        <5>2. Refers(p.servers, L)
            BY <2>3 DEF PacketFits
        <5> QED
            BY <1>3, <5>1, <5>2, DeallocServiceAnswersIs
      <4>7. ProbesFor(q, k, new.pcb[k], new.svc, {s})
          BY <1>3, <2>5, <4>5, <4>6 DEF ProbesFor
      <4>8. ~gone
          BY <4>5 DEF AsksEnough
      <4>9. /\ Alone(new.tx, k)
            /\ \E i \in DOMAIN new.tx : ProbesFor(new.tx[i], k, new.pcb[k], new.svc, {s})
        <5>1. (\E i \in DOMAIN u : u[i] = q) /\ Alone(u, k)
            BY <1>7, <2>5, <4>3, <4>8
        <5> QED
            BY <1>8, <4>7, <5>1
      <4>10. ASSUME NEW i \in DOMAIN t, i > n + 1 PROVE t[i].pcb # k
        <5>1. i # n + 1
          <6>1. i \in Int
              BY ListIs
          <6> QED
              BY <4>10, <6>1
        <5> QED
            BY <2>3, <2>5, <4>3, <5>1 DEF Alone
      <4> QED
          BY <2>2, <4>2, <4>3, <4>9, <4>10
    <3>3. ASSUME ~Probing(new.pcb[k])
          PROVE  /\ AllPlain(new.tx, k)
                 /\ \A i \in DOMAIN t : i > n + 1 /\ t[i].pcb = k => Plain(t[i])
      <4>1. p \in Range(t) /\ IsList(p.qs) /\ n + 1 \in Int
          BY <2>3, ListIs DEF PacketFits, IsPacket
      <4>2. Range(qs) \subseteq Range(p.qs) /\ IsList(qs)
          BY <4>1, RemoveFirstQuestionIs DEF qs
      <4>3. CASE Probing(z.pcb[k])
        <5>1. c.questions /\ Range(z.pcb[k].services) = {s} /\ ~z.pcb[k].ip
            BY <1>4, <2>2, <2>5, <3>3, <4>3
        <5>2. /\ Alone(t, k) /\ Silent(z.tx, k)
              /\ \E i \in DOMAIN t : i > n /\ ProbesFor(t[i], k, z.pcb[k], z.svc, {})
            BY <2>1, <2>3, <2>5, <4>3, <5>1 DEF Waits
        <5>3. PICK i \in DOMAIN t : ProbesFor(t[i], k, z.pcb[k], z.svc, {})
            BY <5>2
        <5>4. i = n + 1
            BY <2>3, <2>5, <5>2, <5>3 DEF Alone, ProbesFor
        <5>5. AsksEnough(p.qs, z.pcb[k], z.svc, {})
            BY <2>3, <5>3, <5>4 DEF ProbesFor
        <5>6. Typed(z.svc, {s})
            BY <1>14, <5>1 DEF Typed, Cleared
        <5>7. DOMAIN qs = {}
            BY <4>1, <5>1, <5>5, <5>6, NoneLeft DEF qs
        <5>8. Plain(q)
            BY <1>3, <5>1, <5>7 DEF Plain
        <5>9. AllPlain(new.tx, k)
            BY <1>7, <1>8, <2>5, <5>2, <5>8 DEF AllPlain, Silent
        <5>10. ASSUME NEW j \in DOMAIN t, j > n + 1, t[j].pcb = k PROVE FALSE
          <6>1. j = n + 1
              BY <2>3, <2>5, <5>2, <5>10 DEF Alone
          <6> QED
              BY <4>1, <5>10, <6>1
        <5> QED
            BY <5>9, <5>10
      <4>4. CASE ~Probing(z.pcb[k])
        <5>1. AllPlain(z.tx, k) /\ \A i \in DOMAIN t : i > n /\ t[i].pcb = k => Plain(t[i])
            BY <2>1, <4>4 DEF Waits
        <5>2. Plain(p)
            BY <2>3, <2>5, <5>1
        <5>3. Plain(q)
          <6>1. \A e \in Range(p.qs) : e.of = None
              BY <5>2 DEF Plain, Range
          <6>2. \A e \in Range(q.qs) : e.of = None
              BY <1>3, <4>2, <6>1
          <6> QED
              BY <6>2 DEF Plain, Range
        <5>4. AllPlain(new.tx, k)
            BY <1>7, <1>8, <2>5, <5>1, <5>3
        <5>5. ASSUME NEW j \in DOMAIN t, j > n + 1 PROVE j > n
          <6>1. j \in Int
              BY ListIs
          <6> QED
              BY <5>5, <6>1
        <5> QED
            BY <5>1, <5>4, <5>5
      <4> QED
          BY <4>3, <4>4
    <3> QED
        BY <3>1, <3>2, <3>3 DEF Waits
  <2> QED
      BY <2>4, <2>5
<1>12. \A k \in DOMAIN new.tx : PacketFits(new.tx[k], L \ {s})
    BY <1>7, <1>8
<1>13. \E f \in [DOMAIN new.tx -> 1 .. n + 1] : Thins(t, new.tx, f)
    BY <1>7, <1>8
<1> QED
    BY <1>9, <1>10, <1>11, <1>12, <1>13, <1>14 DEF Cleared, new, p

\* The packets are looked at one after the other.
Removes(r, n, x, s, as) ==
    /\ r[0] = [x EXCEPT !.tx = <<>>]
    /\ r[n] = FoldLeft(LAMBDA z, p : RemoveServiceFromPacket(z, p, s), [x EXCEPT !.tx = <<>>], as)
    /\ \A i \in 1 .. n : r[i] = RemoveServiceFromPacket(r[i - 1], as[i], s)

\* The fold takes these steps.
LEMMA RemoveServiceFold ==
    ASSUME NEW x, NEW s, NEW as,
           NEW n \in Nat, DOMAIN as = 1 .. n
    PROVE  \E r : Removes(r, n, x, s, as)
<1> DEFINE Op(y, i) == RemoveServiceFromPacket(y, as[i], s)
           After(g, c) == IF c = {} THEN [x EXCEPT !.tx = <<>>] ELSE Op(g[c \ {Max(c)}], Max(c))
           Is(k, g) == g = [c \in SUBSET (1 .. k) |-> After(g, c)]
           fold == CHOOSE g : Is(n, g)
           T == {k \in 0 .. n : \E g : Is(k, g)}
<1>1. FoldLeft(LAMBDA z, p : RemoveServiceFromPacket(z, p, s), [x EXCEPT !.tx = <<>>], as) = fold[1 .. n]
    BY DEF FoldLeft, MapThenFoldSet
<1> HIDE DEF Op
<1>2. Is(0, [c \in SUBSET (1 .. 0) |-> [x EXCEPT !.tx = <<>>]])
    OBVIOUS
<1>3. ASSUME NEW k \in 0 .. n - 1, NEW g, Is(k, g) PROVE \E h : Is(k + 1, h)
  <2> DEFINE h == [c \in SUBSET (1 .. k + 1) |->
                     IF k + 1 \in c THEN Op(g[c \ {k + 1}], k + 1) ELSE g[c]]
  <2>0. \A c \in SUBSET (1 .. k) : g[c] = After(g, c)
      BY <1>3
  <2>1. /\ \A c \in SUBSET (1 .. k) : h[c] = g[c]
        /\ \A c \in SUBSET (1 .. k + 1) : k + 1 \in c => h[c] = Op(g[c \ {k + 1}], k + 1)
        /\ h = [c \in SUBSET (1 .. k + 1) |-> h[c]]
      OBVIOUS
  <2> HIDE DEF h
  <2>2. \A c \in SUBSET (1 .. k + 1) : h[c] = After(h, c)
      BY k \in Nat, <2>0, <2>1, PlacesUpTo
  <2> QED
      BY <2>1, <2>2
<1>4. Is(n, fold)
  <2> HIDE DEF Is
  <2>1. 0 \in T /\ \A k \in 0 .. n - 1 : k \in T => k + 1 \in T
      BY <1>2, <1>3
  <2> HIDE DEF T
  <2>2. 0 .. n \subseteq T
      BY <2>1, UpFromZero
  <2> QED
      BY <2>2 DEF T
<1> HIDE DEF fold
<1> DEFINE r == [i \in 0 .. n |-> fold[1 .. i]]
<1>5. r[0] = [x EXCEPT !.tx = <<>>] /\ r[n] = fold[1 .. n]
  <2>1. 1 .. 0 = {} /\ r[0] = fold[1 .. 0] /\ r[n] = fold[1 .. n]
      OBVIOUS
  <2>2. fold[{}] = [x EXCEPT !.tx = <<>>]
      BY <1>4
  <2> QED
      BY <2>1, <2>2
<1>6. ASSUME NEW i \in 1 .. n PROVE r[i] = Op(r[i - 1], i)
  <2>1. r[i] = fold[1 .. i] /\ r[i - 1] = fold[1 .. i - 1]
      OBVIOUS
  <2>2. fold[1 .. i] = Op(fold[(1 .. i) \ {Max(1 .. i)}], Max(1 .. i))
      BY <1>4, PlacesBefore
  <2> HIDE DEF r
  <2> QED
      BY <2>1, <2>2, PlacesBefore
<1> HIDE DEF r
<1>7. Removes(r, n, x, s, as)
    BY <1>1, <1>5, <1>6 DEF Op, Removes
<1> QED
    BY <1>7

\* When the service is gone from the packets, what is left fits without it, but for the
\* strings of its own that questions may still have.
LEMMA RemoveScheduledServicePacketsIs ==
    ASSUME NEW x, NEW L, NEW w, NEW bad, Fit(x, L, w, bad), NEW s
    PROVE  LET y == RemoveScheduledServicePackets(x, s)
           IN  Leaving(y, L \ {s}, w, bad, s) /\ Stays(x, y)
<1> DEFINE t == x.tx
           n == Len(t)
           x0 == [x EXCEPT !.tx = <<>>]
           y == RemoveScheduledServicePackets(x, s)
<1>1. IsServer(x) /\ IsList(t) /\ n \in Nat /\ DOMAIN t = 1 .. n
    BY ListIs DEF Fit, IsServer
<1>2. \A k \in 1 .. n : PacketFits(t[k], L)
    BY <1>1 DEF Fit, Refs
<1>3. PICK r : Removes(r, n, x, s, t)
    BY <1>1, RemoveServiceFold
<1>4. y = r[n]
    BY <1>3 DEF Removes, RemoveScheduledServicePackets
<1>5. /\ Keeps(x, x0) /\ x0.tx = <<>> /\ x0.pcb = x.pcb /\ x0.ready = x.ready
      /\ x0.svc = x.svc
    BY <1>1, TxSet
<1>6. r[0] = x0
    BY <1>3 DEF Removes
<1> HIDE DEF n, t, x0, y
<1> DEFINE Done(i) == Cleared(x, r[i], t, i, s, L)
<1>7. Done(0)
  <2>1. IsList(<<>>) /\ DOMAIN <<>> = {}
      BY DEF IsList, Range
  <2>2. IsServer(x0) /\ Stays(x, x0)
      BY <1>1, <1>5, <2>1 DEF IsServer, Keeps, Stays
  <2>3. \A k \in DOMAIN x0.tx : PacketFits(x0.tx[k], L \ {s})
      BY <1>5, <2>1
  <2>4. \E f \in [DOMAIN x0.tx -> 1 .. 0] : Thins(t, x0.tx, f)
    <3> DEFINE f == [j \in {} |-> 0]
    <3>1. f \in [DOMAIN x0.tx -> 1 .. 0] /\ Thins(t, x0.tx, f)
        BY <1>5, <2>1 DEF Thins, Rising
    <3> QED
        BY <3>1
  <2>5. \A b \in Pcbs : Range(x0.pcb[b].services) \subseteq L
      BY <1>5 DEF Fit, Refs
  <2>6. \A b \in Pcbs : Waits(x0, t, 0, s, b)
    <3>1. \A k \in DOMAIN t : k > 0
        BY <1>1
    <3>2. \A b : Silent(x0.tx, b)
        BY <1>5, <2>1 DEF Silent
    <3> QED
        BY <1>5, <3>1, <3>2 DEF Fit, Covered, CoveredBy, Waits, t, AllPlain, Silent
  <2>7. Typed(x0.svc, L)
      BY <1>5 DEF Fit, Refs
  <2> QED
      BY <1>6, <2>2, <2>3, <2>4, <2>5, <2>6, <2>7 DEF Cleared
<1>8. ASSUME NEW i \in 1 .. n, Done(i - 1) PROVE Done(i)
  <2>1. r[i] = RemoveServiceFromPacket(r[i - 1], t[i], s)
      BY <1>3 DEF Removes
  <2>2. i - 1 \in Nat /\ i - 1 + 1 = i /\ i \in DOMAIN t
      BY <1>1
  <2> DEFINE m == i - 1
  <2>3. m \in Nat /\ m + 1 = i
      BY <2>2
  <2> HIDE DEF m
  <2>4. Cleared(x, r[m], t, m, s, L)
      BY <1>8 DEF m
  <2>5. Cleared(x, RemoveServiceFromPacket(r[m], t[m + 1], s), t, m + 1, s, L)
      BY <1>1, <1>2, <2>2, <2>3, <2>4, RemoveServiceFromPacketIs
  <2>6. r[i] = RemoveServiceFromPacket(r[m], t[m + 1], s)
      BY <2>1, <2>3 DEF m
  <2> QED
      BY <2>3, <2>5, <2>6
<1> HIDE DEF Done
<1>9. Done(n)
  <2> DEFINE T == {i \in 0 .. n : Done(i)}
  <2>1. 0 \in T
      BY <1>1, <1>7
  <2>2. \A i \in 1 .. n : i - 1 \in T => i \in T
    <3>1. \A i \in 1 .. n : i \in 0 .. n
        OBVIOUS
    <3> QED
        BY <1>8, <3>1
  <2> HIDE DEF T
  <2>3. n \in T
      BY <1>1, <2>1, <2>2, UpTo
  <2> QED
      BY <2>3 DEF T
<1>10. Cleared(x, y, t, n, s, L)
    BY <1>4, <1>9 DEF Done
<1>11. IsServer(y) /\ Stays(x, y) /\ IsList(y.tx)
    BY <1>10 DEF Cleared, IsServer
<1>12. ASSUME NEW b \in Pcbs PROVE CoveredBy(y, b, {s}) /\ Range(y.pcb[b].services) \subseteq L \ {s}
  <2>1. Waits(y, t, n, s, b) /\ Range(y.pcb[b].services) \subseteq L
      BY <1>10 DEF Cleared
  <2>2. ~ \E k \in DOMAIN t : k > n
      BY <1>1
  <2>3. CoveredBy(y, b, {s})
      BY <2>1, <2>2 DEF CoveredBy, Waits
  <2>4. y.pcb[b].services # <<>> => s \notin Range(y.pcb[b].services)
      BY <1>12, <2>1, <2>2 DEF Waits
  <2>5. y.pcb[b].services = <<>> => Range(y.pcb[b].services) = {}
      BY DEF Range
  <2> QED
      BY <2>1, <2>3, <2>4, <2>5
<1>13. Refs(y, L \ {s})
  <2>1. y.host = x.host
      BY <1>11 DEF Stays, Keeps
  <2>2. y.host = None => L \ {s} = {}
      BY <2>1 DEF Fit, Refs
  <2>3. \A k \in DOMAIN y.tx : PacketFits(y.tx[k], L \ {s})
      BY <1>10 DEF Cleared
  <2>4. Typed(y.svc, L \ {s})
      BY <1>10 DEF Cleared, Typed
  <2> QED
      BY <1>12, <2>2, <2>3, <2>4 DEF Refs
<1>14. QueueFits(y.tx, w, bad)
  <2>1. Thinned(t, y.tx)
      BY <1>1, <1>10 DEF Cleared, Thinned
  <2>2. QueueFits(t, w, bad)
      BY DEF Fit, t
  <2> QED
      BY <1>1, <1>11, <2>1, <2>2, ThinnedFits
<1> QED
    BY <1>11, <1>12, <1>13, <1>14 DEF Leaving, y

-----------------------------------------------------------------------------
(* The task handles a packet that the timer has handed over.                 *)

\* An action that is not for the head of the queue leaves the line.
LEMMA OthersActionLeaves ==
    ASSUME NEW t, IsList(t), NEW a, NEW w, IsList(w), NEW v, v = <<a>> \o w, NEW bad,
           QueueFits(t, v, bad), t # <<>> => ~(IsQueued(t[1]) /\ IsFor(a, t[1]))
    PROVE  QueueFits(t, w, bad)
<1> SUFFICES ASSUME Handed(t, v) PROVE Handed(t, w)
    BY DEF QueueFits
<1> DEFINE n == Len(t)
           m == Len(w)
           one == <<a>>
<1>1. n \in Nat /\ DOMAIN t = 1 .. n /\ m \in Nat /\ DOMAIN w = 1 .. m
    BY ListIs
<1>2. IsList(one) /\ Len(one) = 1 /\ one[1] = a
    BY DEF IsList, Range
<1> HIDE DEF one
<1>3. IsList(v) /\ Len(v) = Len(one) + m
    BY <1>2, ConcatIs DEF one
<1>4. \A i \in 1 .. Len(one) : v[i] = one[i]
    BY <1>2, ConcatIs DEF one
<1>5. \A i \in 1 .. Len(w) : v[Len(one) + i] = w[i]
    BY <1>2, ConcatIs DEF one
<1> HIDE DEF n, m
<1>6. DOMAIN v = 1 .. m + 1 /\ v[1] = a /\ \A i \in 1 .. m : v[i + 1] = w[i]
  <2>1. DOMAIN v = 1 .. Len(v)
      BY <1>3, ListIs
  <2>2. Len(v) = m + 1
      BY <1>1, <1>2, <1>3
  <2>3. \A i \in 1 .. m : 1 + i = i + 1
      BY <1>1
  <2> QED
      BY <1>2, <1>4, <1>5, <2>1, <2>2, <2>3 DEF m
<1>7. PICK f \in [HandedPart(t) -> DOMAIN v] : InLine(t, v, f)
    BY DEF Handed
<1>8. \A i \in HandedPart(t) : f[i] \in 1 .. m + 1 /\ f[i] # 1
  <2>1. SUFFICES ASSUME NEW i \in HandedPart(t), f[i] = 1 PROVE FALSE
      BY <1>6, <1>7
  <2>2. i \in 1 .. n
      BY <1>1 DEF HandedPart
  <2>3. 1 \in HandedPart(t) /\ 1 <= i /\ t # <<>>
    <3>1. 1 \in 1 .. n /\ 1 \in 1 .. i /\ 1 <= i
        BY <1>1, <2>2
    <3>2. IsQueued(t[1])
        BY <3>1 DEF Handed
    <3>3. t # <<>>
        BY <1>1, <3>1
    <3> QED
        BY <1>1, <3>1, <3>2, <3>3 DEF HandedPart
  <2>4. f[1] \in 1 .. m + 1
      BY <1>6, <1>7, <2>3
  <2>5. i = 1
    <3>1. 1 < i => f[1] < f[i]
        BY <1>7, <2>3 DEF InLine
    <3>2. ~(1 < i)
        BY <1>1, <2>1, <2>4, <3>1
    <3> QED
        BY <2>2, <2>3, <3>2
  <2>6. IsFor(a, t[1])
      BY <1>6, <1>7, <2>1, <2>3, <2>5 DEF InLine
  <2> QED
      BY <2>3, <2>6 DEF HandedPart
<1> DEFINE g == [i \in HandedPart(t) |-> f[i] - 1]
<1>9. ASSUME NEW i \in HandedPart(t) PROVE g[i] = f[i] - 1 /\ g[i] \in 1 .. m /\ v[f[i]] = w[g[i]]
  <2>1. f[i] - 1 \in 1 .. m /\ f[i] - 1 + 1 = f[i]
      BY <1>1, <1>8
  <2> QED
      BY <1>6, <2>1
<1>10. g \in [HandedPart(t) -> DOMAIN w]
    BY <1>1, <1>9
<1> HIDE DEF g
<1>11. ASSUME NEW i \in HandedPart(t), NEW j \in HandedPart(t), i < j PROVE g[i] < g[j]
  <2>1. f[i] < f[j]
      BY <1>7, <1>11 DEF InLine
  <2>2. f[i] \in Int /\ f[j] \in Int
      BY <1>1, <1>8
  <2> QED
      BY <1>9, <2>1, <2>2
<1>12. InLine(t, w, g)
    BY <1>7, <1>9, <1>11 DEF InLine
<1> QED
    BY <1>10, <1>12 DEF Handed

\* The packet at the head of the queue leaves it, and its action the line.
LEMMA HeadLeaves ==
    ASSUME NEW t, IsList(t), t # <<>>, IsQueued(t[1]), NEW a, NEW w, IsList(w), NEW v, v = <<a>> \o w,
           NEW bad, QueueFits(t, v, bad)
    PROVE  QueueFits(Tail(t), w, bad)
<1> DEFINE n == Len(t)
           m == Len(w)
           one == <<a>>
           u == Tail(t)
<1>1. n \in Nat /\ n > 0 /\ DOMAIN t = 1 .. n /\ m \in Nat /\ DOMAIN w = 1 .. m
    BY ListIs, TailIs
<1>2. DOMAIN u = 1 .. n - 1 /\ \A i \in 1 .. n - 1 : u[i] = t[i + 1]
    BY TailIs, ListIs
<1>3. IsList(one) /\ Len(one) = 1
    BY DEF IsList, Range
<1> HIDE DEF one
<1>4. IsList(v) /\ Len(v) = Len(one) + m
    BY <1>3, ConcatIs DEF one
<1>5. \A i \in 1 .. Len(w) : v[Len(one) + i] = w[i]
    BY <1>3, ConcatIs DEF one
<1> HIDE DEF n, m, u
<1>6. DOMAIN v = 1 .. m + 1 /\ \A i \in 1 .. m : v[i + 1] = w[i]
  <2>1. DOMAIN v = 1 .. Len(v)
      BY <1>4, ListIs
  <2>2. Len(v) = m + 1
      BY <1>1, <1>3, <1>4
  <2>3. \A i \in 1 .. m : 1 + i = i + 1
      BY <1>1
  <2> QED
      BY <1>3, <1>5, <2>1, <2>2, <2>3 DEF m
<1>7. \A i \in 1 .. n - 1 : i + 1 \in 1 .. n /\ i \in Nat
    BY <1>1
<1>8. Apart(u)
  <2>1. SUFFICES ASSUME NEW i \in 1 .. n - 1, NEW j \in 1 .. n - 1, u[i].id = u[j].id PROVE i = j
      BY <1>2 DEF Apart
  <2>2. t[i + 1].id = t[j + 1].id /\ i + 1 \in 1 .. n /\ j + 1 \in 1 .. n
      BY <1>2, <1>7, <2>1
  <2>3. Apart(t)
      BY DEF QueueFits
  <2>4. i + 1 = j + 1
      BY <1>1, <2>2, <2>3 DEF Apart
  <2> QED
      BY <1>7, <2>4
<1>9. ASSUME Handed(t, v) PROVE Handed(u, w)
  <2>1. PICK f \in [HandedPart(t) -> DOMAIN v] : InLine(t, v, f)
      BY <1>9 DEF Handed
  <2>2. 1 \in HandedPart(t)
      BY <1>1 DEF HandedPart
  <2>3. ASSUME NEW i \in HandedPart(u)
        PROVE  /\ i \in 1 .. n - 1 /\ i + 1 \in HandedPart(t) /\ u[i] = t[i + 1]
               /\ f[i + 1] \in 2 .. m + 1
    <3>1. i \in 1 .. n - 1 /\ i + 1 \in HandedPart(t) /\ u[i] = t[i + 1]
        BY <1>1, <1>2, <1>7 DEF HandedPart
    <3>2. 1 < i + 1
        BY <1>7, <3>1
    <3>3. f[1] < f[i + 1]
        BY <2>1, <2>2, <3>1, <3>2 DEF InLine
    <3>4. f[1] \in 1 .. m + 1 /\ f[i + 1] \in 1 .. m + 1
        BY <1>6, <2>1, <2>2, <3>1
    <3> QED
        BY <1>1, <3>1, <3>3, <3>4
  <2> DEFINE g == [i \in HandedPart(u) |-> f[i + 1] - 1]
  <2>4. ASSUME NEW i \in HandedPart(u)
        PROVE  g[i] = f[i + 1] - 1 /\ g[i] \in 1 .. m /\ v[f[i + 1]] = w[g[i]]
    <3> DEFINE h == f[i + 1]
    <3>1. h \in 2 .. m + 1 /\ g[i] = h - 1
        BY <2>3
    <3> HIDE DEF h, g
    <3>2. h - 1 \in 1 .. m /\ h - 1 + 1 = h
        BY <1>1, <3>1
    <3>3. v[h] = w[h - 1]
        BY <1>6, <3>2
    <3> QED
        BY <3>1, <3>2, <3>3 DEF h
  <2>5. g \in [HandedPart(u) -> DOMAIN w]
      BY <1>1, <2>4
  <2> HIDE DEF g
  <2>6. ASSUME NEW i \in HandedPart(u), NEW j \in HandedPart(u), i < j PROVE g[i] < g[j]
    <3>1. i + 1 < j + 1
        BY <1>7, <2>3, <2>6
    <3>2. f[i + 1] < f[j + 1]
        BY <2>1, <2>3, <3>1 DEF InLine
    <3>3. f[i + 1] \in Int /\ f[j + 1] \in Int
        BY <1>1, <2>3
    <3> QED
        BY <2>4, <3>2, <3>3
  <2>7. InLine(u, w, g)
      BY <2>1, <2>3, <2>4, <2>6 DEF InLine
  <2>8. ASSUME NEW i \in HandedPart(u) PROVE u[i].at = Now /\ \A j \in 1 .. i : IsQueued(u[j])
    <3>1. u[i].at = Now
        BY <1>9, <2>3 DEF Handed
    <3>2. ASSUME NEW j \in 1 .. i PROVE IsQueued(u[j])
      <4>1. j \in 1 .. n - 1 /\ j + 1 \in 1 .. i + 1
          BY <1>1, <2>3
      <4>2. IsQueued(t[j + 1])
          BY <1>9, <2>3, <4>1 DEF Handed
      <4> QED
          BY <1>2, <4>1, <4>2
    <3> QED
        BY <3>1, <3>2
  <2> QED
      BY <2>5, <2>7, <2>8 DEF Handed
<1> QED
    BY <1>8, <1>9 DEF QueueFits, u

\* What the pcb of a packet probes for, this packet claims, and no other one waits.
Carries(x, p, b) ==
    /\ x.pcb[b].services # <<>> => Probing(x.pcb[b])
    /\ ~Probing(x.pcb[b]) => AllPlain(x.tx, b) /\ Plain(p)
    /\ Probing(x.pcb[b]) =>
         b \in x.ready /\ ProbesFor(p, b, x.pcb[b], x.svc, {}) /\ Silent(x.tx, b)

\* A packet is sent once more, and its pcb is moved on.
LEMMA SendAgainIs ==
    ASSUME NEW x, NEW L, NEW w, NEW bad, NEW b \in Pcbs, FitBut(x, L, w, bad, {b}),
           NEW p, PacketFits(p, L), ~IsQueued(p), p.id \notin LiveIds(x), p.pcb = b, Carries(x, p, b),
           NEW s \in Off .. Running, s \in Probe1 .. Probe3 <=> Probing(x.pcb[b]),
           NEW delay \in Nat
    PROVE  LET y == SendAfter(SetPcbState(x, b, s), p, delay)
           IN  Fit(y, L, w, bad) /\ Stays(x, y)
<1> DEFINE x1 == SetPcbState(x, b, s)
           y == SendAfter(x1, p, delay)
<1>1. IsServer(x) /\ Refs(x, L)
    BY FitBy
<1>2. /\ AlikeBut(x, x1, b) /\ x1.ready = x.ready /\ IsPcb(x1.pcb[b])
      /\ x1.pcb[b].state = s /\ x1.pcb[b].services = x.pcb[b].services
      /\ x1.pcb[b].ip = x.pcb[b].ip /\ x1.svc = x.svc
    BY <1>1, SetPcbStateIs
<1> HIDE DEF x1
<1>3. FitBut(x1, L, w, bad, {b})
  <2>1. Range(x1.pcb[b].services) \subseteq L
      BY <1>1, <1>2 DEF Refs
  <2> QED
      BY <1>2, <2>1, FitAlikeBut
<1>4. Keeps(x, x1) /\ x1.tx = x.tx /\ p.id \notin LiveIds(x1)
    BY <1>2 DEF AlikeBut, LiveIds
<1>5. /\ FitBut(y, L, w, bad, {b}) /\ Keeps(x1, y) /\ y.pcb = x1.pcb /\ y.ready = x1.ready
      /\ Silent(x1.tx, b) => Alone(y.tx, b)
      /\ Sent(p, y.tx)
      /\ Plain(p) /\ AllPlain(x1.tx, b) => AllPlain(y.tx, b)
  <2>1. FitBut(y, L, w, bad, {b}) /\ Keeps(x1, y) /\ y.pcb = x1.pcb /\ y.ready = x1.ready
      BY <1>3, <1>4, SendAfterIs
  <2>2. Silent(x1.tx, b) => Alone(y.tx, b)
      BY <1>3, <1>4, SendAfterIs
  <2>3. Sent(p, y.tx)
      BY <1>3, <1>4, SendAfterIs
  <2>4. Plain(p) /\ AllPlain(x1.tx, b) => AllPlain(y.tx, b)
      BY <1>3, <1>4, SendAfterIs
  <2> HIDE DEF y
  <2> QED
      BY <2>1, <2>2, <2>3, <2>4
<1> HIDE DEF y
<1>6. Covered(y, b)
  <2>1. y.pcb[b].services # <<>> => Probing(y.pcb[b])
      BY <1>2, <1>5 DEF Carries, Probing
  <2>2. ASSUME Probing(y.pcb[b])
        PROVE  /\ b \in y.ready /\ Alone(y.tx, b)
               /\ \E k \in DOMAIN y.tx : ProbesFor(y.tx[k], b, y.pcb[b], y.svc, {})
    <3>1. Probing(x.pcb[b])
        BY <1>2, <1>5, <2>2 DEF Probing
    <3>2. b \in x.ready /\ ProbesFor(p, b, x.pcb[b], x.svc, {}) /\ Silent(x.tx, b)
        BY <3>1 DEF Carries
    <3>3. y.pcb[b].services = x.pcb[b].services /\ y.pcb[b].ip = x.pcb[b].ip
        BY <1>2, <1>5
    <3>4. PICK k \in DOMAIN y.tx : y.tx[k].pcb = b /\ y.tx[k].servers = p.servers /\ y.tx[k].qs = p.qs
        BY <1>5 DEF Sent
    <3>5. ProbesFor(y.tx[k], b, y.pcb[b], y.svc, {})
      <4>1. ProbesFor(y.tx[k], b, y.pcb[b], x.svc, {})
          BY <3>2, <3>3, <3>4 DEF ProbesFor, AsksEnough
      <4>2. SameTypes(x.svc, y.svc)
          BY <1>2, <1>5 DEF Keeps
      <4>3. IsServices(x.svc)
          BY <1>1 DEF IsServer
      <4>4. Range(y.pcb[b].services) \subseteq Svcs
          BY <1>1, <3>3, RefsKnown
      <4> QED
          BY <4>1, <4>2, <4>3, <4>4, ProbesStay
    <3> QED
        BY <1>2, <1>4, <1>5, <3>2, <3>5
  <2>3. ASSUME ~Probing(y.pcb[b]) PROVE AllPlain(y.tx, b)
    <3>1. ~Probing(x.pcb[b])
        BY <1>2, <1>5, <2>3 DEF Probing
    <3> QED
        BY <1>4, <1>5, <3>1 DEF Carries
  <2> QED
      BY <2>1, <2>2, <2>3 DEF Covered, CoveredBy
<1>7. Fit(y, L, w, bad)
    BY <1>5, <1>6, FitBy
<1>8. Keeps(x, y)
    BY <1>4, <1>5, KeepsOn
<1> QED
    BY <1>2, <1>5, <1>7, <1>8 DEF Stays, y, x1

\* What a packet asks does not matter to what it refers to.
LEMMA PacketAsks ==
    ASSUME NEW L, NEW p, PacketFits(p, L), NEW qs, IsList(qs)
    PROVE  LET q == [p EXCEPT !.qs = qs]
           IN  /\ PacketFits(q, L) /\ q.id = p.id /\ q.pcb = p.pcb /\ q.servers = p.servers
               /\ q.qs = qs
               /\ IsQueued(q) <=> IsQueued(p)
<1> DEFINE q == [p EXCEPT !.qs = qs]
<1>1. DOMAIN p = PacketFields /\ IsPacket(p)
    BY DEF PacketFits, IsPacket
<1>2. /\ DOMAIN q = PacketFields /\ q.id = p.id /\ q.pcb = p.pcb /\ q.at = p.at /\ q.queued = p.queued
      /\ q.servers = p.servers /\ q.answers = p.answers /\ q.additional = p.additional
      /\ q.qs = qs
    BY <1>1 DEF PacketFields
<1> HIDE DEF q
<1>3. PacketFits(q, L)
    BY <1>1, <1>2 DEF PacketFits, IsPacket
<1>4. IsQueued(q) <=> IsQueued(p)
    BY <1>2 DEF IsQueued
<1> QED
    BY <1>2, <1>3, <1>4 DEF q

\* Questions that do not ask for a unicast answer any more ask for the same.
LEMMA NotUniIs ==
    ASSUME NEW qs, IsList(qs)
    PROVE  LET new == [i \in DOMAIN qs |-> [qs[i] EXCEPT !.uni = FALSE]]
           IN  /\ IsList(new)
               /\ \A r, svc : AsksEnough(qs, r, svc, {}) => AsksEnough(new, r, svc, {})
<1> DEFINE new == [i \in DOMAIN qs |-> [qs[i] EXCEPT !.uni = FALSE]]
           n == Len(qs)
<1>1. n \in Nat /\ DOMAIN qs = 1 .. n
    BY ListIs
<1>2. IsList(new) /\ Len(new) = n
  <2>1. DOMAIN new = 1 .. n /\ new = [i \in 1 .. n |-> new[i]]
      BY <1>1
  <2> HIDE DEF new, n
  <2> QED
      BY <1>1, <2>1, ListOf
<1>3. DOMAIN new = DOMAIN qs /\ \A i \in DOMAIN qs : new[i] = [qs[i] EXCEPT !.uni = FALSE]
    OBVIOUS
<1>4. qs # <<>> => new # <<>>
    BY <1>1
<1> HIDE DEF new, n
<1>5. ASSUME NEW r, NEW svc, AsksEnough(qs, r, svc, {}) PROVE AsksEnough(new, r, svc, {})
  <2> DEFINE V == Range(r.services)
  <2>1. Enough(qs, V, r.ip, svc, {}) /\ qs # <<>>
      BY <1>5 DEF AsksEnough
  <2>2. ASSUME NEW i \in DOMAIN qs
        PROVE  /\ IsProbeQuestion(new[i]) /\ new[i].svc = qs[i].svc /\ new[i].of = qs[i].of
    <3>1. DOMAIN qs[i] = QuestionFields /\ qs[i].type = "ANY"
        BY <2>1 DEF Enough, IsProbeQuestion
    <3> QED
        BY <1>3, <3>1 DEF IsProbeQuestion, QuestionFields
  <2>3. AsksHost(new) <=> AsksHost(qs)
      BY <1>3, <2>2 DEF AsksHost, IsOfHost
  <2>4. PICK g \in [V -> DOMAIN qs] : NamedBy(g, qs, V, svc, {})
      BY <2>1 DEF Enough, Named
  <2>5. NamedBy(g, new, V, svc, {})
    <3>1. \A i \in DOMAIN new : IsOfHost(new[i]) \/ \E s \in V : g[s] = i
        BY <1>3, <2>2, <2>4 DEF NamedBy, IsOfHost
    <3>2. \A s \in V : StandsFor(new[g[s]], s, svc, {})
        BY <2>2, <2>4 DEF NamedBy, StandsFor, IsOfHost
    <3> QED
        BY <2>4, <3>1, <3>2 DEF NamedBy
  <2>6. Enough(new, V, r.ip, svc, {})
      BY <1>3, <2>1, <2>2, <2>3, <2>4, <2>5 DEF Enough, Named
  <2> QED
      BY <1>4, <2>1, <2>6 DEF AsksEnough
<1> QED
    BY <1>2, <1>5 DEF new

\* A packet that is sent moves its pcb on: it probes again, announces, or is done.
LEMMA ScheduleTxPacketIs ==
    ASSUME NEW x, NEW L, NEW w, NEW bad, NEW b \in Pcbs, FitBut(x, L, w, bad, {b}),
           NEW p, PacketFits(p, L), ~IsQueued(p), p.id \notin LiveIds(x), p.pcb = b, Carries(x, p, b)
    PROVE  LET y == ScheduleTxPacket(x, p)
           IN  Fit(y, L, w, bad) /\ Stays(x, y)
<1> DEFINE k == x.pcb[b].state
           next == SetPcbState(x, b, k + 1)
           p2 == [p EXCEPT !.qs = [i \in DOMAIN p.qs |-> [p.qs[i] EXCEPT !.uni = FALSE]]]
           r == [OffPcb EXCEPT !.state = Announce1]
           x2 == [next EXCEPT !.pcb = [@ EXCEPT ![b] = r]]
           new == CreateAnnounceFromProbe(x, p)
           y == ScheduleTxPacket(x, p)
<1>1. IsServer(x) /\ Refs(x, L) /\ k \in Off .. Running
    BY FitBy DEF IsServer, IsPcb
<1>2. y = CASE k = Probe1 -> SendAfter(next, p2, Soon)
            [] k = Probe1 + 1 -> SendAfter(next, p, Soon)
            [] k = Probe3 -> SendAfter(x2, new, Soon)
            [] k \in Announce1 .. Announce1 + 1 -> SendAfter(next, p, Later)
            [] k = Announce3 -> next
            [] OTHER -> x
    BY DEF ScheduleTxPacket
<1> HIDE DEF y
<1>3. (x.pcb[b].services # <<>> => k \in Probe1 .. Probe3) /\ (Probing(x.pcb[b]) <=> k \in Probe1 .. Probe3)
    BY DEF Carries, Probing
<1> SUFFICES Fit(y, L, w, bad) /\ Stays(x, y)
    BY DEF y
<1>4. k \in {3, 4} \/ k = 5 \/ k \in {6, 7} \/ k = 8 \/ k \in {0, 1, 2, 9}
    BY <1>1 DEF Off, Running
<1> HIDE DEF k, next, p2, x2, new
<1>5. CASE k \in {3, 4} \/ k \in {6, 7}
  <2>1. \E q \in {p, p2}, delay \in Nat :
          y = SendAfter(next, q, delay) /\ (q = p \/ k \in Probe1 .. Probe3)
      BY <1>2, <1>5 DEF Probe1, Probe3, Announce1, Announce3, Soon, Later
  <2>2. PICK q \in {p, p2}, delay \in Nat :
          y = SendAfter(next, q, delay) /\ (q = p \/ k \in Probe1 .. Probe3)
      BY <2>1
  <2>3. /\ PacketFits(q, L) /\ q.id = p.id /\ q.pcb = p.pcb /\ q.servers = p.servers
        /\ IsQueued(q) <=> IsQueued(p)
        /\ \A z, svc : AsksEnough(p.qs, z, svc, {}) => AsksEnough(q.qs, z, svc, {})
    <3> DEFINE qs == [i \in DOMAIN p.qs |-> [p.qs[i] EXCEPT !.uni = FALSE]]
    <3>1. p2 = [p EXCEPT !.qs = qs]
        BY DEF p2
    <3>3. IsList(p.qs)
        BY DEF PacketFits, IsPacket
    <3>4. IsList(qs) /\ \A z, svc : AsksEnough(p.qs, z, svc, {}) => AsksEnough(qs, z, svc, {})
        BY <3>3, NotUniIs
    <3> HIDE DEF qs
    <3>2. /\ PacketFits(p2, L) /\ p2.id = p.id /\ p2.pcb = p.pcb /\ p2.servers = p.servers
          /\ p2.qs = qs
          /\ IsQueued(p2) <=> IsQueued(p)
        BY <3>1, <3>4, PacketAsks
    <3> QED
        BY <2>2, <3>2, <3>4
  <2>4. Carries(x, q, b)
    <3>1. ~Probing(x.pcb[b]) => q = p
        BY <1>3, <2>2
    <3>2. ProbesFor(p, b, x.pcb[b], x.svc, {}) => ProbesFor(q, b, x.pcb[b], x.svc, {})
        BY <2>3 DEF ProbesFor
    <3> QED
        BY <3>1, <3>2 DEF Carries
  <2>5. k + 1 \in Off .. Running /\ (k + 1 \in Probe1 .. Probe3 <=> Probing(x.pcb[b]))
      BY <1>3, <1>5 DEF Off, Running, Probe1, Probe3
  <2> DEFINE s == k + 1
  <2>6. next = SetPcbState(x, b, s) /\ s \in Off .. Running /\ (s \in Probe1 .. Probe3 <=> Probing(x.pcb[b]))
      BY <2>5 DEF next
  <2> HIDE DEF s
  <2> QED
      BY <2>2, <2>3, <2>4, <2>6, SendAgainIs
<1>6. CASE k = 5
  <2>1. y = SendAfter(x2, new, Soon)
      BY <1>2, <1>6 DEF Probe1, Probe3, Announce1, Announce3
  <2>2. k + 1 \in Off .. Running
      BY <1>6 DEF Off, Running
  <2>3. AlikeBut(x, next, b) /\ next.ready = x.ready
      BY <1>1, <2>2, SetPcbStateIs DEF next
  <2>4. DOMAIN next = ServerFields /\ DOMAIN next.pcb = Pcbs /\ next.ready \subseteq Pcbs
      BY <2>3 DEF AlikeBut, Keeps
  <2> HIDE DEF r
  <2>5. /\ Keeps(next, x2) /\ x2.tx = next.tx /\ x2.ready = next.ready
        /\ x2.pcb = [next.pcb EXCEPT ![b] = r]
      BY <2>4 DEF x2, Keeps, ServerFields, SameTypes
  <2>6. AlikeBut(next, x2, b) /\ x2.pcb[b] = r
      BY <2>4, <2>5 DEF AlikeBut
  <2>7. AlikeBut(x, x2, b) /\ x2.ready = x.ready /\ x2.pcb[b] = r
      BY <2>3, <2>5, <2>6, KeepsOn DEF AlikeBut
  <2>8. IsPcb(r) /\ r.services = <<>> /\ Range(r.services) \subseteq L /\ ~Probing(r)
      BY DEF r, OffPcb, IsPcb, PcbFields, Off, Running, Announce1, IsList, Range, Probing, Probe1, Probe3
  <2>9. FitBut(x2, L, w, bad, {b})
      BY <2>7, <2>8, FitAlikeBut
  <2>10. PacketFits(new, L) /\ IsNew(new, x, b)
    <3>1. IsList(x.tx)
        BY <1>1 DEF IsServer
    <3> QED
        BY <3>1, CreateAnnounceFromProbeIs DEF new
  <2>11. new.pcb \in {b} /\ ~IsQueued(new) /\ new.id \notin LiveIds(x2) /\ Keeps(x, x2) /\ Soon \in Nat
      BY <2>7, <2>10 DEF IsNew, IsQueued, LiveIds, AlikeBut, Soon
  <2> DEFINE z == SendAfter(x2, new, Soon)
  <2>12. FitBut(z, L, w, bad, {b}) /\ Keeps(x2, z) /\ z.pcb = x2.pcb /\ z.ready = x2.ready
      BY <2>9, <2>10, <2>11, SendAfterIs
  <2>16. AllPlain(z.tx, b)
    <3>1. new.qs = <<>> /\ new.pcb = b
      <4>1. IsList(x.tx)
          BY <1>1 DEF IsServer
      <4>2. new.qs = <<>>
          BY <4>1, CreateAnnounceFromProbeIs DEF new
      <4> QED
          BY <2>10, <4>2 DEF IsNew
    <3>2. Plain(new)
        BY <3>1 DEF Plain
    <3>3. AllPlain(x2.tx, b)
      <4>1. Silent(x.tx, b)
          BY <1>3, <1>6 DEF Carries, Probe1, Probe3
      <4> QED
          BY <2>7, <4>1 DEF Silent, AllPlain, AlikeBut
    <3>4. Plain(new) /\ AllPlain(x2.tx, new.pcb) => AllPlain(z.tx, new.pcb)
        BY <2>9, <2>10, <2>11, SendAfterIs
    <3> QED
        BY <3>1, <3>2, <3>3, <3>4
  <2>13. y = z
      BY <2>1
  <2> HIDE DEF z
  <2>14. Fit(z, L, w, bad)
      BY <2>7, <2>8, <2>12, <2>16, NothingCovers, FitBy
  <2>15. Keeps(x, z)
      BY <2>11, <2>12, KeepsOn
  <2> QED
      BY <2>7, <2>12, <2>13, <2>14, <2>15 DEF Stays
<1>7. CASE k = 8 \/ k \in {0, 1, 2, 9}
  <2>1. x.pcb[b].services = <<>> /\ ~Probing(x.pcb[b]) /\ AllPlain(x.tx, b)
      BY <1>3, <1>7 DEF Probe1, Probe3, Carries
  <2>2. Fit(x, L, w, bad) /\ Stays(x, x)
      BY <1>1, <2>1, NothingCovers, FitBy, KeepsSelf
  <2>3. CASE k = 8
    <3>1. y = next
        BY <1>2, <2>3 DEF Probe1, Probe3, Announce1, Announce3
    <3>2. k \notin Probe1 .. Probe3 /\ k + 1 \in Off .. Running /\ k + 1 \notin Probe1 .. Probe3
        BY <2>3 DEF Probe1, Probe3, Off, Running
    <3> DEFINE s == k + 1
    <3>3. next = SetPcbState(x, b, s) /\ s \in Off .. Running /\ s \notin Probe1 .. Probe3
        BY <3>2 DEF next
    <3> HIDE DEF s
    <3> QED
        BY <2>2, <3>1, <3>2, <3>3, FitState DEF k
  <2>4. CASE k \in {0, 1, 2, 9}
    <3>1. y = x
        BY <1>2, <2>4 DEF Probe1, Probe3, Announce1, Announce3
    <3> QED
        BY <2>2, <3>1
  <2> QED
      BY <1>7, <2>3, <2>4
<1> QED
    BY <1>4, <1>5, <1>6, <1>7

\* A packet that is due is put on the wire, unless its pcb has been turned off.
LEMMA HandlePacketIs ==
    ASSUME NEW x, NEW L, NEW w, NEW bad, NEW b \in Pcbs, FitBut(x, L, w, bad, {b}),
           NEW p, PacketFits(p, L), ~IsQueued(p), p.id \notin LiveIds(x), p.pcb = b, Carries(x, p, b)
    PROVE  LET y == HandlePacket(x, p)
           IN  Fit(y, L, w, bad) /\ Stays(x, y)
<1> DEFINE z == Dispatch(x, p)
           y == HandlePacket(x, p)
<1>1. y = IF x.pcb[b].state = Off THEN x ELSE ScheduleTxPacket(z, p)
    BY DEF HandlePacket
<1>2. IsServer(x)
    BY FitBy
<1>3. Alike(x, z)
    BY <1>2, DispatchIs
<1> HIDE DEF y, z
<1> SUFFICES Fit(y, L, w, bad) /\ Stays(x, y)
    BY DEF y
<1>4. CASE x.pcb[b].state = Off
  <2>1. x.pcb[b].services = <<>> /\ ~Probing(x.pcb[b]) /\ AllPlain(x.tx, b)
      BY <1>4 DEF Carries, Probing, Off, Probe1, Probe3
  <2> QED
      BY <1>1, <1>2, <1>4, <2>1, NothingCovers, FitBy, KeepsSelf
<1>5. CASE x.pcb[b].state # Off
  <2>1. FitBut(z, L, w, bad, {b})
      BY <1>3, FitAlike
  <2>2. Carries(z, p, b) /\ p.id \notin LiveIds(z)
    <3>1. SameTypes(x.svc, z.svc) /\ IsServices(x.svc) /\ Range(x.pcb[b].services) \subseteq Svcs
        BY <1>2, <1>3, FitBy, RefsKnown DEF Alike, Keeps, IsServer
    <3>2. ProbesFor(p, b, x.pcb[b], x.svc, {}) => ProbesFor(p, b, x.pcb[b], z.svc, {})
        BY <3>1, ProbesStay
    <3> QED
        BY <1>3, <3>2 DEF Alike, Carries, LiveIds
  <2> DEFINE v == ScheduleTxPacket(z, p)
  <2>3. Fit(v, L, w, bad) /\ Stays(z, v)
      BY <2>1, <2>2, ScheduleTxPacketIs
  <2>4. y = v
      BY <1>1, <1>5
  <2> HIDE DEF v
  <2>5. Stays(x, z)
      BY <1>3 DEF Alike, Stays
  <2> QED
      BY <2>3, <2>4, <2>5, StaysOn
<1> QED
    BY <1>4, <1>5

\* The task handles the packet it was handed if that is still at the head of the queue.
LEMMA SendPacketIs ==
    ASSUME NEW x, NEW L, NEW a, a.type = "tx", NEW w, IsList(w), NEW v, v = <<a>> \o w, NEW bad,
           Fit(x, L, v, bad)
    PROVE  LET y == SendPacket(x, a.arg)
           IN  Fit(y, L, w, bad) /\ Stays(x, y)
<1> DEFINE t == x.tx
           u == Tail(t)
           p == Head(t)
           q == [p EXCEPT !.queued = FALSE]
           x1 == [x EXCEPT !.tx = u]
           b == p.pcb
           mine == t # <<>> /\ p.id = a.arg /\ p.queued
           y == SendPacket(x, a.arg)
<1>1. /\ IsServer(x) /\ Refs(x, L) /\ QueueFits(t, v, bad) /\ IsList(t)
      /\ \A c \in Pcbs : Covered(x, c)
    BY DEF Fit, IsServer
<1>2. y = IF mine THEN HandlePacket(x1, q) ELSE x
    BY DEF SendPacket
<1> HIDE DEF y
<1> SUFFICES Fit(y, L, w, bad) /\ Stays(x, y)
    BY DEF y
<1>3. CASE ~mine
  <2>1. t # <<>> => ~(IsQueued(t[1]) /\ IsFor(a, t[1]))
    <3>1. t # <<>> => p = t[1]
        BY <1>1, TailIs
    <3> HIDE DEF t, p
    <3> QED
        BY <1>3, <3>1 DEF IsQueued, IsFor
  <2>2. QueueFits(t, w, bad)
      BY <1>1, <2>1, OthersActionLeaves
  <2>3. Fit(x, L, w, bad)
      BY <1>1, <2>2 DEF Fit
  <2> QED
      BY <1>1, <1>2, <1>3, <2>3, KeepsSelf
<1>4. CASE mine
  <2> DEFINE n == Len(t)
  <2>1. /\ n \in Nat /\ n > 0 /\ DOMAIN t = 1 .. n /\ p = t[1]
        /\ IsList(u) /\ Len(u) = n - 1 /\ \A i \in 1 .. n - 1 : u[i] = t[i + 1]
      BY <1>1, <1>4, ListIs, TailIs
  <2>2. DOMAIN u = 1 .. n - 1
      BY <2>1, ListIs
  <2> HIDE DEF n
  <2>3. 1 \in DOMAIN t /\ PacketFits(p, L) /\ DOMAIN p = PacketFields /\ b \in Pcbs
    <3>1. 1 \in DOMAIN t
        BY <2>1
    <3> HIDE DEF p
    <3>2. PacketFits(t[1], L) /\ p = t[1]
        BY <1>1, <2>1, <3>1 DEF Refs
    <3> QED
        BY <3>1, <3>2 DEF PacketFits, IsPacket
  <2>4. \A i \in 1 .. n - 1 : i + 1 \in DOMAIN t /\ i + 1 # 1 /\ i + 1 \in 1 .. n
      BY <2>1
  <2>5. Keeps(x, x1) /\ x1.tx = u /\ x1.pcb = x.pcb /\ x1.ready = x.ready /\ x1.svc = x.svc
      BY <1>1, TxSet
  <2>6. y = HandlePacket(x1, q)
      BY <1>2, <1>4
  <2>7. IsQueued(t[1])
      BY <1>4, <2>1 DEF IsQueued
  <2>8. QueueFits(u, w, bad)
      BY <1>1, <1>4, <2>7, HeadLeaves
  <2> HIDE DEF x1
  <2>9. PacketFits(q, L) /\ ~IsQueued(q) /\ q.id = p.id /\ q.pcb = b /\ q.servers = p.servers
        /\ q.qs = p.qs
    <3> HIDE DEF p
    <3>1. /\ DOMAIN q = PacketFields /\ q.id = p.id /\ q.pcb = p.pcb /\ q.at = p.at /\ q.queued = FALSE
          /\ q.servers = p.servers /\ q.answers = p.answers /\ q.additional = p.additional
          /\ q.qs = p.qs
        BY <2>3 DEF PacketFields
    <3> HIDE DEF q
    <3>2. PacketFits(q, L)
        BY <2>3, <3>1 DEF PacketFits, IsPacket
    <3>3. ~IsQueued(q)
        BY <3>1 DEF IsQueued
    <3> QED
        BY <3>1, <3>2, <3>3
  <2> HIDE DEF q
  <2>10. q.id \notin LiveIds(x1)
    <3>1. SUFFICES ASSUME NEW i \in 1 .. n - 1, u[i].id = p.id PROVE FALSE
        BY <2>2, <2>5, <2>9 DEF LiveIds
    <3>2. t[i + 1].id = t[1].id
        BY <2>1, <3>1
    <3> HIDE DEF t, u, p
    <3> QED
        BY <1>1, <2>3, <2>4, <3>2 DEF QueueFits, Apart
  <2>11. \A k \in DOMAIN t : k = 1 \/ \E i \in 1 .. n - 1 : k = i + 1
    <3>1. \A k \in 1 .. n : k = 1 \/ (k - 1 \in 1 .. n - 1 /\ k = (k - 1) + 1)
        BY <2>1
    <3> QED
        BY <2>1, <3>1
  <2>12. \A k \in DOMAIN t : k = 1 \/ \E i \in DOMAIN u : u[i] = t[k]
    <3> HIDE DEF t, u
    <3> QED
        BY <2>1, <2>2, <2>11
  <2> HIDE DEF t, u, p, b
  <2>13. FitBut(x1, L, w, bad, {b})
    <3>1. FitBut(x, L, v, bad, {b})
        BY <2>3, FitBy
    <3>2. ASSUME NEW c \in Pcbs, c # b PROVE Saves(x.tx, x1.tx, c)
      <4>1. ASSUME Alone(t, c) PROVE Alone(u, c)
        <5>1. SUFFICES ASSUME NEW i \in 1 .. n - 1, NEW j \in 1 .. n - 1, u[i].pcb = c, u[j].pcb = c
                       PROVE  i = j
            BY <2>2 DEF Alone
        <5>2. i + 1 = j + 1
            BY <2>1, <2>4, <4>1, <5>1 DEF Alone
        <5> QED
            BY <2>1, <5>2
      <4> QED
        <5>1. \A i \in DOMAIN t : t[i].pcb = c => \E j \in DOMAIN u : u[j] = t[i]
            BY <2>1, <2>12, <3>2 DEF b
        <5>2. \A j \in DOMAIN u : \E i \in DOMAIN t : u[j] = t[i]
            BY <2>1, <2>2, <2>4
        <5>3. \A i \in DOMAIN t : t[i].pcb = c =>
                \E j \in DOMAIN u : u[j].pcb = c /\ u[j].servers = t[i].servers /\ u[j].qs = t[i].qs
            BY <5>1
        <5>4. \A j \in DOMAIN u : u[j].pcb = c => \E i \in DOMAIN t : t[i].pcb = c /\ u[j].qs = t[i].qs
            BY <5>2
        <5> QED
            BY <2>5, <4>1, <5>3, <5>4 DEF Saves, t
    <3>3. \A i \in 1 .. n - 1 : PacketFits(u[i], L)
        BY <1>1, <2>1, <2>4 DEF Refs, t
    <3>4. \A k \in DOMAIN x1.tx : PacketFits(x1.tx[k], L)
        BY <2>2, <2>5, <3>3
    <3> QED
        BY <2>1, <2>5, <2>8, <3>1, <3>2, <3>4, FitTx
  <2>14. Carries(x1, q, b)
    <3>1. Covered(x, b)
        BY <1>1, <2>3
    <3>2. ASSUME Probing(x.pcb[b])
          PROVE  b \in x.ready /\ ProbesFor(q, b, x.pcb[b], x.svc, {}) /\ Silent(u, b)
      <4>1. /\ b \in x.ready /\ Alone(t, b)
            /\ \E k \in DOMAIN t : ProbesFor(t[k], b, x.pcb[b], x.svc, {})
          BY <3>1, <3>2 DEF Covered, CoveredBy, t
      <4>2. t[1].pcb = b
          BY <2>1 DEF b
      <4>3. ProbesFor(t[1], b, x.pcb[b], x.svc, {})
          BY <2>3, <4>1, <4>2 DEF Alone, ProbesFor
      <4>4. ProbesFor(q, b, x.pcb[b], x.svc, {})
          BY <2>1, <2>9, <4>3 DEF ProbesFor
      <4>5. Silent(u, b)
          BY <2>1, <2>2, <2>3, <2>4, <4>1, <4>2 DEF Alone, Silent
      <4> QED
          BY <4>1, <4>4, <4>5
    <3>3. ASSUME ~Probing(x.pcb[b]) PROVE AllPlain(u, b) /\ Plain(q)
      <4>1. AllPlain(t, b)
          BY <3>1, <3>3 DEF Covered, CoveredBy, t
      <4>2. Plain(t[1])
          BY <2>1, <2>3, <4>1 DEF AllPlain, b
      <4>3. Plain(q)
          BY <2>1, <2>9, <4>2 DEF Plain
      <4>4. AllPlain(u, b)
          BY <2>1, <2>2, <2>4, <4>1 DEF AllPlain
      <4> QED
          BY <4>3, <4>4
    <3> QED
        BY <2>5, <3>1, <3>2, <3>3 DEF Carries, Covered, CoveredBy
  <2> DEFINE z == HandlePacket(x1, q)
  <2>15. Fit(z, L, w, bad) /\ Stays(x1, z)
      BY <2>3, <2>9, <2>10, <2>13, <2>14, HandlePacketIs
  <2> HIDE DEF z
  <2>16. Stays(x, x1)
      BY <2>5 DEF Stays
  <2> QED
      BY <2>6, <2>15, <2>16, StaysOn DEF z
<1> QED
    BY <1>3, <1>4

-----------------------------------------------------------------------------
(* What the application asks for: the services there are keep all the rest.  *)

\* The server fits the services it has.
Sound(x, w, bad) == Fit(x, Range(x.srvs), w, bad)

\* What a server that fits its services is.
LEMMA SoundIs ==
    ASSUME NEW x, NEW w, NEW bad, Sound(x, w, bad)
    PROVE  /\ IsServer(x) /\ IsList(x.srvs) /\ Range(x.srvs) \subseteq Range(x.srvs)
           /\ x.host = None => Range(x.srvs) = {}
           /\ IsServices(x.svc) /\ Typed(x.svc, Range(x.srvs))
           /\ \A s \in Range(x.srvs) : s \in Svcs /\ s # None /\ x.svc[s].type # None
<1>1. IsServer(x) /\ Refs(x, Range(x.srvs))
    BY DEF Sound, Fit
<1>2. IsServices(x.svc) /\ IsList(x.srvs)
    BY <1>1 DEF IsServer
<1>3. Typed(x.svc, Range(x.srvs)) /\ (x.host = None => Range(x.srvs) = {})
    BY <1>1 DEF Refs
<1>4. \A s \in Range(x.srvs) : s \in Svcs /\ s # None /\ x.svc[s].type # None
    BY <1>3, NullAssumption DEF Typed
<1> QED
    BY <1>1, <1>2, <1>3, <1>4

\* An operation that leaves the services as they are, and what fits fitting.
LEMMA SoundBy ==
    ASSUME NEW x, NEW w, NEW bad, NEW y, Keeps(x, y), Fit(y, Range(x.srvs), w, bad)
    PROVE  Sound(y, w, bad)
BY DEF Sound, Keeps

\* The same when it leaves all that matters alone.
LEMMA SoundAlike ==
    ASSUME NEW x, NEW w, NEW bad, Sound(x, w, bad), NEW y, Alike(x, y)
    PROVE  Sound(y, w, bad)
BY FitAlike, SoundBy DEF Sound, Alike

\* Services are asked for by the same questions as others of the same types.
LEMMA EnoughAlike ==
    ASSUME NEW svc, NEW new, NEW V, \A v \in V : new[v].type = svc[v].type,
           NEW qs, NEW ip, NEW S, Enough(qs, V, ip, svc, S)
    PROVE  Enough(qs, V, ip, new, S)
<1>1. PICK g \in [V -> DOMAIN qs] : NamedBy(g, qs, V, svc, S)
    BY DEF Enough, Named
<1>2. \A s \in V : StandsFor(qs[g[s]], s, new, S)
    BY <1>1 DEF NamedBy, StandsFor
<1>3. NamedBy(g, qs, V, new, S)
    BY <1>1, <1>2 DEF NamedBy
<1> QED
    BY <1>3 DEF Enough, Named

\* A pcb whose services keep their types is covered as it was.
LEMMA CoveredTypes ==
    ASSUME NEW x, NEW y, NEW b \in Pcbs, y.tx = x.tx, y.pcb = x.pcb, y.ready = x.ready,
           \A v \in Range(x.pcb[b].services) : y.svc[v].type = x.svc[v].type,
           NEW S, CoveredBy(x, b, S)
    PROVE  CoveredBy(y, b, S)
<1> DEFINE r == x.pcb[b]
<1>1. ASSUME NEW p, ProbesFor(p, b, r, x.svc, S) PROVE ProbesFor(p, b, r, y.svc, S)
    BY <1>1, EnoughAlike DEF ProbesFor, AsksEnough
<1> QED
    BY <1>1 DEF CoveredBy

\* Names and lists are set: no service that was there goes, and there is a host name when
\* there are services.
LEMMA NamesSet ==
    ASSUME NEW x, NEW w, NEW bad, Sound(x, w, bad), NEW y,
           DOMAIN y = ServerFields, IsList(y.srvs), IsList(y.hosts), y.twin = x.twin, y.up = x.up,
           y.tx = x.tx, y.pcb = x.pcb, y.ready = x.ready,
           Range(x.srvs) \subseteq Range(y.srvs), y.host = None => Range(y.srvs) = {},
           IsServices(y.svc), Typed(y.svc, Range(y.srvs)),
           \A v \in Range(x.srvs) : y.svc[v].type = x.svc[v].type
    PROVE  Sound(y, w, bad)
<1> DEFINE L == Range(x.srvs)
           M == Range(y.srvs)
<1>1. Fit(x, L, w, bad)
    BY DEF Sound
<1>2. IsServer(y)
    BY <1>1 DEF Fit, IsServer
<1> HIDE DEF L, M
<1>0. L \subseteq M /\ (y.host = None => M = {})
    BY DEF L, M
<1>3. \A k \in DOMAIN y.tx : PacketFits(y.tx[k], M)
  <2> SUFFICES ASSUME NEW k \in DOMAIN x.tx, PacketFits(x.tx[k], L) PROVE PacketFits(x.tx[k], M)
      BY <1>1 DEF Fit, Refs
  <2> QED
      BY <1>0, RefersMore DEF PacketFits
<1>4. Refs(y, M)
    BY <1>0, <1>1, <1>3 DEF Fit, Refs, M
<1>5. \A b \in Pcbs : Covered(y, b)
  <2> TAKE b \in Pcbs
  <2>1. Covered(x, b)
      BY <1>1 DEF Fit
  <2>2. Range(x.pcb[b].services) \subseteq Range(x.srvs)
      BY <1>1 DEF Fit, Refs, L
  <2>3. \A v \in Range(x.pcb[b].services) : y.svc[v].type = x.svc[v].type
      BY <2>2
  <2> QED
      BY <2>1, <2>3, CoveredTypes DEF Covered
<1>6. QueueFits(y.tx, w, bad)
    BY <1>1 DEF Fit
<1> QED
    BY <1>2, <1>4, <1>5, <1>6 DEF Fit, Sound, M

\* An empty queue fits whatever the task's line is.
LEMMA NothingFits == ASSUME NEW w, NEW bad PROVE QueueFits(<<>>, w, bad)
<1> DEFINE f == [i \in {} |-> i]
<1>1. HandedPart(<<>>) = {}
    BY DEF HandedPart
<1>2. f \in [HandedPart(<<>>) -> DOMAIN w] /\ InLine(<<>>, w, f)
    BY <1>1 DEF InLine
<1> HIDE DEF f
<1>3. Handed(<<>>, w)
    BY <1>1, <1>2 DEF Handed
<1>4. Apart(<<>>)
    BY DEF Apart
<1> QED
    BY <1>3, <1>4 DEF QueueFits

\* All pcbs start over: the queue is emptied, and those with a socket probe for all services.
LEMMA RestartAllPcbsIs ==
    ASSUME NEW x, NEW w, NEW bad, Sound(x, w, bad)
    PROVE  LET y == RestartAllPcbs(x)
           IN  Sound(y, w, bad) /\ Stays(x, y)
<1> DEFINE L == Range(x.srvs)
           z == ClearTxQueue(x)
           y == ProbeAllPcbs(z, x.srvs, TRUE, TRUE)
<1>0. RestartAllPcbs(x) = y
    BY DEF RestartAllPcbs
<1>1. IsServer(x) /\ Fit(x, L, w, bad) /\ IsList(x.srvs) /\ L \subseteq L
    BY SoundIs DEF Sound
<1>2. Keeps(x, z) /\ z.tx = <<>> /\ z.pcb = x.pcb /\ z.ready = x.ready /\ z.svc = x.svc
    BY <1>1, TxSet DEF ClearTxQueue
<1> HIDE DEF L, z
<1>3. IsList(<<>>)
    BY DEF IsList
<1>4. FitBut(x, L, w, bad, x.ready)
    BY <1>1 DEF Fit, FitBut
<1>5. IsServer(z)
    BY <1>1, <1>2, <1>3 DEF IsServer, Keeps
<1>6. Refs(z, L)
    BY <1>1, <1>2 DEF Fit, Refs, Keeps
<1>7. \A c \in Pcbs : c \notin z.ready => Covered(z, c)
    BY <1>1, <1>2 DEF Fit, Covered, CoveredBy, AllPlain
<1>8. FitBut(z, L, w, bad, z.ready)
    BY <1>2, <1>5, <1>6, <1>7, NothingFits DEF FitBut
<1>9. Range(x.srvs) \subseteq L
    BY DEF L
<1>10. Fit(y, L, w, bad) /\ Stays(z, y)
    BY <1>1, <1>8, <1>9, ProbeAllPcbsOpen
<1> HIDE DEF y
<1>11. Stays(x, y)
    BY <1>2, <1>10, StaysOn DEF Stays
<1> QED
    BY <1>0, <1>10, <1>11, SoundBy DEF L, Stays

\* Services without a name of their own are services.
LEMMA NoInstanceIs ==
    ASSUME NEW x, IsList(x.srvs)
    PROVE  IsList(NoInstance(x)) /\ Range(NoInstance(x)) \subseteq Range(x.srvs)
<1> DEFINE gone == {s \in Svcs : x.svc[s].inst # None}
<1>1. NoInstance(x) = Without(x.srvs, gone)
    BY DEF NoInstance
<1> HIDE DEF gone
<1>2. IsList(Without(x.srvs, gone))
    BY WithoutIs
<1>3. Range(Without(x.srvs, gone)) = {e \in Range(x.srvs) : e \notin gone}
    BY WithoutIs
<1> QED
    BY <1>1, <1>2, <1>3

\* The services without a name of their own say goodbye.
LEMMA SendByeNoInstanceIs ==
    ASSUME NEW x, NEW w, NEW bad, Sound(x, w, bad), NEW include_ip
    PROVE  LET y == SendByeNoInstance(x, include_ip)
           IN  Sound(y, w, bad) /\ Stays(x, y)
<1> DEFINE L == Range(x.srvs)
           z == SendByeService(x, NoInstance(x), include_ip)
<1>1. SendByeNoInstance(x, include_ip) = IF NoInstance(x) = <<>> THEN x ELSE z
    BY DEF SendByeNoInstance
<1>2. Stays(x, x)
    BY SoundIs, KeepsSelf
<1>3. Fit(z, L, w, bad) /\ Stays(x, z)
    BY SendByeServiceIs DEF Sound
<1> HIDE DEF z
<1>4. Sound(z, w, bad)
    BY <1>3, SoundBy DEF Stays
<1> QED
    BY <1>1, <1>2, <1>3, <1>4

\* The services without a name of their own are probed for again.
LEMMA RestartAllPcbsNoInstanceIs ==
    ASSUME NEW x, NEW w, NEW bad, Sound(x, w, bad)
    PROVE  Sound(RestartAllPcbsNoInstance(x), w, bad)
<1> DEFINE L == Range(x.srvs)
           l == NoInstance(x)
           z == ProbeAllPcbs(x, l, FALSE, TRUE)
<1>1. RestartAllPcbsNoInstance(x) = IF l = <<>> THEN x ELSE z
    BY DEF RestartAllPcbsNoInstance
<1>2. IsList(l) /\ Range(l) \subseteq L
    BY SoundIs, NoInstanceIs
<1> HIDE DEF l
<1>3. l # <<>> => Fit(z, L, w, bad) /\ Stays(x, z)
    BY <1>2, ProbeAllPcbsIs DEF Sound
<1> HIDE DEF z
<1>4. l # <<>> => Sound(z, w, bad)
    BY <1>3, SoundBy DEF Stays
<1> QED
    BY <1>1, <1>4

\* The host gets a name, and so do the services that had its old one.
LEMMA SetGlobalHostnameIs ==
    ASSUME NEW x, NEW w, NEW bad, Sound(x, w, bad), NEW new, new # None
    PROVE  Sound(SetGlobalHostname(x, new), w, bad)
<1> DEFINE svc == [s \in Svcs |-> IF s \notin Free(x) /\ x.svc[s].host = x.host
                                  THEN [x.svc[s] EXCEPT !.host = new] ELSE x.svc[s]]
           z == [x EXCEPT !.svc = svc]
           y == [z EXCEPT !.host = new]
<1>1. SetGlobalHostname(x, new) = y
    BY DEF SetGlobalHostname, RemapSelfServiceHostname
<1>2. IsServer(x) /\ DOMAIN x = ServerFields
    BY SoundIs DEF IsServer
<1>9. SameTypes(x.svc, svc)
  <2> SUFFICES ASSUME IsServices(x.svc)
               PROVE  IsServices(svc) /\ \A s \in Svcs : svc[s].type = x.svc[s].type
      BY DEF SameTypes
  <2>1. ASSUME NEW s \in Svcs
        PROVE  DOMAIN svc[s] = ServiceFields /\ svc[s].type = x.svc[s].type
    <3> DEFINE v == x.svc[s]
               u == [v EXCEPT !.host = new]
    <3>1. DOMAIN v = ServiceFields
        BY DEF IsServices
    <3>2. svc[s] = u \/ svc[s] = v
        OBVIOUS
    <3> HIDE DEF v, svc
    <3>3. DOMAIN u = ServiceFields /\ u.type = v.type
        BY <3>1 DEF ServiceFields
    <3> HIDE DEF u
    <3> QED
        BY <3>1, <3>2, <3>3 DEF v
  <2>2. DOMAIN svc = Svcs
      OBVIOUS
  <2> HIDE DEF svc
  <2> QED
      BY <2>1, <2>2 DEF IsServices
<1> HIDE DEF svc
<1>3. Alike(x, z)
    BY <1>2, <1>9, FieldsSet
<1>4. Sound(z, w, bad)
    BY <1>3, SoundAlike
<1> HIDE DEF z
<1>5. IsServer(z) /\ DOMAIN z = ServerFields
    BY <1>4, SoundIs DEF IsServer
<1>6. /\ DOMAIN y = ServerFields /\ y.srvs = z.srvs /\ y.hosts = z.hosts /\ y.twin = z.twin /\ y.up = z.up
      /\ y.tx = z.tx /\ y.pcb = z.pcb /\ y.ready = z.ready /\ y.host = new /\ y.svc = z.svc
    BY <1>5 DEF ServerFields
<1> HIDE DEF y
<1>7. Sound(y, w, bad)
    BY <1>4, <1>5, <1>6, NamesSet, SoundIs DEF IsServer
<1> QED
    BY <1>1, <1>7

\* mdns_hostname_set: goodbye, the new name, and everything from the start.
LEMMA HostnameSetIs ==
    ASSUME NEW x, NEW w, NEW bad, Sound(x, w, bad), NEW name, name # None
    PROVE  Sound(HostnameSet(x, name), w, bad)
BY SendByeNoInstanceIs, SetGlobalHostnameIs, RestartAllPcbsIs DEF HostnameSet

\* mdns_instance_name_set: the same for the services without a name of their own.
LEMMA InstanceSetIs ==
    ASSUME NEW x, NEW w, NEW bad, Sound(x, w, bad), NEW name
    PROVE  Sound(InstanceSet(x, name), w, bad)
<1> DEFINE y == SendByeNoInstance(x, FALSE)
<1>1. Sound(y, w, bad)
    BY SendByeNoInstanceIs
<1>2. InstanceSet(x, name) = RestartAllPcbsNoInstance([y EXCEPT !.inst = name])
    BY DEF InstanceSet
<1> HIDE DEF y
<1>3. Sound([y EXCEPT !.inst = name], w, bad)
    BY <1>1, SoundIs, FieldsSet, SoundAlike
<1> QED
    BY <1>2, <1>3, RestartAllPcbsNoInstanceIs

\* The list of the hosts is set.
LEMMA HostsSet ==
    ASSUME NEW x, NEW w, NEW bad, Sound(x, w, bad), NEW hosts, IsList(hosts)
    PROVE  Sound([x EXCEPT !.hosts = hosts], w, bad)
<1> DEFINE y == [x EXCEPT !.hosts = hosts]
<1>1. IsServer(x) /\ DOMAIN x = ServerFields /\ (x.host = None => Range(x.srvs) = {})
    BY SoundIs DEF IsServer
<1>2. /\ DOMAIN y = ServerFields /\ y.srvs = x.srvs /\ y.hosts = hosts /\ y.twin = x.twin /\ y.up = x.up
      /\ y.tx = x.tx /\ y.pcb = x.pcb /\ y.ready = x.ready /\ y.host = x.host /\ y.svc = x.svc
    BY <1>1 DEF ServerFields
<1> HIDE DEF y
<1>3. Sound(y, w, bad)
    BY <1>1, <1>2, NamesSet, SoundIs DEF IsServer
<1> QED
    BY <1>3 DEF y

\* A host is answered for from now on.
LEMMA DelegateHostnameAddIs ==
    ASSUME NEW x, NEW w, NEW bad, Sound(x, w, bad), NEW name, NEW addr
    PROVE  Sound(DelegateHostnameAdd(x, name, addr), w, bad)
<1> DEFINE one == <<[name |-> name, addr |-> addr]>>
           l == one \o x.hosts
<1>1. IsList(x.hosts)
    BY SoundIs DEF IsServer
<1>2. IsList(one)
    BY DEF IsList, Range
<1> HIDE DEF one
<1>3. IsList(l)
    BY <1>1, <1>2, ConcatIs
<1>4. Sound([x EXCEPT !.hosts = l], w, bad)
    BY <1>3, HostsSet
<1> QED
    BY <1>4 DEF DelegateHostnameAdd, one

\* A host has another address from now on.
LEMMA DelegateHostnameSetAddressIs ==
    ASSUME NEW x, NEW w, NEW bad, Sound(x, w, bad), NEW name, NEW addr
    PROVE  Sound(DelegateHostnameSetAddress(x, name, addr), w, bad)
<1> DEFINE new(i) == IF name # x.host /\ x.hosts[i].name = name
                     THEN [x.hosts[i] EXCEPT !.addr = addr] ELSE x.hosts[i]
           l == [i \in DOMAIN x.hosts |-> new(i)]
<1>0. DelegateHostnameSetAddress(x, name, addr) = [x EXCEPT !.hosts = l]
    BY DEF DelegateHostnameSetAddress
<1> HIDE DEF new
<1>1. IsList(x.hosts)
    BY SoundIs DEF IsServer
<1>2. Len(x.hosts) \in Nat /\ DOMAIN x.hosts = 1 .. Len(x.hosts)
    BY <1>1, ListIs
<1> DEFINE n == Len(x.hosts)
<1>3. n \in Nat /\ DOMAIN l = 1 .. n /\ l = [i \in 1 .. n |-> l[i]]
    BY <1>2
<1> HIDE DEF n, l
<1>4. IsList(l)
    BY <1>3, ListOf
<1>5. Sound([x EXCEPT !.hosts = l], w, bad)
    BY <1>4, HostsSet
<1> QED
    BY <1>0, <1>5

-----------------------------------------------------------------------------
(* Services come, change and go.                                             *)

\* The first service that a test accepts is one of the services, or there is none.
LEMMA FirstIs ==
    ASSUME NEW s, IsList(s), NEW I, I \in SUBSET (1 .. Len(s)), NEW k, k = IF I # {} THEN Min(I) ELSE 0
    PROVE  k = 0 \/ s[k] \in Range(s)
<1>1. Len(s) \in Nat /\ \A i \in 1 .. Len(s) : s[i] \in Range(s)
    BY ListIs
<1>2. CASE I # {}
    BY <1>1, <1>2, MinIn
<1> QED
    BY <1>2

\* mdns_utils_get_service_item_instance too.
LEMMA GetServiceItemInstanceIs ==
    ASSUME NEW x, IsList(x.srvs), NEW inst, NEW type, NEW host
    PROVE  GetServiceItemInstance(x, inst, type, host) \in Range(x.srvs) \cup {None}
<1> DEFINE l == x.srvs
           Fits(s) == IF inst # None THEN ServiceMatchesInstance(x, s, inst, type, host)
                      ELSE ServiceMatches(x, s, type, host)
           I == {i \in 1 .. Len(l) : Fits(l[i])}
           k == IF I # {} THEN Min(I) ELSE 0
<1>1. GetServiceItemInstance(x, inst, type, host) = IF k = 0 THEN None ELSE l[k]
    BY DEF GetServiceItemInstance, FirstService, SelectInSeq
<1>2. I \in SUBSET (1 .. Len(l))
    OBVIOUS
<1> HIDE DEF I
<1>3. k = 0 \/ l[k] \in Range(l)
    BY <1>2, FirstIs
<1> HIDE DEF k
<1> QED
    BY <1>1, <1>3

\* A list of one.
LEMMA OneIs ==
    ASSUME NEW s, NEW L, s \in L
    PROVE  IsList(<<s>>) /\ Range(<<s>>) \subseteq L /\ Range(<<s>>) = {s} /\ <<s>> # <<>>
<1>1. Range(<<s>>) = {s}
    BY DEF Range
<1> QED
    BY <1>1 DEF IsList

\* A service leaves the list; nothing else is changed.
LEMMA UnlinkIs ==
    ASSUME NEW x, IsServer(x), NEW s
    PROVE  LET y == Unlink(x, s)
           IN  /\ \A L, w, bad : Fit(x, L, w, bad) => Fit(y, L, w, bad)
               /\ \A L, w, bad, v : Leaving(x, L, w, bad, v) => Leaving(y, L, w, bad, v)
               /\ y.host = x.host /\ y.hosts = x.hosts
               /\ Range(y.srvs) = Range(x.srvs) \ {s}
<1> DEFINE l == Without(x.srvs, {s})
           y == Unlink(x, s)
<1>1. IsList(x.srvs) /\ DOMAIN x = ServerFields
    BY DEF IsServer
<1>2. IsList(l) /\ Range(l) = {e \in Range(x.srvs) : e \notin {s}}
    BY <1>1, WithoutIs
<1>3. /\ DOMAIN y = ServerFields /\ y.srvs = l /\ y.hosts = x.hosts /\ y.twin = x.twin /\ y.up = x.up
      /\ y.tx = x.tx /\ y.pcb = x.pcb /\ y.ready = x.ready /\ y.host = x.host /\ y.svc = x.svc
    BY <1>1 DEF Unlink, ServerFields
<1> HIDE DEF y, l
<1>4. IsServer(y)
    BY <1>1, <1>2, <1>3 DEF IsServer
<1>5. \A L : Refs(x, L) => Refs(y, L)
    BY <1>3 DEF Refs
<1>6. \A b \in Pcbs : \A S : CoveredBy(x, b, S) => CoveredBy(y, b, S)
    BY <1>3 DEF CoveredBy
<1>7. \A L, w, bad : Fit(x, L, w, bad) => Fit(y, L, w, bad)
    BY <1>3, <1>4, <1>5, <1>6 DEF Fit, Covered
<1>8. \A L, w, bad, v : Leaving(x, L, w, bad, v) => Leaving(y, L, w, bad, v)
    BY <1>3, <1>4, <1>5, <1>6 DEF Leaving
<1>9. Range(y.srvs) = Range(x.srvs) \ {s}
    BY <1>2, <1>3
<1> QED
    BY <1>3, <1>7, <1>8, <1>9 DEF y

\* The questions of a list, once the strings of a service have been freed.
FreedIn(qs, s) == [j \in DOMAIN qs |-> FreeStrings(qs[j], s)]
SameFreed(q, f, s) ==
    /\ q.of = None => f = q
    /\ IsProbeQuestion(q) =>
         /\ IsProbeQuestion(f) /\ f.svc = q.svc
         /\ (q.of = s => f.of = Freed) /\ (q.of # s => f.of = q.of)

\* A question that had them is as it was, but for them.
LEMMA FreeStringsIs ==
    ASSUME NEW q, NEW s \in Svcs
    PROVE  SameFreed(q, FreeStrings(q, s), s)
<1> DEFINE f == FreeStrings(q, s)
           g == [q EXCEPT !.of = Freed]
<1>1. (q.of = s => f = g) /\ (q.of # s => f = q)
    BY DEF FreeStrings
<1>2. q.of = None => f = q
    BY <1>1, NullAssumption
<1>3. DOMAIN q = QuestionFields => DOMAIN g = QuestionFields /\ g.svc = q.svc /\ g.type = q.type /\ g.of = Freed
    BY DEF QuestionFields
<1> HIDE DEF f, g
<1>4. SameFreed(q, f, s)
    BY <1>1, <1>2, <1>3 DEF SameFreed, IsProbeQuestion
<1> QED
    BY <1>4 DEF f

\* What a packet asks for is still asked for, and nothing has the service's strings.
LEMMA FreedInIs ==
    ASSUME NEW qs, IsList(qs), NEW s \in Svcs
    PROVE  LET new == FreedIn(qs, s)
           IN  /\ IsList(new) /\ DOMAIN new = DOMAIN qs /\ (qs # <<>> => new # <<>>)
               /\ \A j \in DOMAIN qs : SameFreed(qs[j], new[j], s)
<1> DEFINE new == FreedIn(qs, s)
           n == Len(qs)
<1>1. n \in Nat /\ DOMAIN qs = 1 .. n
    BY ListIs
<1>2. DOMAIN new = 1 .. n /\ new = [i \in 1 .. n |-> new[i]]
    BY <1>1 DEF FreedIn
<1>3. ASSUME NEW j \in DOMAIN qs PROVE SameFreed(qs[j], new[j], s)
  <2>1. new[j] = FreeStrings(qs[j], s)
      BY DEF FreedIn
  <2> QED
      BY <2>1, FreeStringsIs
<1>4. qs # <<>> => new # <<>>
    BY <1>1 DEF FreedIn
<1> HIDE DEF new, n
<1>5. IsList(new) /\ Len(new) = n
    BY <1>1, <1>2, ListOf
<1> QED
    BY <1>1, <1>2, <1>3, <1>4, <1>5 DEF new

\* Services that keep their types are asked for as they were, and none by the strings of the
\* one that goes.
LEMMA EnoughFreed ==
    ASSUME NEW qs, IsList(qs), NEW s \in Svcs, NEW V, NEW svc, NEW new,
           \A v \in V : new[v].type = svc[v].type, NEW ip, Enough(qs, V, ip, svc, {s})
    PROVE  Enough(FreedIn(qs, s), V, ip, new, {})
<1> DEFINE fs == FreedIn(qs, s)
<1>1. DOMAIN fs = DOMAIN qs /\ \A j \in DOMAIN qs : SameFreed(qs[j], fs[j], s)
    BY FreedInIs
<1> HIDE DEF fs
<1>2. ASSUME NEW j \in DOMAIN qs
      PROVE  /\ IsProbeQuestion(fs[j]) /\ fs[j].svc = qs[j].svc
             /\ (qs[j].of = s => fs[j].of = Freed) /\ (qs[j].of # s => fs[j].of = qs[j].of)
    BY <1>1 DEF Enough, SameFreed
<1>3. AsksHost(fs) <=> AsksHost(qs)
    BY <1>1, <1>2 DEF AsksHost, IsOfHost
<1>4. PICK g \in [V -> DOMAIN qs] : NamedBy(g, qs, V, svc, {s})
    BY DEF Enough, Named
<1>5. \A i \in DOMAIN fs : IsOfHost(fs[i]) \/ \E v \in V : g[v] = i
    BY <1>1, <1>2, <1>4 DEF NamedBy, IsOfHost
<1>6. ASSUME NEW v \in V PROVE StandsFor(fs[g[v]], v, new, {})
  <2>1. StandsFor(qs[g[v]], v, svc, {s}) /\ g[v] \in DOMAIN qs
      BY <1>4 DEF NamedBy
  <2>2. fs[g[v]].svc = new[v].type /\ ~IsOfHost(fs[g[v]])
      BY <1>2, <2>1 DEF StandsFor, IsOfHost
  <2>3. fs[g[v]].of \in {v, Freed}
      BY <1>2, <2>1 DEF StandsFor
  <2> QED
      BY <2>2, <2>3 DEF StandsFor
<1>7. NamedBy(g, fs, V, new, {})
    BY <1>4, <1>5, <1>6 DEF NamedBy
<1>8. Enough(fs, V, ip, new, {})
    BY <1>1, <1>2, <1>3, <1>4, <1>7 DEF Enough, Named
<1> QED
    BY <1>8 DEF fs

\* The memory of a service is given back, and its strings: nothing has them any more.
LEMMA FreeServiceIs ==
    ASSUME NEW x, NEW L, NEW w, NEW bad, NEW s \in Svcs, s \notin L, Leaving(x, L, w, bad, s)
    PROVE  LET y == FreeService(x, s)
           IN  /\ Fit(y, L, w, bad)
               /\ y.host = x.host /\ y.srvs = x.srvs /\ y.hosts = x.hosts
<1> DEFINE t == x.tx
           u == [i \in DOMAIN t |-> [t[i] EXCEPT !.qs = FreedIn(t[i].qs, s)]]
           v == [x.svc EXCEPT ![s] = NoService]
           y == [x EXCEPT !.svc = v, !.tx = u]
<1>2. /\ IsServer(x) /\ Refs(x, L) /\ QueueFits(t, w, bad) /\ DOMAIN x = ServerFields
      /\ IsServices(x.svc) /\ IsList(t)
    BY DEF Leaving, IsServer
<1>1. FreeService(x, s) = y
  <2> DEFINE z == [x EXCEPT !.svc = v]
             Freed1(a) == [i \in DOMAIN a |-> [a[i] EXCEPT !.qs = FreedIn(a[i].qs, s)]]
  <2>1. FreeService(x, s) = [z EXCEPT !.tx = Freed1(z.tx)]
      BY DEF FreeService, FreeIn, FreedIn
  <2>2. z.tx = t
      BY <1>2 DEF ServerFields
  <2>3. y = [z EXCEPT !.tx = Freed1(t)]
      OBVIOUS
  <2> HIDE DEF z, y, u, Freed1
  <2> QED
      BY <2>1, <2>2, <2>3
<1>3. IsServices(v) /\ \A e \in L : v[e].type = x.svc[e].type
  <2>1. DOMAIN NoService = ServiceFields
      BY DEF NoService, ServiceFields
  <2>2. DOMAIN v = Svcs /\ v[s] = NoService /\ \A e \in Svcs : e # s => v[e] = x.svc[e]
      BY <1>2 DEF IsServices
  <2>3. \A e \in L : e \in Svcs /\ e # s
      BY <1>2 DEF Refs, Typed
  <2> HIDE DEF v
  <2>4. IsServices(v)
      BY <1>2, <2>1, <2>2 DEF IsServices
  <2> QED
      BY <2>2, <2>3, <2>4
<1>4. /\ DOMAIN y = ServerFields /\ y.host = x.host /\ y.srvs = x.srvs /\ y.hosts = x.hosts
      /\ y.twin = x.twin /\ y.up = x.up /\ y.tx = u /\ y.pcb = x.pcb /\ y.ready = x.ready /\ y.svc = v
    BY <1>2 DEF ServerFields
<1> HIDE DEF y, v
<1>5. DOMAIN u = DOMAIN t /\ \A i \in DOMAIN t : u[i] = [t[i] EXCEPT !.qs = FreedIn(t[i].qs, s)]
    OBVIOUS
<1>6. IsList(u)
  <2> DEFINE n == Len(t)
  <2>1. n \in Nat /\ DOMAIN t = 1 .. n
      BY <1>2, ListIs
  <2>2. DOMAIN u = 1 .. n /\ u = [i \in 1 .. n |-> u[i]]
      BY <2>1
  <2> HIDE DEF u, n
  <2> QED
      BY <2>1, <2>2, ListOf
<1> HIDE DEF u
<1>7. ASSUME NEW i \in DOMAIN t
      PROVE  /\ PacketFits(u[i], L) /\ u[i].id = t[i].id /\ u[i].pcb = t[i].pcb
             /\ u[i].servers = t[i].servers /\ u[i].qs = FreedIn(t[i].qs, s) /\ u[i].at = t[i].at
             /\ IsQueued(u[i]) <=> IsQueued(t[i])
  <2> DEFINE p == t[i]
             qs == FreedIn(p.qs, s)
  <2>1. PacketFits(p, L) /\ IsList(p.qs) /\ DOMAIN p = PacketFields
      BY <1>2 DEF Refs, PacketFits, IsPacket
  <2>2. IsList(qs)
      BY <2>1, FreedInIs
  <2> HIDE DEF p, qs
  <2> DEFINE q == [p EXCEPT !.qs = qs]
  <2>3. PacketFits(q, L)
      BY <2>1, <2>2, PacketAsks
  <2>4. q.id = p.id /\ q.pcb = p.pcb /\ q.servers = p.servers /\ q.qs = qs
      BY <2>1, <2>2, PacketAsks
  <2>5. IsQueued(q) <=> IsQueued(p)
      BY <2>1, <2>2, PacketAsks
  <2>6. q.at = p.at
      BY <2>1 DEF PacketFields
  <2>7. u[i] = q
      BY <1>5 DEF p, qs
  <2> HIDE DEF q
  <2> QED
      BY <2>3, <2>4, <2>5, <2>6, <2>7 DEF p, qs
<1>8. QueueFits(u, w, bad)
  <2>1. Thinned(t, u)
      BY <1>2, <1>5, <1>7, SamePlacesThin
  <2> QED
      BY <1>2, <1>6, <2>1, ThinnedFits
<1>9. IsServer(y)
    BY <1>2, <1>3, <1>4, <1>6 DEF IsServer
<1>10. Refs(y, L)
  <2>1. Typed(v, L)
      BY <1>2, <1>3 DEF Refs, Typed
  <2>2. \A k \in DOMAIN y.tx : PacketFits(y.tx[k], L)
      BY <1>4, <1>5, <1>7
  <2> QED
      BY <1>2, <1>4, <2>1, <2>2 DEF Refs
<1>11. ASSUME NEW b \in Pcbs PROVE Covered(y, b)
  <2> DEFINE r == x.pcb[b]
  <2>1. CoveredBy(x, b, {s}) /\ Range(r.services) \subseteq L
      BY <1>2 DEF Leaving, Refs
  <2>2. ASSUME AllPlain(t, b) PROVE AllPlain(u, b)
    <3> SUFFICES ASSUME NEW i \in DOMAIN u, u[i].pcb = b PROVE Plain(u[i])
        BY DEF AllPlain
    <3>1. i \in DOMAIN t /\ Plain(t[i]) /\ u[i].qs = FreedIn(t[i].qs, s)
        BY <1>5, <1>7, <2>2 DEF AllPlain
    <3>2. IsList(t[i].qs)
        BY <1>2, <3>1 DEF Refs, PacketFits, IsPacket
    <3>3. \A j \in DOMAIN t[i].qs : SameFreed(t[i].qs[j], FreedIn(t[i].qs, s)[j], s)
        BY <3>2, FreedInIs
    <3>4. DOMAIN FreedIn(t[i].qs, s) = DOMAIN t[i].qs
        BY DEF FreedIn
    <3> QED
        BY <3>1, <3>3, <3>4 DEF Plain, SameFreed
  <2>3. ASSUME NEW k \in DOMAIN t, ProbesFor(t[k], b, r, x.svc, {s})
        PROVE  ProbesFor(u[k], b, r, v, {})
    <3>1. IsList(t[k].qs)
        BY <1>2 DEF Refs, PacketFits, IsPacket
    <3>2. Enough(t[k].qs, Range(r.services), r.ip, x.svc, {s}) /\ t[k].qs # <<>>
        BY <2>3 DEF ProbesFor, AsksEnough
    <3>3. \A e \in Range(r.services) : v[e].type = x.svc[e].type
        BY <1>3, <2>1
    <3>4. Enough(FreedIn(t[k].qs, s), Range(r.services), r.ip, v, {})
        BY <3>1, <3>2, <3>3, EnoughFreed
    <3>5. FreedIn(t[k].qs, s) # <<>>
        BY <3>1, <3>2, FreedInIs
    <3> QED
        BY <1>7, <2>3, <3>4, <3>5 DEF ProbesFor, AsksEnough
  <2>4. Alone(t, b) => Alone(u, b)
      BY <1>5, <1>7 DEF Alone
  <2> QED
      BY <1>4, <1>5, <2>1, <2>2, <2>3, <2>4 DEF Covered, CoveredBy
<1>12. Fit(y, L, w, bad)
    BY <1>4, <1>8, <1>9, <1>10, <1>11 DEF Fit
<1> QED
    BY <1>1, <1>4, <1>12

\* A service is freed: nothing refers to it but questions whose strings are gone.
LEMMA DiscardIs ==
    ASSUME NEW x, NEW L, NEW w, NEW bad, Fit(x, L, w, bad), NEW s \in Svcs
    PROVE  LET y == Discard(x, s)
           IN  /\ Fit(y, L \ {s}, w, bad)
               /\ y.host = x.host /\ y.srvs = x.srvs /\ y.hosts = x.hosts
<1> DEFINE z == RemoveScheduledServicePackets(x, s)
           M == L \ {s}
           y == FreeService(z, s)
<1>1. Discard(x, s) = y
    BY DEF Discard
<1>2. Leaving(z, M, w, bad, s) /\ Stays(x, z)
    BY RemoveScheduledServicePacketsIs
<1>3. s \notin M
    OBVIOUS
<1> HIDE DEF z, M
<1>4. Fit(y, M, w, bad)
    BY <1>2, <1>3, FreeServiceIs
<1>5. y.host = z.host /\ y.srvs = z.srvs /\ y.hosts = z.hosts
    BY <1>2, <1>3, FreeServiceIs
<1> HIDE DEF y
<1> QED
    BY <1>1, <1>2, <1>4, <1>5 DEF M, Stays, Keeps

\* A service of a host that is removed: goodbye, out of the packets, out of the list, freed.
Leave(x, s) == FreeService(Unlink(RemoveScheduledServicePackets(SendByeService(x, <<s>>, FALSE), s), s), s)

\* The services that stay are as they were.
LEMMA LeaveIs ==
    ASSUME NEW x, NEW w, NEW bad, Sound(x, w, bad), NEW s \in Svcs
    PROVE  Sound(Leave(x, s), w, bad)
<1> DEFINE L == Range(x.srvs)
           a == SendByeService(x, <<s>>, FALSE)
           c == RemoveScheduledServicePackets(a, s)
           d == Unlink(c, s)
           y == FreeService(d, s)
           M == L \ {s}
<1>1. Leave(x, s) = y
    BY DEF Leave
<1>2. Fit(a, L, w, bad) /\ Stays(x, a)
    BY SendByeServiceIs DEF Sound
<1> HIDE DEF a
<1>3. Leaving(c, M, w, bad, s) /\ Stays(a, c)
    BY <1>2, RemoveScheduledServicePacketsIs
<1> HIDE DEF c
<1>4. Range(c.srvs) = L
    BY <1>2, <1>3 DEF Stays, Keeps
<1> HIDE DEF L
<1> s \notin M /\ M = L \ {s}
    OBVIOUS
<1> HIDE DEF M
<1>5. Leaving(d, M, w, bad, s)
    BY <1>3, UnlinkIs DEF Leaving
<1>6. Range(d.srvs) = Range(c.srvs) \ {s}
    BY <1>3, UnlinkIs DEF Leaving
<1> HIDE DEF d
<1>7. Range(d.srvs) = M
    BY <1>4, <1>6
<1>8. Fit(y, M, w, bad)
    BY <1>5, FreeServiceIs
<1>9. y.srvs = d.srvs
    BY <1>5, FreeServiceIs
<1> HIDE DEF y
<1>10. Range(y.srvs) = M
    BY <1>7, <1>9
<1> QED
    BY <1>1, <1>8, <1>10 DEF Sound

\* The services of a host leave one after the other.
LeavesAll(r, n, x, as) ==
    /\ r[0] = x /\ r[n] = FoldLeft(Leave, x, as)
    /\ \A i \in 1 .. n : r[i] = Leave(r[i - 1], as[i])

\* The fold takes these steps.
LEMMA LeavesFold ==
    ASSUME NEW x, NEW as,
           NEW n \in Nat, DOMAIN as = 1 .. n
    PROVE  \E r : LeavesAll(r, n, x, as)
<1> DEFINE Op(y, i) == Leave(y, as[i])
           After(g, s) == IF s = {} THEN x ELSE Op(g[s \ {Max(s)}], Max(s))
           Is(k, g) == g = [s \in SUBSET (1 .. k) |-> After(g, s)]
           fold == CHOOSE g : Is(n, g)
           T == {k \in 0 .. n : \E g : Is(k, g)}
<1>1. FoldLeft(Leave, x, as) = fold[1 .. n]
    BY DEF FoldLeft, MapThenFoldSet
<1> HIDE DEF Op
<1>2. Is(0, [s \in SUBSET (1 .. 0) |-> x])
    OBVIOUS
<1>3. ASSUME NEW k \in 0 .. n - 1, NEW g, Is(k, g) PROVE \E h : Is(k + 1, h)
  <2> DEFINE h == [s \in SUBSET (1 .. k + 1) |->
                     IF k + 1 \in s THEN Op(g[s \ {k + 1}], k + 1) ELSE g[s]]
  <2>0. \A s \in SUBSET (1 .. k) : g[s] = After(g, s)
      BY <1>3
  <2>1. /\ \A s \in SUBSET (1 .. k) : h[s] = g[s]
        /\ \A s \in SUBSET (1 .. k + 1) : k + 1 \in s => h[s] = Op(g[s \ {k + 1}], k + 1)
        /\ h = [s \in SUBSET (1 .. k + 1) |-> h[s]]
      OBVIOUS
  <2> HIDE DEF h
  <2>2. \A s \in SUBSET (1 .. k + 1) : h[s] = After(h, s)
      BY k \in Nat, <2>0, <2>1, PlacesUpTo
  <2> QED
      BY <2>1, <2>2
<1>4. Is(n, fold)
  <2> HIDE DEF Is
  <2>1. 0 \in T /\ \A k \in 0 .. n - 1 : k \in T => k + 1 \in T
      BY <1>2, <1>3
  <2> HIDE DEF T
  <2>2. 0 .. n \subseteq T
      BY <2>1, UpFromZero
  <2> QED
      BY <2>2 DEF T
<1> HIDE DEF fold
<1> DEFINE r == [i \in 0 .. n |-> fold[1 .. i]]
<1>5. r[0] = x /\ r[n] = fold[1 .. n]
  <2>1. 1 .. 0 = {} /\ r[0] = fold[1 .. 0] /\ r[n] = fold[1 .. n]
      OBVIOUS
  <2>2. fold[{}] = x
      BY <1>4
  <2> QED
      BY <2>1, <2>2
<1>6. ASSUME NEW i \in 1 .. n PROVE r[i] = Op(r[i - 1], i)
  <2>1. r[i] = fold[1 .. i] /\ r[i - 1] = fold[1 .. i - 1]
      OBVIOUS
  <2>2. fold[1 .. i] = Op(fold[(1 .. i) \ {Max(1 .. i)}], Max(1 .. i))
      BY <1>4, PlacesBefore
  <2> HIDE DEF r
  <2> QED
      BY <2>1, <2>2, PlacesBefore
<1> HIDE DEF r
<1>7. LeavesAll(r, n, x, as)
    BY <1>1, <1>5, <1>6 DEF Op, LeavesAll
<1> QED
    BY <1>7

\* mdns_delegate_hostname_remove: the services of the host go with it.
LEMMA DelegateHostnameRemoveIs ==
    ASSUME NEW x, NEW w, NEW bad, Sound(x, w, bad), NEW name
    PROVE  Sound(DelegateHostnameRemove(x, name), w, bad)
<1> DEFINE others == {s \in Svcs : x.svc[s].host # name}
           gone == Without(x.srvs, others)
           n == Len(gone)
           rest == FoldLeft(Leave, x, gone)
           host == {h \in Range(rest.hosts) : h.name = name}
           l == Without(rest.hosts, host)
<1>0. DelegateHostnameRemove(x, name) = [rest EXCEPT !.hosts = l]
    BY DEF DelegateHostnameRemove, Leave
<1>1. IsList(x.srvs)
    BY SoundIs
<1> HIDE DEF others
<1>2. IsList(gone) /\ Range(gone) \subseteq Range(x.srvs)
  <2>1. IsList(gone)
      BY <1>1, WithoutIs
  <2>2. Range(gone) = {e \in Range(x.srvs) : e \notin others}
      BY <1>1, WithoutIs
  <2> QED
      BY <2>1, <2>2
<1>11. \A i \in DOMAIN gone : gone[i] \in Svcs
    BY <1>2, SoundIs DEF Range
<1> HIDE DEF gone
<1>3. n \in Nat /\ DOMAIN gone = 1 .. n
    BY <1>2, ListIs
<1> HIDE DEF n
<1>4. PICK r : LeavesAll(r, n, x, gone)
    BY <1>3, LeavesFold
<1> DEFINE Has(i) == Sound(r[i], w, bad)
<1>5. Has(0)
    BY <1>4 DEF LeavesAll
<1>6. ASSUME NEW i \in 1 .. n, Has(i - 1) PROVE Has(i)
  <2>1. r[i] = Leave(r[i - 1], gone[i])
      BY <1>4 DEF LeavesAll
  <2>2. gone[i] \in Svcs
      BY <1>3, <1>11
  <2> QED
      BY <1>6, <2>1, <2>2, LeaveIs
<1> HIDE DEF Has
<1>7. Has(n)
  <2> DEFINE T == {i \in 0 .. n : Has(i)}
  <2>1. 0 \in T
      BY <1>3, <1>5
  <2>2. \A i \in 1 .. n : i - 1 \in T => i \in T
    <3>1. \A i \in 1 .. n : i \in 0 .. n
        OBVIOUS
    <3> QED
        BY <1>6, <3>1
  <2> HIDE DEF T
  <2>3. n \in T
      BY <1>3, <2>1, <2>2, UpTo
  <2> QED
      BY <2>3 DEF T
<1>8. Sound(rest, w, bad)
    BY <1>4, <1>7 DEF Has, LeavesAll
<1> HIDE DEF rest, host
<1>9. IsList(l)
    BY <1>8, SoundIs, WithoutIs DEF IsServer
<1> HIDE DEF l
<1>10. Sound([rest EXCEPT !.hosts = l], w, bad)
    BY <1>8, <1>9, HostsSet
<1> QED
    BY <1>0, <1>10

\* mdns_service_add: the new service is in the list before it is probed for.
LEMMA ServiceAddIs ==
    ASSUME NEW x, NEW w, NEW bad, Sound(x, w, bad), NEW s \in Free(x), NEW inst, NEW type, type # None,
           NEW host, NEW port
    PROVE  Sound(ServiceAdd(x, s, inst, type, host, port), w, bad)
<1> DEFINE one == <<s>>
           l == one \o x.srvs
           new == [inst |-> inst, type |-> type, host |-> Host(x, host), port |-> port,
                   txt |-> {}, subs |-> {}]
           v == [x.svc EXCEPT ![s] = new]
           y == [x EXCEPT !.srvs = l, !.svc = v]
           z == ProbeAllPcbs(y, one, FALSE, FALSE)
           out == ServiceAdd(x, s, inst, type, host, port)
<1>1. out = x \/ (x.host # None /\ out = z)
    BY DEF ServiceAdd
<1>4. DOMAIN new = ServiceFields /\ new.type = type
    BY DEF ServiceFields
<1> SUFFICES Sound(out, w, bad)
    OBVIOUS
<1> HIDE DEF out, new
<1>5. s \in Svcs /\ s \notin Range(x.srvs)
    BY DEF Free, Range
<1>6. /\ IsServices(v) /\ v[s].type = type
      /\ \A e \in Range(x.srvs) : v[e].type = x.svc[e].type /\ e \in Svcs /\ x.svc[e].type # None
  <2>1. IsServices(x.svc) /\ \A e \in Range(x.srvs) : e \in Svcs /\ x.svc[e].type # None
      BY SoundIs
  <2>2. DOMAIN v = Svcs /\ v[s] = new /\ \A e \in Svcs : e # s => v[e] = x.svc[e]
      BY <1>5, <2>1 DEF IsServices
  <2> HIDE DEF v
  <2>3. IsServices(v)
      BY <1>4, <2>1, <2>2 DEF IsServices
  <2> QED
      BY <1>4, <1>5, <2>1, <2>2, <2>3
<1> HIDE DEF v
<1>2. CASE out = x
    BY <1>2
<1>3. CASE x.host # None /\ out = z
  <2>1. IsServer(x) /\ IsList(x.srvs) /\ DOMAIN x = ServerFields
      BY SoundIs DEF IsServer
  <2>2. IsList(one) /\ Range(one) = {s} /\ one # <<>>
      BY OneIs
  <2> HIDE DEF one
  <2>3. IsList(l) /\ Range(l) = Range(one) \cup Range(x.srvs)
      BY <2>1, <2>2, ConcatRange, Zenon
  <2>4. /\ DOMAIN y = ServerFields /\ y.srvs = l /\ y.hosts = x.hosts /\ y.twin = x.twin /\ y.up = x.up
        /\ y.tx = x.tx /\ y.pcb = x.pcb /\ y.ready = x.ready /\ y.host = x.host /\ y.svc = v
      BY <2>1 DEF ServerFields
  <2> HIDE DEF y, l
  <2>8. Typed(y.svc, Range(y.srvs))
      BY <1>5, <1>6, <2>2, <2>3, <2>4 DEF Typed
  <2>9. Range(x.srvs) \subseteq Range(y.srvs)
      BY <2>3, <2>4
  <2>5. Sound(y, w, bad)
      BY <1>3, <1>6, <2>1, <2>3, <2>4, <2>8, <2>9, NamesSet DEF IsServer
  <2> DEFINE L == Range(y.srvs)
  <2>6. Range(one) \subseteq L /\ Fit(y, L, w, bad)
      BY <2>3, <2>4, <2>5 DEF Sound
  <2> HIDE DEF L
  <2>7. Fit(z, L, w, bad) /\ Stays(y, z)
      BY <2>2, <2>6, ProbeAllPcbsIs
  <2> HIDE DEF z
  <2> QED
      BY <1>3, <2>7, SoundBy DEF L, Stays
<1> QED
    BY <1>1, <1>2, <1>3

\* A field of a service is set that is not its type.
LEMMA OneSet ==
    ASSUME NEW x, NEW w, NEW bad, Sound(x, w, bad), NEW s \in Range(x.srvs), NEW v,
           NEW e, e.type = v.type, DOMAIN e = DOMAIN v, v = x.svc[s]
    PROVE  SameTypes(x.svc, [x.svc EXCEPT ![s] = e])
<1> DEFINE u == [x.svc EXCEPT ![s] = e]
<1>1. s \in Svcs /\ IsServices(x.svc)
    BY SoundIs
<1>2. DOMAIN u = Svcs /\ u[s] = e /\ \A i \in Svcs : i # s => u[i] = x.svc[i]
    BY <1>1 DEF IsServices
<1> HIDE DEF u
<1>3. SameTypes(x.svc, u)
    BY <1>1, <1>2 DEF SameTypes, IsServices
<1> QED
    BY <1>3 DEF u

\* The fields that the calls set.
LEMMA FieldOfService ==
    ASSUME NEW x, NEW w, NEW bad, Sound(x, w, bad), NEW s \in Range(x.srvs), NEW e
    PROVE  /\ SameTypes(x.svc, [x.svc EXCEPT ![s] = [x.svc[s] EXCEPT !.port = e]])
           /\ SameTypes(x.svc, [x.svc EXCEPT ![s] = [x.svc[s] EXCEPT !.txt = e]])
           /\ SameTypes(x.svc, [x.svc EXCEPT ![s] = [x.svc[s] EXCEPT !.subs = e]])
           /\ SameTypes(x.svc, [x.svc EXCEPT ![s] = [x.svc[s] EXCEPT !.inst = e]])
<1> DEFINE v == x.svc[s]
           port == [v EXCEPT !.port = e]
           txt == [v EXCEPT !.txt = e]
           subs == [v EXCEPT !.subs = e]
           inst == [v EXCEPT !.inst = e]
<1>1. DOMAIN v = ServiceFields
    BY SoundIs DEF IsServices
<1>2. /\ port.type = v.type /\ DOMAIN port = DOMAIN v /\ txt.type = v.type /\ DOMAIN txt = DOMAIN v
      /\ subs.type = v.type /\ DOMAIN subs = DOMAIN v /\ inst.type = v.type /\ DOMAIN inst = DOMAIN v
    BY <1>1 DEF ServiceFields
<1> HIDE DEF port, txt, subs, inst
<1>3. SameTypes(x.svc, [x.svc EXCEPT ![s] = port])
    BY <1>2, OneSet
<1>4. SameTypes(x.svc, [x.svc EXCEPT ![s] = txt])
    BY <1>2, OneSet
<1>5. SameTypes(x.svc, [x.svc EXCEPT ![s] = subs])
    BY <1>2, OneSet
<1>6. SameTypes(x.svc, [x.svc EXCEPT ![s] = inst])
    BY <1>2, OneSet
<1> QED
    BY <1>3, <1>4, <1>5, <1>6 DEF port, txt, subs, inst

\* What a service is is set.
LEMMA SvcSet ==
    ASSUME NEW x, NEW w, NEW bad, Sound(x, w, bad), NEW v, SameTypes(x.svc, v)
    PROVE  /\ Sound([x EXCEPT !.svc = v], w, bad) /\ [x EXCEPT !.svc = v].srvs = x.srvs
           /\ [x EXCEPT !.svc = v].svc = v
<1> DEFINE y == [x EXCEPT !.svc = v]
<1>1. Alike(x, y)
    BY SoundIs, FieldsSet
<1>3. y.svc = v
    BY SoundIs DEF IsServer, ServerFields
<1> HIDE DEF y
<1>2. Sound(y, w, bad) /\ y.srvs = x.srvs
    BY <1>1, SoundAlike DEF Alike, Keeps
<1> QED
    BY <1>2, <1>3 DEF y

\* Something of a service is set, and announced.
LEMMA AnnouncedIs ==
    ASSUME NEW x, NEW w, NEW bad, Sound(x, w, bad), NEW s \in Range(x.srvs), NEW include_ip
    PROVE  Sound(AnnounceAllPcbs(x, <<s>>, include_ip), w, bad)
<1> DEFINE L == Range(x.srvs)
           one == <<s>>
           z == AnnounceAllPcbs(x, one, include_ip)
<1>1. IsList(one) /\ Range(one) \subseteq L /\ one # <<>>
    BY OneIs
<1> HIDE DEF one
<1>2. Fit(z, L, w, bad) /\ Stays(x, z)
    BY <1>1, AnnounceAllPcbsIs DEF Sound
<1> HIDE DEF z
<1>3. Sound(z, w, bad)
    BY <1>2, SoundBy DEF Stays
<1> QED
    BY <1>3 DEF z, one

-----------------------------------------------------------------------------
(* What is set of a service is announced; a service that is removed says goodbye. *)

\* mdns_service_port_set and its like, with what they leave in the service.
LEMMA ChangedIs ==
    ASSUME NEW x, NEW w, NEW bad, Sound(x, w, bad), NEW s \in Range(x.srvs) \cup {None},
           NEW u, s # None => SameTypes(x.svc, u), NEW include_ip
    PROVE  Sound(IF s = None THEN x ELSE AnnounceAllPcbs([x EXCEPT !.svc = u], <<s>>, include_ip), w, bad)
<1> DEFINE y == [x EXCEPT !.svc = u]
<1>1. s # None => Sound(y, w, bad) /\ y.srvs = x.srvs
    BY SvcSet
<1> HIDE DEF y
<1>2. s # None => Sound(AnnounceAllPcbs(y, <<s>>, include_ip), w, bad)
    BY <1>1, AnnouncedIs
<1> QED
    BY <1>2 DEF y

\* The services a call may name are services.
LEMMA FindIs ==
    ASSUME NEW x, NEW w, NEW bad, Sound(x, w, bad), NEW inst, NEW type, NEW host
    PROVE  /\ Find(x, inst, type, host) \in Range(x.srvs) \cup {None}
           /\ FindAnyHost(x, inst, type, host) \in Range(x.srvs) \cup {None}
BY SoundIs, GetServiceItemInstanceIs DEF Find, FindAnyHost

\* The port of a service is set.
LEMMA ServicePortSetIs ==
    ASSUME NEW x, NEW w, NEW bad, Sound(x, w, bad), NEW inst, NEW type, NEW host, NEW port
    PROVE  Sound(ServicePortSet(x, inst, type, host, port), w, bad)
<1> DEFINE s == Find(x, inst, type, host)
           u == [x.svc EXCEPT ![s] = [x.svc[s] EXCEPT !.port = port]]
           y == IF s = None THEN x ELSE AnnounceAllPcbs([x EXCEPT !.svc = u], <<s>>, TRUE)
<1>1. s \in Range(x.srvs) \cup {None}
    BY FindIs
<1>2. ServicePortSet(x, inst, type, host, port) = y
    BY DEF ServicePortSet, Changed
<1> HIDE DEF s
<1>4. s # None => SameTypes(x.svc, u)
    BY <1>1, FieldOfService
<1> HIDE DEF u
<1>3. Sound(y, w, bad)
    BY <1>1, <1>4, ChangedIs
<1> QED
    BY <1>2, <1>3

\* The TXT items of a service are set.
LEMMA ServiceTxtSetIs ==
    ASSUME NEW x, NEW w, NEW bad, Sound(x, w, bad), NEW inst, NEW type, NEW host, NEW items
    PROVE  Sound(ServiceTxtSet(x, inst, type, host, items), w, bad)
<1> DEFINE s == Find(x, inst, type, host)
           u == [x.svc EXCEPT ![s] = [x.svc[s] EXCEPT !.txt = items]]
           y == IF s = None THEN x ELSE AnnounceAllPcbs([x EXCEPT !.svc = u], <<s>>, FALSE)
<1>1. s \in Range(x.srvs) \cup {None}
    BY FindIs
<1>2. ServiceTxtSet(x, inst, type, host, items) = y
    BY DEF ServiceTxtSet, Changed
<1> HIDE DEF s
<1>4. s # None => SameTypes(x.svc, u)
    BY <1>1, FieldOfService
<1> HIDE DEF u
<1>3. Sound(y, w, bad)
    BY <1>1, <1>4, ChangedIs
<1> QED
    BY <1>2, <1>3

\* A TXT item of a service is set.
LEMMA ServiceTxtItemSetIs ==
    ASSUME NEW x, NEW w, NEW bad, Sound(x, w, bad), NEW inst, NEW type, NEW host, NEW key, NEW value
    PROVE  Sound(ServiceTxtItemSet(x, inst, type, host, key, value), w, bad)
<1> DEFINE s == Find(x, inst, type, host)
           u == [x.svc EXCEPT ![s] = [x.svc[s] EXCEPT !.txt = {i \in x.svc[s].txt : i[1] # key} \cup {<<key, value>>}]]
           y == IF s = None THEN x ELSE AnnounceAllPcbs([x EXCEPT !.svc = u], <<s>>, FALSE)
<1>1. s \in Range(x.srvs) \cup {None}
    BY FindIs
<1>2. ServiceTxtItemSet(x, inst, type, host, key, value) = y
    BY DEF ServiceTxtItemSet, Changed
<1> HIDE DEF s
<1>4. s # None => SameTypes(x.svc, u)
    BY <1>1, FieldOfService
<1> HIDE DEF u
<1>3. Sound(y, w, bad)
    BY <1>1, <1>4, ChangedIs
<1> QED
    BY <1>2, <1>3

\* A TXT item of a service is removed.
LEMMA ServiceTxtItemRemoveIs ==
    ASSUME NEW x, NEW w, NEW bad, Sound(x, w, bad), NEW inst, NEW type, NEW host, NEW key
    PROVE  Sound(ServiceTxtItemRemove(x, inst, type, host, key), w, bad)
<1> DEFINE s == Find(x, inst, type, host)
           u == [x.svc EXCEPT ![s] = [x.svc[s] EXCEPT !.txt = {i \in x.svc[s].txt : i[1] # key}]]
           y == IF s = None THEN x ELSE AnnounceAllPcbs([x EXCEPT !.svc = u], <<s>>, FALSE)
<1>1. s \in Range(x.srvs) \cup {None}
    BY FindIs
<1>2. ServiceTxtItemRemove(x, inst, type, host, key) = IF s # None /\ x.svc[s].txt = {} THEN x ELSE y
    BY DEF ServiceTxtItemRemove, Changed
<1> HIDE DEF s
<1>4. s # None => SameTypes(x.svc, u)
    BY <1>1, FieldOfService
<1> HIDE DEF u
<1>3. Sound(y, w, bad)
    BY <1>1, <1>4, ChangedIs
<1> QED
    BY <1>2, <1>3

\* The subtypes of a service are added to, whether or not this is announced.
LEMMA ServiceSubtypeAddIs ==
    ASSUME NEW x, NEW w, NEW bad, Sound(x, w, bad), NEW inst, NEW type, NEW host, NEW new
    PROVE  Sound(ServiceSubtypeAdd(x, inst, type, host, new), w, bad)
<1> DEFINE s == FindAnyHost(x, inst, type, host)
           r == AddSubtypes(x.svc[s].subs, new)
           u == [x.svc EXCEPT ![s] = [x.svc[s] EXCEPT !.subs = r.subs]]
           z == [x EXCEPT !.svc = u]
           y == IF s = None THEN x ELSE AnnounceAllPcbs(z, <<s>>, FALSE)
           out == ServiceSubtypeAdd(x, inst, type, host, new)
<1>1. s \in Range(x.srvs) \cup {None}
    BY FindIs
<1>2. out = IF s = None \/ new = <<>> THEN x ELSE IF r.ok THEN y ELSE z
    BY DEF ServiceSubtypeAdd, Changed
<1> HIDE DEF s
<1>7. s # None => SameTypes(x.svc, u)
    BY <1>1, FieldOfService
<1> HIDE DEF u
<1>3. Sound(y, w, bad)
    BY <1>1, <1>7, ChangedIs
<1>4. s # None => Sound(z, w, bad)
    BY <1>7, SvcSet
<1> HIDE DEF y, z, r, out
<1>5. out = x \/ out = y \/ (s # None /\ out = z)
    BY <1>2
<1>6. Sound(out, w, bad)
    BY <1>3, <1>4, <1>5
<1> QED
    BY <1>6 DEF out

\* A goodbye to subtypes.
LEMMA SubtypeByeIs ==
    ASSUME NEW x, NEW w, NEW bad, Sound(x, w, bad), NEW s, NEW inst, NEW subs
    PROVE  LET y == SendByeSubtype(x, s, inst, subs)
           IN  Sound(y, w, bad) /\ y.srvs = x.srvs
<1> DEFINE y == SendByeSubtype(x, s, inst, subs)
<1>1. Alike(x, y)
    BY SoundIs, SendByeSubtypeIs
<1> HIDE DEF y
<1>2. Sound(y, w, bad) /\ y.srvs = x.srvs
    BY <1>1, SoundAlike DEF Alike, Keeps
<1> QED
    BY <1>2 DEF y

\* A subtype of a service is removed, and said goodbye to.
LEMMA ServiceSubtypeRemoveIs ==
    ASSUME NEW x, NEW w, NEW bad, Sound(x, w, bad), NEW inst, NEW type, NEW host, NEW sub
    PROVE  Sound(ServiceSubtypeRemove(x, inst, type, host, sub), w, bad)
<1> DEFINE s == FindAnyHost(x, inst, type, host)
           u == [x.svc EXCEPT ![s] = [x.svc[s] EXCEPT !.subs = x.svc[s].subs \ {sub}]]
           z == [x EXCEPT !.svc = u]
           y == SendByeSubtype(z, s, inst, {sub})
           out == ServiceSubtypeRemove(x, inst, type, host, sub)
<1>1. out = x \/ (s # None /\ out = y)
    BY DEF ServiceSubtypeRemove
<1>5. s \in Range(x.srvs) \cup {None}
    BY FindIs
<1> HIDE DEF s
<1>6. s # None => SameTypes(x.svc, u)
    BY <1>5, FieldOfService
<1> HIDE DEF u
<1>2. s # None => Sound(z, w, bad)
    BY <1>6, SvcSet
<1> HIDE DEF z
<1>3. s # None => Sound(y, w, bad)
    BY <1>2, SubtypeByeIs
<1> HIDE DEF y, out
<1>4. Sound(out, w, bad)
    BY <1>1, <1>3
<1> QED
    BY <1>4 DEF out

\* The subtypes of a service are replaced: goodbye to those that go, and the others announced.
LEMMA ServiceSubtypeUpdateIs ==
    ASSUME NEW x, NEW w, NEW bad, Sound(x, w, bad), NEW inst, NEW type, NEW host, NEW new
    PROVE  Sound(ServiceSubtypeUpdate(x, inst, type, host, new), w, bad)
<1> DEFINE s == FindAnyHost(x, inst, type, host)
           gone == x.svc[s].subs \ {new[i] : i \in DOMAIN new}
           bye0 == SendByeSubtype(x, s, inst, gone)
           bye == IF gone = {} THEN x ELSE bye0
           r == AddSubtypes({}, new)
           u == [bye.svc EXCEPT ![s] = [bye.svc[s] EXCEPT !.subs = r.subs]]
           z == [bye EXCEPT !.svc = u]
           y == IF s = None THEN bye ELSE AnnounceAllPcbs(z, <<s>>, FALSE)
           out == ServiceSubtypeUpdate(x, inst, type, host, new)
<1>1. s \in Range(x.srvs) \cup {None}
    BY FindIs
<1>2. out = IF s = None THEN x ELSE IF r.ok /\ new # <<>> THEN y ELSE z
    BY DEF ServiceSubtypeUpdate
<1> HIDE DEF s, gone
<1>3. Sound(bye0, w, bad) /\ bye0.srvs = x.srvs
    BY SubtypeByeIs
<1>4. Sound(bye, w, bad) /\ bye.srvs = x.srvs
    BY <1>3
<1> HIDE DEF bye
<1>9. s # None => SameTypes(bye.svc, u)
    BY <1>1, <1>4, FieldOfService
<1> HIDE DEF u
<1>5. Sound(y, w, bad)
    BY <1>1, <1>4, <1>9, ChangedIs
<1>6. s # None => Sound(z, w, bad)
    BY <1>4, <1>9, SvcSet
<1> HIDE DEF y, z, r, out
<1>7. out = x \/ out = y \/ (s # None /\ out = z)
    BY <1>2
<1>8. Sound(out, w, bad)
    BY <1>5, <1>6, <1>7
<1> QED
    BY <1>8 DEF out

\* A service gets another name: goodbye, and it is probed for.
LEMMA ServiceInstanceNameSetIs ==
    ASSUME NEW x, NEW w, NEW bad, Sound(x, w, bad), NEW old, NEW type, NEW host, NEW inst
    PROVE  Sound(ServiceInstanceNameSet(x, old, type, host, inst), w, bad)
<1> DEFINE s == Find(x, old, type, host)
           one == <<s>>
           bye0 == SendByeService(x, one, FALSE)
           bye == IF x.svc[s].inst = None THEN x ELSE bye0
           u == [bye.svc EXCEPT ![s] = [bye.svc[s] EXCEPT !.inst = inst]]
           z == [bye EXCEPT !.svc = u]
           y == ProbeAllPcbs(z, one, FALSE, FALSE)
           L == Range(x.srvs)
           out == ServiceInstanceNameSet(x, old, type, host, inst)
<1>1. s \in Range(x.srvs) \cup {None}
    BY FindIs
<1>2. out = IF s = None THEN x ELSE y
    BY DEF ServiceInstanceNameSet
<1> HIDE DEF s
<1>3. CASE s # None
  <2>1. IsList(one) /\ Range(one) \subseteq L /\ one # <<>>
      BY <1>1, <1>3, OneIs
  <2> HIDE DEF one
  <2>2. Fit(bye0, L, w, bad) /\ Stays(x, bye0)
      BY SendByeServiceIs DEF Sound
  <2> HIDE DEF bye0
  <2>3. Sound(bye0, w, bad) /\ bye0.srvs = x.srvs
      BY <2>2, SoundBy DEF Stays, Keeps
  <2>4. Sound(bye, w, bad) /\ bye.srvs = x.srvs
      BY <2>3
  <2> HIDE DEF bye
  <2>9. SameTypes(bye.svc, u)
      BY <1>1, <1>3, <2>4, FieldOfService
  <2> HIDE DEF u
  <2>5. Sound(z, w, bad) /\ z.srvs = x.srvs
      BY <2>4, <2>9, SvcSet
  <2> HIDE DEF z
  <2>6. Fit(z, L, w, bad)
      BY <2>5 DEF Sound
  <2> HIDE DEF L
  <2>7. Fit(y, L, w, bad) /\ Stays(z, y)
      BY <2>1, <2>6, ProbeAllPcbsIs
  <2> HIDE DEF y
  <2>8. Sound(y, w, bad)
      BY <2>5, <2>7, SoundBy DEF L, Stays
  <2> QED
      BY <1>2, <1>3, <2>8 DEF out
<1>4. CASE s = None
    BY <1>2, <1>4 DEF out
<1> QED
    BY <1>3, <1>4

\* mdns_service_remove: out of the list, goodbye, out of the packets, freed.
LEMMA ServiceRemoveIs ==
    ASSUME NEW x, NEW w, NEW bad, Sound(x, w, bad), NEW inst, NEW type, NEW host
    PROVE  Sound(ServiceRemove(x, inst, type, host), w, bad)
<1> DEFINE s == Find(x, inst, type, host)
           L == Range(x.srvs)
           M == L \ {s}
           a == Unlink(x, s)
           c == SendByeService(a, <<s>>, FALSE)
           y == Discard(c, s)
<1>1. ServiceRemove(x, inst, type, host) = IF s = None THEN x ELSE y
    BY DEF ServiceRemove
<1>8. s \in Range(x.srvs) \cup {None}
    BY FindIs
<1> HIDE DEF s
<1>9. s # None => s \in Svcs
    BY <1>8, SoundIs
<1>2. Fit(x, L, w, bad) /\ IsServer(x)
    BY SoundIs DEF Sound
<1>3. Fit(a, L, w, bad) /\ Range(a.srvs) = L \ {s}
    BY <1>2, UnlinkIs
<1> HIDE DEF a, L
<1>4. Fit(c, L, w, bad) /\ Stays(a, c)
    BY <1>3, SendByeServiceIs
<1> HIDE DEF c
<1>5. s # None => Fit(y, L \ {s}, w, bad)
    BY <1>4, <1>9, DiscardIs
<1>10. s # None => y.srvs = c.srvs
    BY <1>4, <1>9, DiscardIs
<1> HIDE DEF y
<1>6. s # None => y.srvs = a.srvs
    BY <1>4, <1>10 DEF Stays, Keeps
<1>7. s # None => Sound(y, w, bad)
    BY <1>3, <1>5, <1>6 DEF Sound
<1> QED
    BY <1>1, <1>7

\* The services are freed one after the other.
DiscardsAll(r, n, x, as) ==
    /\ r[0] = x /\ r[n] = FoldLeft(Discard, x, as)
    /\ \A i \in 1 .. n : r[i] = Discard(r[i - 1], as[i])

\* The fold takes these steps.
LEMMA DiscardsFold ==
    ASSUME NEW x, NEW as,
           NEW n \in Nat, DOMAIN as = 1 .. n
    PROVE  \E r : DiscardsAll(r, n, x, as)
<1> DEFINE Op(y, i) == Discard(y, as[i])
           After(g, s) == IF s = {} THEN x ELSE Op(g[s \ {Max(s)}], Max(s))
           Is(k, g) == g = [s \in SUBSET (1 .. k) |-> After(g, s)]
           fold == CHOOSE g : Is(n, g)
           T == {k \in 0 .. n : \E g : Is(k, g)}
<1>1. FoldLeft(Discard, x, as) = fold[1 .. n]
    BY DEF FoldLeft, MapThenFoldSet
<1> HIDE DEF Op
<1>2. Is(0, [s \in SUBSET (1 .. 0) |-> x])
    OBVIOUS
<1>3. ASSUME NEW k \in 0 .. n - 1, NEW g, Is(k, g) PROVE \E h : Is(k + 1, h)
  <2> DEFINE h == [s \in SUBSET (1 .. k + 1) |->
                     IF k + 1 \in s THEN Op(g[s \ {k + 1}], k + 1) ELSE g[s]]
  <2>0. \A s \in SUBSET (1 .. k) : g[s] = After(g, s)
      BY <1>3
  <2>1. /\ \A s \in SUBSET (1 .. k) : h[s] = g[s]
        /\ \A s \in SUBSET (1 .. k + 1) : k + 1 \in s => h[s] = Op(g[s \ {k + 1}], k + 1)
        /\ h = [s \in SUBSET (1 .. k + 1) |-> h[s]]
      OBVIOUS
  <2> HIDE DEF h
  <2>2. \A s \in SUBSET (1 .. k + 1) : h[s] = After(h, s)
      BY k \in Nat, <2>0, <2>1, PlacesUpTo
  <2> QED
      BY <2>1, <2>2
<1>4. Is(n, fold)
  <2> HIDE DEF Is
  <2>1. 0 \in T /\ \A k \in 0 .. n - 1 : k \in T => k + 1 \in T
      BY <1>2, <1>3
  <2> HIDE DEF T
  <2>2. 0 .. n \subseteq T
      BY <2>1, UpFromZero
  <2> QED
      BY <2>2 DEF T
<1> HIDE DEF fold
<1> DEFINE r == [i \in 0 .. n |-> fold[1 .. i]]
<1>5. r[0] = x /\ r[n] = fold[1 .. n]
  <2>1. 1 .. 0 = {} /\ r[0] = fold[1 .. 0] /\ r[n] = fold[1 .. n]
      OBVIOUS
  <2>2. fold[{}] = x
      BY <1>4
  <2> QED
      BY <2>1, <2>2
<1>6. ASSUME NEW i \in 1 .. n PROVE r[i] = Op(r[i - 1], i)
  <2>1. r[i] = fold[1 .. i] /\ r[i - 1] = fold[1 .. i - 1]
      OBVIOUS
  <2>2. fold[1 .. i] = Op(fold[(1 .. i) \ {Max(1 .. i)}], Max(1 .. i))
      BY <1>4, PlacesBefore
  <2> HIDE DEF r
  <2> QED
      BY <2>1, <2>2, PlacesBefore
<1> HIDE DEF r
<1>7. DiscardsAll(r, n, x, as)
    BY <1>1, <1>5, <1>6 DEF Op, DiscardsAll
<1> QED
    BY <1>7

\* mdns_service_remove_all: all say goodbye, and none is referred to any more.
LEMMA ServiceRemoveAllIs ==
    ASSUME NEW x, NEW w, NEW bad, Sound(x, w, bad)
    PROVE  Sound(ServiceRemoveAll(x), w, bad)
<1> DEFINE l == x.srvs
           n == Len(l)
           L == Range(l)
           a == SendByeService(x, l, FALSE)
           c == [a EXCEPT !.srvs = <<>>]
           y == FoldLeft(Discard, c, l)
           Left(i) == {s \in L : \A j \in 1 .. i : l[j] # s}
<1>1. ServiceRemoveAll(x) = IF l = <<>> THEN x ELSE y
    BY DEF ServiceRemoveAll
<1>2. Fit(a, L, w, bad)
    BY SendByeServiceIs DEF Sound
<1> HIDE DEF a
<1>3. Fit(c, L, w, bad) /\ c.srvs = <<>>
  <2>1. IsServer(a) /\ DOMAIN a = ServerFields
      BY <1>2 DEF Fit, IsServer
  <2>2. /\ DOMAIN c = ServerFields /\ c.srvs = <<>> /\ c.hosts = a.hosts /\ c.twin = a.twin /\ c.up = a.up
        /\ c.tx = a.tx /\ c.pcb = a.pcb /\ c.ready = a.ready /\ c.host = a.host /\ c.svc = a.svc
      BY <2>1 DEF ServerFields
  <2> HIDE DEF c
  <2>3. IsServer(c)
      BY <2>1, <2>2 DEF IsServer, IsList
  <2>4. Refs(c, L)
      BY <1>2, <2>2 DEF Fit, Refs
  <2>5. \A b \in Pcbs : Covered(c, b)
      BY <1>2, <2>2 DEF Fit, Covered, CoveredBy
  <2> QED
      BY <1>2, <2>2, <2>3, <2>4, <2>5 DEF Fit
<1> HIDE DEF c
<1>4. n \in Nat /\ DOMAIN l = 1 .. n
    BY SoundIs, ListIs
<1>5. PICK r : DiscardsAll(r, n, c, l)
    BY <1>4, DiscardsFold
<1>6. Left(0) = L /\ Left(n) = {}
  <2>1. 1 .. 0 = {}
      OBVIOUS
  <2>2. Left(0) = L
      BY <2>1
  <2>3. \A s \in L : s \notin Left(n)
      BY <1>4 DEF Range
  <2> QED
      BY <2>2, <2>3
<1>7. ASSUME NEW i \in 1 .. n PROVE Left(i) = Left(i - 1) \ {l[i]}
  <2>1. 1 .. i = (1 .. i - 1) \cup {i}
      BY <1>4
  <2> HIDE DEF L, l
  <2> QED
      BY <2>1
<1> HIDE DEF Left
<1> DEFINE Has(i) == Fit(r[i], Left(i), w, bad) /\ r[i].srvs = <<>>
<1>8. Has(0)
    BY <1>3, <1>5, <1>6 DEF DiscardsAll
<1>9. ASSUME NEW i \in 1 .. n, Has(i - 1) PROVE Has(i)
  <2> DEFINE z == r[i - 1]
             M == Left(i - 1)
             s == l[i]
  <2>1. r[i] = Discard(z, s)
      BY <1>5 DEF DiscardsAll
  <2>2. Fit(z, M, w, bad) /\ z.srvs = <<>>
      BY <1>9
  <2>3. Left(i) = M \ {s}
      BY <1>7
  <2>5. s \in Svcs
      BY <1>4, SoundIs DEF Range
  <2> HIDE DEF z, M, s
  <2>4. Fit(r[i], M \ {s}, w, bad)
      BY <2>1, <2>2, <2>5, DiscardIs
  <2>6. r[i].srvs = z.srvs
      BY <2>1, <2>2, <2>5, DiscardIs
  <2> QED
      BY <2>2, <2>3, <2>4, <2>6
<1> HIDE DEF Has, n
<1>10. Has(n)
  <2> DEFINE T == {i \in 0 .. n : Has(i)}
  <2>1. 0 \in T
      BY <1>4, <1>8
  <2>2. \A i \in 1 .. n : i - 1 \in T => i \in T
    <3>1. \A i \in 1 .. n : i \in 0 .. n
        OBVIOUS
    <3> QED
        BY <1>9, <3>1
  <2> HIDE DEF T
  <2>3. n \in T
      BY <1>4, <2>1, <2>2, UpTo
  <2> QED
      BY <2>3 DEF T
<1>11. Fit(y, {}, w, bad) /\ y.srvs = <<>>
    BY <1>5, <1>6, <1>10 DEF Has, DiscardsAll
<1> HIDE DEF y
<1>12. Range(<<>>) = {}
    BY DEF Range
<1>13. Sound(y, w, bad)
    BY <1>11, <1>12 DEF Sound
<1> QED
    BY <1>1, <1>13

-----------------------------------------------------------------------------
(* A packet of questions is answered.                                        *)

\* Questions that have strings of their own.
OwnStrings(qs) == \A i \in DOMAIN qs : qs[i].of = None

\* A packet that is being filled: it fits, and is still the one that was allocated.
Filling(p, b, id, L) ==
    PacketFits(p, L) /\ p.pcb = b /\ p.id = id /\ ~IsQueued(p) /\ OwnStrings(p.qs)

\* One more question with strings of its own, or several in front.
LEMMA AppendOwn ==
    ASSUME NEW qs, IsList(qs), OwnStrings(qs), NEW q, q.of = None
    PROVE  OwnStrings(Append(qs, q))
<1> DEFINE new == Append(qs, q)
<1>1. IsList(new) /\ Range(new) = Range(qs) \cup {q}
    BY AppendIs
<1> HIDE DEF new
<1>2. \A e \in Range(qs) : e.of = None
    BY DEF OwnStrings, Range
<1>3. \A i \in DOMAIN new : new[i] \in Range(new)
    BY DEF Range
<1>4. OwnStrings(new)
    BY <1>1, <1>2, <1>3 DEF OwnStrings
<1> QED
    BY <1>4 DEF new

LEMMA ConcatOwn ==
    ASSUME NEW qs, IsList(qs), OwnStrings(qs), NEW more, IsList(more), OwnStrings(more)
    PROVE  OwnStrings(more \o qs)
<1> DEFINE new == more \o qs
<1>1. IsList(new) /\ Range(new) = Range(more) \cup Range(qs)
    BY ConcatIs
<1> HIDE DEF new
<1>2. (\A e \in Range(qs) : e.of = None) /\ (\A e \in Range(more) : e.of = None)
    BY DEF OwnStrings, Range
<1>3. \A i \in DOMAIN new : new[i] \in Range(new)
    BY DEF Range
<1>4. OwnStrings(new)
    BY <1>1, <1>2, <1>3 DEF OwnStrings
<1> QED
    BY <1>4 DEF new

\* One answer about a service refers to it.
LEMMA RefersOne ==
    ASSUME NEW L, NEW s, s \in L, NEW type, NEW host, NEW flush, NEW bye
    PROVE  Refers(<<Answer(type, s, host, flush, bye)>>, L)
<1> DEFINE a == Answer(type, s, host, flush, bye)
<1>1. a.svc = s
    BY DEF Answer
<1> HIDE DEF a
<1>2. IsList(<<a>>)
    BY OneIs
<1> QED
    BY <1>1, <1>2 DEF Refers, a

\* Two lists that refer to services do so together.
LEMMA RefersBoth ==
    ASSUME NEW L, NEW k, Refers(k, L), NEW l, Refers(l, L)
    PROVE  Refers(k \o l, L)
<1> DEFINE u == k \o l
<1>1. IsList(k) /\ IsList(l)
    BY DEF Refers
<1>2. IsList(u)
    BY <1>1, ConcatIs
<1>3. Range(u) = Range(k) \cup Range(l)
    BY <1>1, ConcatIs
<1> HIDE DEF u
<1>4. ASSUME NEW i \in DOMAIN u PROVE u[i].svc \in L \cup {None}
  <2>1. u[i] \in Range(k) \/ u[i] \in Range(l)
      BY <1>3 DEF Range
  <2>2. (\E j \in DOMAIN k : u[i] = k[j]) \/ (\E j \in DOMAIN l : u[i] = l[j])
      BY <2>1 DEF Range
  <2> QED
      BY <2>2 DEF Refers
<1> QED
    BY <1>2, <1>4 DEF Refers, u

\* Answers are created in a packet that is being filled.
LEMMA AddedIs ==
    ASSUME NEW L, NEW b, NEW id, NEW p, Filling(p, b, id, L), NEW k, Refers(k, L), NEW l, Refers(l, L)
    PROVE  LET q == [p EXCEPT !.answers = CreateAnswers(@, k), !.additional = CreateAnswers(@, l)]
           IN  Filling(q, b, id, L)
<1> DEFINE A == CreateAnswers(p.answers, k)
           D == CreateAnswers(p.additional, l)
           q1 == [p EXCEPT !.answers = A]
           q == [q1 EXCEPT !.additional = D]
<1>0. [p EXCEPT !.answers = CreateAnswers(@, k), !.additional = CreateAnswers(@, l)] = q
    OBVIOUS
<1>1. /\ Len(k) \in Nat /\ DOMAIN k = 1 .. Len(k) /\ \A i \in 1 .. Len(k) : k[i].svc \in L \cup {None}
      /\ Len(l) \in Nat /\ DOMAIN l = 1 .. Len(l) /\ \A i \in 1 .. Len(l) : l[i].svc \in L \cup {None}
    BY ListIs DEF Refers
<1>2. /\ Refers(p.answers, L) /\ Refers(p.additional, L) /\ Refers(p.servers, L)
      /\ IsPacket(p) /\ p.pcb = b /\ p.id = id /\ ~IsQueued(p) /\ OwnStrings(p.qs)
    BY DEF Filling, PacketFits
<1>3. Refers(A, L)
    BY <1>1, <1>2, CreateAnswersIs
<1>4. Refers(D, L)
    BY <1>1, <1>2, CreateAnswersIs
<1> HIDE DEF A, D
<1>5. /\ DOMAIN q1 = PacketFields /\ q1.id = p.id /\ q1.pcb = p.pcb /\ q1.at = p.at
      /\ q1.servers = p.servers /\ q1.queued = p.queued /\ q1.answers = A
      /\ q1.qs = p.qs
    BY <1>2 DEF IsPacket, PacketFields
<1> HIDE DEF q1
<1>6. /\ DOMAIN q = PacketFields /\ q.id = p.id /\ q.pcb = p.pcb /\ q.at = p.at
      /\ q.servers = p.servers /\ q.queued = p.queued /\ q.answers = A /\ q.additional = D
      /\ q.qs = q1.qs
    BY <1>5 DEF PacketFields
<1> HIDE DEF q
<1>7. IsPacket(q)
    BY <1>2, <1>5, <1>6 DEF IsPacket
<1>8. ~IsQueued(q)
    BY <1>2, <1>6 DEF IsQueued
<1>9. Filling(q, b, id, L)
    BY <1>2, <1>3, <1>4, <1>5, <1>6, <1>7, <1>8 DEF Filling, PacketFits
<1> QED
    BY <1>0, <1>9

\* The answers about a service refer to it.
LEMMA CreateAnswerFromServiceIs ==
    ASSUME NEW L, NEW b, NEW id, NEW p, Filling(p, b, id, L), NEW x, NEW s, s \in L,
           NEW q, NEW shared, NEW flush
    PROVE  Filling(CreateAnswerFromService(x, p, s, q, shared, flush), b, id, L)
<1> DEFINE a(type)   == <<Answer(type, s, None, flush, FALSE)>>
           ptr       == <<Answer("PTR", s, None, FALSE, FALSE)>>
           sdptr     == <<Answer("SDPTR", s, None, FALSE, FALSE)>>
           adr       == Addresses(x, s, flush)
           srv       == a("SRV")
           txt       == a("TXT")
           two       == srv \o txt
           three     == two \o adr
           near      == ptr \o adr
           add(k, l) == [p EXCEPT !.answers = CreateAnswers(@, k), !.additional = CreateAnswers(@, l)]
           y         == CreateAnswerFromService(x, p, s, q, shared, flush)
<1>1. \/ y = add(two, adr) \/ y = add(ptr, three) \/ y = add(near, two) \/ y = add(srv, adr)
      \/ y = add(txt, <<>>) \/ y = add(sdptr, <<>>) \/ y = p
  <2> HIDE DEF adr, srv, txt, ptr, sdptr, add
  <2>1. y = CASE q.type = "ANY" /\ q.host # None -> add(two, adr)
             [] q.type = "PTR" \/ (q.type = "ANY" /\ q.host = None) ->
                  IF shared \/ ~(GetHostItem(x, x.svc[s].host) = Self) THEN add(ptr, three) ELSE add(near, two)
             [] q.type = "SRV" -> add(srv, adr)
             [] q.type = "TXT" -> add(txt, <<>>)
             [] q.type = "SDPTR" -> add(sdptr, <<>>)
             [] OTHER -> p
      BY DEF CreateAnswerFromService, adr, srv, txt, ptr, sdptr, add
  <2> HIDE DEF y, two, three, near
  <2>2. CASE q.type = "ANY" /\ q.host # None
      BY <2>1, <2>2
  <2>3. CASE q.type = "PTR" \/ (q.type = "ANY" /\ q.host = None)
      BY <2>1, <2>3
  <2>4. CASE q.type = "SRV"
      BY <2>1, <2>4
  <2>5. CASE q.type = "TXT"
      BY <2>1, <2>5
  <2>6. CASE q.type = "SDPTR"
      BY <2>1, <2>6
  <2>7. CASE q.type \notin {"ANY", "PTR", "SRV", "TXT", "SDPTR"}
      BY <2>1, <2>7
  <2> QED
      BY <2>2, <2>3, <2>4, <2>5, <2>6, <2>7
<1>2. Refers(srv, L) /\ Refers(txt, L) /\ Refers(ptr, L) /\ Refers(sdptr, L) /\ Refers(adr, L)
    BY RefersOne DEF Addresses
<1> HIDE DEF srv, txt, ptr, sdptr, adr, y
<1>3. Refers(two, L) /\ Refers(near, L)
    BY <1>2, RefersBoth
<1> HIDE DEF two, near
<1>4. Refers(three, L)
    BY <1>2, <1>3, RefersBoth
<1> HIDE DEF three
<1>5. \A k, l : Refers(k, L) /\ Refers(l, L) => Filling(add(k, l), b, id, L)
    BY AddedIs
<1> HIDE DEF add
<1>6. Filling(y, b, id, L)
    BY <1>1, <1>2, <1>3, <1>4, <1>5, NothingRefers
<1> QED
    BY <1>6 DEF y

\* The services a question asks for are answered with one after the other.
ServicesAnswer(r, n, x, p, q, shared, flush, as) ==
    /\ r[0] = p /\ r[n] = FoldLeft(LAMBDA z, s : CreateAnswerFromService(x, z, s, q, shared, flush), p, as)
    /\ \A i \in 1 .. n : r[i] = CreateAnswerFromService(x, r[i - 1], as[i], q, shared, flush)

\* The fold takes these steps.
LEMMA ServicesAnswerFold ==
    ASSUME NEW x, NEW p, NEW q, NEW shared, NEW flush, NEW as,
           NEW n \in Nat, DOMAIN as = 1 .. n
    PROVE  \E r : ServicesAnswer(r, n, x, p, q, shared, flush, as)
<1> DEFINE Op(y, i) == CreateAnswerFromService(x, y, as[i], q, shared, flush)
           After(g, s) == IF s = {} THEN p ELSE Op(g[s \ {Max(s)}], Max(s))
           Is(k, g) == g = [s \in SUBSET (1 .. k) |-> After(g, s)]
           fold == CHOOSE g : Is(n, g)
           T == {k \in 0 .. n : \E g : Is(k, g)}
<1>1. FoldLeft(LAMBDA z, s : CreateAnswerFromService(x, z, s, q, shared, flush), p, as) = fold[1 .. n]
    BY DEF FoldLeft, MapThenFoldSet
<1> HIDE DEF Op
<1>2. Is(0, [s \in SUBSET (1 .. 0) |-> p])
    OBVIOUS
<1>3. ASSUME NEW k \in 0 .. n - 1, NEW g, Is(k, g) PROVE \E h : Is(k + 1, h)
  <2> DEFINE h == [s \in SUBSET (1 .. k + 1) |->
                     IF k + 1 \in s THEN Op(g[s \ {k + 1}], k + 1) ELSE g[s]]
  <2>0. \A s \in SUBSET (1 .. k) : g[s] = After(g, s)
      BY <1>3
  <2>1. /\ \A s \in SUBSET (1 .. k) : h[s] = g[s]
        /\ \A s \in SUBSET (1 .. k + 1) : k + 1 \in s => h[s] = Op(g[s \ {k + 1}], k + 1)
        /\ h = [s \in SUBSET (1 .. k + 1) |-> h[s]]
      OBVIOUS
  <2> HIDE DEF h
  <2>2. \A s \in SUBSET (1 .. k + 1) : h[s] = After(h, s)
      BY k \in Nat, <2>0, <2>1, PlacesUpTo
  <2> QED
      BY <2>1, <2>2
<1>4. Is(n, fold)
  <2> HIDE DEF Is
  <2>1. 0 \in T /\ \A k \in 0 .. n - 1 : k \in T => k + 1 \in T
      BY <1>2, <1>3
  <2> HIDE DEF T
  <2>2. 0 .. n \subseteq T
      BY <2>1, UpFromZero
  <2> QED
      BY <2>2 DEF T
<1> HIDE DEF fold
<1> DEFINE r == [i \in 0 .. n |-> fold[1 .. i]]
<1>5. r[0] = p /\ r[n] = fold[1 .. n]
  <2>1. 1 .. 0 = {} /\ r[0] = fold[1 .. 0] /\ r[n] = fold[1 .. n]
      OBVIOUS
  <2>2. fold[{}] = p
      BY <1>4
  <2> QED
      BY <2>1, <2>2
<1>6. ASSUME NEW i \in 1 .. n PROVE r[i] = Op(r[i - 1], i)
  <2>1. r[i] = fold[1 .. i] /\ r[i - 1] = fold[1 .. i - 1]
      OBVIOUS
  <2>2. fold[1 .. i] = Op(fold[(1 .. i) \ {Max(1 .. i)}], Max(1 .. i))
      BY <1>4, PlacesBefore
  <2> HIDE DEF r
  <2> QED
      BY <2>1, <2>2, PlacesBefore
<1> HIDE DEF r
<1>7. ServicesAnswer(r, n, x, p, q, shared, flush, as)
    BY <1>1, <1>5, <1>6 DEF Op, ServicesAnswer
<1> QED
    BY <1>7

\* The services a question is answered with are services.
LEMMA AskedIs ==
    ASSUME NEW x, IsList(x.srvs), NEW pk, NEW q
    PROVE  IsList(Asked(x, pk, q)) /\ Range(Asked(x, pk, q)) \subseteq Range(x.srvs)
<1> DEFINE s == GetServiceItemInstance(x, q.host, q.svc, None)
           gone == {e \in Svcs : ~MatchesPtrQuestion(x, e, q) \/ AnswerIsKnown(x, pk, e)}
           l == Without(x.srvs, gone)
           L == Range(x.srvs)
<1>1. Asked(x, pk, q) = IF q.type \in {"SRV", "TXT"} THEN IF s = None THEN <<>> ELSE <<s>> ELSE l
    BY DEF Asked
<1>2. s \in L \cup {None}
    BY GetServiceItemInstanceIs
<1> HIDE DEF s, gone
<1>3. IsList(l) /\ Range(l) = {e \in L : e \notin gone}
    BY WithoutIs
<1> HIDE DEF l, L
<1>4. s # None => IsList(<<s>>) /\ Range(<<s>>) \subseteq L
    BY <1>2, OneIs
<1>5. IsList(<<>>) /\ Range(<<>>) \subseteq L
    BY DEF IsList, Range
<1>6. IsList(Asked(x, pk, q)) /\ Range(Asked(x, pk, q)) \subseteq L
    BY <1>1, <1>3, <1>4, <1>5, Zenon
<1> QED
    BY <1>6 DEF L

\* Answers about services.
AnswerServices(x, p, q, shared, flush, as) ==
    FoldLeft(LAMBDA z, s : CreateAnswerFromService(x, z, s, q, shared, flush), p, as)

\* Answers about services that exist can be added to a packet that is being filled.
LEMMA ServicesAnswerIs ==
    ASSUME NEW L, NEW b, NEW id, NEW p, Filling(p, b, id, L), NEW x, NEW as, IsList(as),
           Range(as) \subseteq L, NEW q, NEW shared, NEW flush
    PROVE  Filling(AnswerServices(x, p, q, shared, flush, as), b, id, L)
<1> DEFINE n == Len(as)
<1>1. n \in Nat /\ DOMAIN as = 1 .. n /\ \A i \in 1 .. n : as[i] \in L
    BY ListIs
<1> HIDE DEF n
<1>2. PICK r : ServicesAnswer(r, n, x, p, q, shared, flush, as)
    BY <1>1, ServicesAnswerFold
<1> DEFINE Has(i) == Filling(r[i], b, id, L)
<1>3. Has(0)
    BY <1>2 DEF ServicesAnswer
<1>4. ASSUME NEW i \in 1 .. n, Has(i - 1) PROVE Has(i)
  <2>1. r[i] = CreateAnswerFromService(x, r[i - 1], as[i], q, shared, flush)
      BY <1>2 DEF ServicesAnswer
  <2>2. as[i] \in L
      BY <1>1
  <2> QED
      BY <1>4, <2>1, <2>2, CreateAnswerFromServiceIs
<1> HIDE DEF Has
<1>5. Has(n)
  <2> DEFINE T == {i \in 0 .. n : Has(i)}
  <2>1. 0 \in T
      BY <1>1, <1>3
  <2>2. \A i \in 1 .. n : i - 1 \in T => i \in T
    <3>1. \A i \in 1 .. n : i \in 0 .. n
        OBVIOUS
    <3> QED
        BY <1>4, <3>1
  <2> HIDE DEF T
  <2>3. n \in T
      BY <1>1, <2>1, <2>2, UpTo
  <2> QED
      BY <2>3 DEF T
<1> QED
    BY <1>2, <1>5 DEF Has, ServicesAnswer, AnswerServices

\* The answers of a packet that is being filled, or its questions, are set.
LEMMA FilledIs ==
    ASSUME NEW L, NEW b, NEW id, NEW p, Filling(p, b, id, L)
    PROVE  /\ \A as : Refers(as, L) => Filling([p EXCEPT !.answers = as], b, id, L)
           /\ \A qs : IsList(qs) /\ OwnStrings(qs) => Filling([p EXCEPT !.qs = qs], b, id, L)
           /\ \A dst : Filling([p EXCEPT !.dst = dst], b, id, L)
<1>1. /\ Refers(p.answers, L) /\ Refers(p.additional, L) /\ Refers(p.servers, L)
      /\ IsPacket(p) /\ p.pcb = b /\ p.id = id /\ ~IsQueued(p) /\ DOMAIN p = PacketFields
      /\ OwnStrings(p.qs)
    BY DEF Filling, PacketFits, IsPacket
<1>2. ASSUME NEW as, Refers(as, L) PROVE Filling([p EXCEPT !.answers = as], b, id, L)
  <2> DEFINE q == [p EXCEPT !.answers = as]
  <2>1. /\ DOMAIN q = PacketFields /\ q.id = p.id /\ q.pcb = p.pcb /\ q.at = p.at /\ q.servers = p.servers
        /\ q.queued = p.queued /\ q.answers = as /\ q.additional = p.additional
        /\ q.qs = p.qs
      BY <1>1 DEF PacketFields
  <2> HIDE DEF q
  <2>2. IsPacket(q) /\ (IsQueued(q) <=> IsQueued(p))
      BY <1>1, <2>1 DEF IsPacket, IsQueued
  <2>3. Filling(q, b, id, L)
      BY <1>1, <1>2, <2>1, <2>2 DEF Filling, PacketFits
  <2> QED
      BY <2>3 DEF q
<1>3. ASSUME NEW qs, IsList(qs), OwnStrings(qs) PROVE Filling([p EXCEPT !.qs = qs], b, id, L)
  <2> DEFINE q == [p EXCEPT !.qs = qs]
  <2>1. /\ DOMAIN q = PacketFields /\ q.id = p.id /\ q.pcb = p.pcb /\ q.at = p.at /\ q.servers = p.servers
        /\ q.queued = p.queued /\ q.answers = p.answers /\ q.additional = p.additional
        /\ q.qs = qs
      BY <1>1 DEF PacketFields
  <2> HIDE DEF q
  <2>2. IsPacket(q) /\ (IsQueued(q) <=> IsQueued(p))
      BY <1>1, <1>3, <2>1 DEF IsPacket, IsQueued
  <2>3. Filling(q, b, id, L)
      BY <1>1, <1>3, <2>1, <2>2 DEF Filling, PacketFits
  <2> QED
      BY <2>3 DEF q
<1>4. ASSUME NEW dst PROVE Filling([p EXCEPT !.dst = dst], b, id, L)
  <2> DEFINE q == [p EXCEPT !.dst = dst]
  <2>1. /\ DOMAIN q = PacketFields /\ q.id = p.id /\ q.pcb = p.pcb /\ q.at = p.at /\ q.servers = p.servers
        /\ q.queued = p.queued /\ q.answers = p.answers /\ q.additional = p.additional
        /\ q.qs = p.qs
      BY <1>1 DEF PacketFields
  <2> HIDE DEF q
  <2>2. IsPacket(q) /\ (IsQueued(q) <=> IsQueued(p))
      BY <1>1, <2>1 DEF IsPacket, IsQueued
  <2>3. Filling(q, b, id, L)
      BY <1>1, <2>1, <2>2 DEF Filling, PacketFits
  <2> QED
      BY <2>3 DEF q
<1> QED
    BY <1>2, <1>3, <1>4

\* A question is answered, by services or by the addresses of hosts.
LEMMA AnswerQuestionIs ==
    ASSUME NEW x, IsServer(x), NEW L, Range(x.srvs) \subseteq L, NEW pk, NEW b, NEW id,
           NEW r, Filling(r.p, b, id, L), NEW q, q.of = None
    PROVE  Filling(AnswerQuestion(x, pk, r, q).p, b, id, L)
<1> DEFINE flush == pk.port = "mdns"
           as == Asked(x, pk, q)
           one == AnswerServices(x, r.p, q, Shared(pk, q), flush, as)
           a == Answer("A", None, GetHostItem(x, q.host), flush, FALSE)
           A == CreateAnswer(r.p.answers, a)
           H == AppendHostList(x, r.p.answers, flush)
           two == [r.p EXCEPT !.answers = A]
           three == [r.p EXCEPT !.answers = H]
           p == CASE q.svc # None -> one
                  [] q.svc = None /\ q.type = "A" -> two
                  [] q.svc = None /\ q.type = "ANY" -> three
                  [] OTHER -> r.p
           p1 == IF ~flush /\ q.type \in {"ANY", "A"} THEN [p EXCEPT !.qs = Append(@, q)] ELSE p
           y == AnswerQuestion(x, pk, r, q)
<1>1. y = r \/ y.p = p1
    BY DEF AnswerQuestion, AnswerServices
<1>2. IsList(x.srvs) /\ IsList(x.hosts)
    BY DEF IsServer
<1>3. IsList(as) /\ Range(as) \subseteq L
    BY <1>2, AskedIs
<1> HIDE DEF as, flush, y
<1>4. Filling(one, b, id, L)
    BY <1>3, ServicesAnswerIs
<1>5. Refers(r.p.answers, L)
    BY DEF Filling, PacketFits
<1>6. Refers(A, L)
  <2>1. a.svc = None
      BY DEF Answer
  <2> HIDE DEF a
  <2>2. a.svc \in L \cup {None}
      BY <2>1
  <2> QED
      BY <1>5, <2>2, CreateAnswerIs
<1>7. Refers(H, L)
    BY <1>2, <1>5, AppendHostListIs
<1> HIDE DEF A, H, one
<1>8. Filling(two, b, id, L) /\ Filling(three, b, id, L)
    BY <1>6, <1>7, FilledIs
<1> HIDE DEF two, three
<1>9. p = one \/ p = two \/ p = three \/ p = r.p
  <2>1. CASE q.svc # None
      BY <2>1
  <2>2. CASE q.svc = None /\ q.type = "A"
      BY <2>2
  <2>3. CASE q.svc = None /\ q.type = "ANY"
      BY <2>3
  <2>4. CASE q.svc = None /\ q.type \notin {"A", "ANY"}
      BY <2>4
  <2> QED
      BY <2>1, <2>2, <2>3, <2>4
<1>10. Filling(p, b, id, L)
    BY <1>4, <1>8, <1>9
<1> HIDE DEF p
<1>11. Filling(p1, b, id, L)
  <2> DEFINE asked == Append(p.qs, q)
  <2>1. IsList(p.qs)
      BY <1>10 DEF Filling, PacketFits, IsPacket
  <2>2. IsList(asked)
      BY <2>1, AppendIs
  <2>5. OwnStrings(asked)
    <3>1. OwnStrings(p.qs)
        BY <1>10 DEF Filling
    <3> QED
        BY <2>1, <3>1, AppendOwn
  <2>3. p1 = p \/ p1 = [p EXCEPT !.qs = asked]
      OBVIOUS
  <2> HIDE DEF asked, p1
  <2>4. Filling([p EXCEPT !.qs = asked], b, id, L)
      BY <1>10, <2>2, <2>5, FilledIs
  <2> QED
      BY <1>10, <2>3, <2>4
<1> HIDE DEF p1
<1>12. Filling(y.p, b, id, L)
    BY <1>1, <1>11
<1> QED
    BY <1>12 DEF y

\* The questions are answered one after the other.
QuestionsAnswer(r, n, x, pk, p0, as) ==
    /\ r[0] = p0 /\ r[n] = FoldLeft(LAMBDA z, q : AnswerQuestion(x, pk, z, q), p0, as)
    /\ \A i \in 1 .. n : r[i] = AnswerQuestion(x, pk, r[i - 1], as[i])

\* The fold takes these steps.
LEMMA QuestionsAnswerFold ==
    ASSUME NEW x, NEW pk, NEW p0, NEW as,
           NEW n \in Nat, DOMAIN as = 1 .. n
    PROVE  \E r : QuestionsAnswer(r, n, x, pk, p0, as)
<1> DEFINE Op(y, i) == AnswerQuestion(x, pk, y, as[i])
           After(g, s) == IF s = {} THEN p0 ELSE Op(g[s \ {Max(s)}], Max(s))
           Is(k, g) == g = [s \in SUBSET (1 .. k) |-> After(g, s)]
           fold == CHOOSE g : Is(n, g)
           T == {k \in 0 .. n : \E g : Is(k, g)}
<1>1. FoldLeft(LAMBDA z, q : AnswerQuestion(x, pk, z, q), p0, as) = fold[1 .. n]
    BY DEF FoldLeft, MapThenFoldSet
<1> HIDE DEF Op
<1>2. Is(0, [s \in SUBSET (1 .. 0) |-> p0])
    OBVIOUS
<1>3. ASSUME NEW k \in 0 .. n - 1, NEW g, Is(k, g) PROVE \E h : Is(k + 1, h)
  <2> DEFINE h == [s \in SUBSET (1 .. k + 1) |->
                     IF k + 1 \in s THEN Op(g[s \ {k + 1}], k + 1) ELSE g[s]]
  <2>0. \A s \in SUBSET (1 .. k) : g[s] = After(g, s)
      BY <1>3
  <2>1. /\ \A s \in SUBSET (1 .. k) : h[s] = g[s]
        /\ \A s \in SUBSET (1 .. k + 1) : k + 1 \in s => h[s] = Op(g[s \ {k + 1}], k + 1)
        /\ h = [s \in SUBSET (1 .. k + 1) |-> h[s]]
      OBVIOUS
  <2> HIDE DEF h
  <2>2. \A s \in SUBSET (1 .. k + 1) : h[s] = After(h, s)
      BY k \in Nat, <2>0, <2>1, PlacesUpTo
  <2> QED
      BY <2>1, <2>2
<1>4. Is(n, fold)
  <2> HIDE DEF Is
  <2>1. 0 \in T /\ \A k \in 0 .. n - 1 : k \in T => k + 1 \in T
      BY <1>2, <1>3
  <2> HIDE DEF T
  <2>2. 0 .. n \subseteq T
      BY <2>1, UpFromZero
  <2> QED
      BY <2>2 DEF T
<1> HIDE DEF fold
<1> DEFINE r == [i \in 0 .. n |-> fold[1 .. i]]
<1>5. r[0] = p0 /\ r[n] = fold[1 .. n]
  <2>1. 1 .. 0 = {} /\ r[0] = fold[1 .. 0] /\ r[n] = fold[1 .. n]
      OBVIOUS
  <2>2. fold[{}] = p0
      BY <1>4
  <2> QED
      BY <2>1, <2>2
<1>6. ASSUME NEW i \in 1 .. n PROVE r[i] = Op(r[i - 1], i)
  <2>1. r[i] = fold[1 .. i] /\ r[i - 1] = fold[1 .. i - 1]
      OBVIOUS
  <2>2. fold[1 .. i] = Op(fold[(1 .. i) \ {Max(1 .. i)}], Max(1 .. i))
      BY <1>4, PlacesBefore
  <2> HIDE DEF r
  <2> QED
      BY <2>1, <2>2, PlacesBefore
<1> HIDE DEF r
<1>7. QuestionsAnswer(r, n, x, pk, p0, as)
    BY <1>1, <1>5, <1>6 DEF Op, QuestionsAnswer
<1> QED
    BY <1>7

\* The answer to a packet waits its turn or goes at once; it refers to services only.
LEMMA CreateAnswerFromParsedPacketIs ==
    ASSUME NEW x, NEW w, NEW bad, Sound(x, w, bad), NEW pk, pk.pcb \in Pcbs, IsList(pk.qs), OwnStrings(pk.qs),
           ~Probing(x.pcb[pk.pcb])
    PROVE  Sound(CreateAnswerFromParsedPacket(x, pk), w, bad)
<1> DEFINE L == Range(x.srvs)
           b == pk.pcb
           p00 == AllocPacket(x, b, TRUE, {})
           new == [p00 EXCEPT !.dist = pk.dist]
           id == p00.id
           p0 == [p |-> new, records |-> FALSE, unicast |-> FALSE]
           qs == pk.qs
           n == Len(qs)
           f == FoldLeft(LAMBDA z, q : AnswerQuestion(x, pk, z, q), p0, qs)
           q1 == [f.p EXCEPT !.dst = pk.src]
           p == IF f.unicast \/ pk.port # "mdns" THEN q1 ELSE f.p
           y == SendAfter(x, p, Now)
           z1 == Dispatch(x, p)
           out == CreateAnswerFromParsedPacket(x, pk)
<1>1. out = IF pk.qs = <<>> \/ ~f.records THEN x ELSE IF Shared(pk, Last(pk.qs)) THEN y ELSE z1
    BY DEF CreateAnswerFromParsedPacket
<1>2. IsServer(x) /\ L \subseteq L /\ IsList(x.tx) /\ b \in Pcbs /\ IsFiniteSet({}) /\ Fit(x, L, w, bad)
    BY FS_EmptySet, SoundIs DEF IsServer, Sound
<1>3. PacketFits(p00, L) /\ IsNew(p00, x, b)
    BY <1>2, AllocPacketIs
<1>23. OwnStrings(p00.qs)
    BY DEF AllocPacket, OwnStrings
<1> HIDE DEF p00
<1>4. Filling(new, b, id, L)
  <2>1. /\ Refers(p00.answers, L) /\ Refers(p00.additional, L) /\ Refers(p00.servers, L)
        /\ IsPacket(p00) /\ p00.pcb = b /\ ~IsQueued(p00) /\ DOMAIN p00 = PacketFields
      BY <1>3 DEF IsNew, IsQueued, PacketFits, IsPacket
  <2>2. /\ DOMAIN new = PacketFields /\ new.id = p00.id /\ new.pcb = p00.pcb /\ new.at = p00.at
        /\ new.servers = p00.servers /\ new.queued = p00.queued /\ new.answers = p00.answers
        /\ new.additional = p00.additional /\ new.qs = p00.qs
      BY <2>1 DEF PacketFields
  <2> HIDE DEF new
  <2>3. IsPacket(new) /\ (IsQueued(new) <=> IsQueued(p00))
      BY <2>1, <2>2 DEF IsPacket, IsQueued
  <2> QED
      BY <1>23, <2>1, <2>2, <2>3 DEF Filling, PacketFits
<1>5. id \notin LiveIds(x)
    BY <1>3 DEF IsNew
<1> HIDE DEF new, id
<1>6. n \in Nat /\ DOMAIN qs = 1 .. n
    BY ListIs
<1> HIDE DEF n
<1>7. PICK r : QuestionsAnswer(r, n, x, pk, p0, qs)
    BY <1>6, QuestionsAnswerFold
<1>8. r[0] = p0 /\ r[n] = f /\ p0.p = new
    BY <1>7 DEF QuestionsAnswer
<1> HIDE DEF f, p0
<1> DEFINE Has(i) == Filling(r[i].p, b, id, L)
<1>9. Has(0)
    BY <1>4, <1>8
<1>10. ASSUME NEW i \in 1 .. n, Has(i - 1) PROVE Has(i)
  <2>1. r[i] = AnswerQuestion(x, pk, r[i - 1], qs[i])
      BY <1>7 DEF QuestionsAnswer
  <2>2. qs[i].of = None
      BY <1>6 DEF OwnStrings
  <2> QED
      BY <1>2, <1>10, <2>1, <2>2, AnswerQuestionIs
<1> HIDE DEF Has
<1>11. Has(n)
  <2> DEFINE T == {i \in 0 .. n : Has(i)}
  <2>1. 0 \in T
      BY <1>6, <1>9
  <2>2. \A i \in 1 .. n : i - 1 \in T => i \in T
    <3>1. \A i \in 1 .. n : i \in 0 .. n
        OBVIOUS
    <3> QED
        BY <1>10, <3>1
  <2> HIDE DEF T
  <2>3. n \in T
      BY <1>6, <2>1, <2>2, UpTo
  <2> QED
      BY <2>3 DEF T
<1>12. Filling(f.p, b, id, L)
    BY <1>8, <1>11 DEF Has
<1>13. Filling(q1, b, id, L)
    BY <1>12, FilledIs
<1> HIDE DEF q1
<1>14. Filling(p, b, id, L)
    BY <1>12, <1>13
<1> HIDE DEF p
<1>15. PacketFits(p, L) /\ p.pcb \in {b} /\ ~IsQueued(p) /\ p.id \notin LiveIds(x) /\ Now \in Nat
    BY <1>5, <1>14 DEF Filling, Now
<1>24. Plain(p)
    BY <1>14 DEF Filling, OwnStrings, Plain
<1>16. FitBut(x, L, w, bad, {b})
    BY <1>2 DEF Fit, FitBut
<1>17. x.pcb[b].services = <<>> /\ ~Probing(x.pcb[b]) /\ AllPlain(x.tx, b)
    BY <1>2 DEF Fit, Covered, CoveredBy
<1> HIDE DEF L
<1>18. /\ FitBut(y, L, w, bad, {b}) /\ Keeps(x, y) /\ y.pcb = x.pcb
       /\ Plain(p) /\ AllPlain(x.tx, p.pcb) => AllPlain(y.tx, p.pcb)
    BY <1>15, <1>16, SendAfterIs
<1>25. AllPlain(y.tx, b)
    BY <1>14, <1>17, <1>18, <1>24 DEF Filling
<1>19. Alike(x, z1)
    BY <1>2, DispatchIs
<1> HIDE DEF y, z1, out
<1>20. Sound(y, w, bad)
  <2>1. Fit(y, L, w, bad)
      BY <1>2, <1>18, <1>17, <1>25, NothingCovers, FitBy
  <2> QED
      BY <1>18, <2>1, SoundBy DEF L
<1>21. Sound(z1, w, bad)
    BY <1>19, SoundAlike
<1>22. Sound(out, w, bad)
    BY <1>1, <1>20, <1>21
<1> QED
    BY <1>22 DEF out

\* The questions are read one after the other.
QuestionsParse(r, n, x, pk, as) ==
    /\ r[0] = pk /\ r[n] = FoldLeft(LAMBDA z, q : ParseQuestion(x, z, q), pk, as)
    /\ \A i \in 1 .. n : r[i] = ParseQuestion(x, r[i - 1], as[i])

\* The fold takes these steps.
LEMMA QuestionsParseFold ==
    ASSUME NEW x, NEW pk, NEW as,
           NEW n \in Nat, DOMAIN as = 1 .. n
    PROVE  \E r : QuestionsParse(r, n, x, pk, as)
<1> DEFINE Op(y, i) == ParseQuestion(x, y, as[i])
           After(g, s) == IF s = {} THEN pk ELSE Op(g[s \ {Max(s)}], Max(s))
           Is(k, g) == g = [s \in SUBSET (1 .. k) |-> After(g, s)]
           fold == CHOOSE g : Is(n, g)
           T == {k \in 0 .. n : \E g : Is(k, g)}
<1>1. FoldLeft(LAMBDA z, q : ParseQuestion(x, z, q), pk, as) = fold[1 .. n]
    BY DEF FoldLeft, MapThenFoldSet
<1> HIDE DEF Op
<1>2. Is(0, [s \in SUBSET (1 .. 0) |-> pk])
    OBVIOUS
<1>3. ASSUME NEW k \in 0 .. n - 1, NEW g, Is(k, g) PROVE \E h : Is(k + 1, h)
  <2> DEFINE h == [s \in SUBSET (1 .. k + 1) |->
                     IF k + 1 \in s THEN Op(g[s \ {k + 1}], k + 1) ELSE g[s]]
  <2>0. \A s \in SUBSET (1 .. k) : g[s] = After(g, s)
      BY <1>3
  <2>1. /\ \A s \in SUBSET (1 .. k) : h[s] = g[s]
        /\ \A s \in SUBSET (1 .. k + 1) : k + 1 \in s => h[s] = Op(g[s \ {k + 1}], k + 1)
        /\ h = [s \in SUBSET (1 .. k + 1) |-> h[s]]
      OBVIOUS
  <2> HIDE DEF h
  <2>2. \A s \in SUBSET (1 .. k + 1) : h[s] = After(h, s)
      BY k \in Nat, <2>0, <2>1, PlacesUpTo
  <2> QED
      BY <2>1, <2>2
<1>4. Is(n, fold)
  <2> HIDE DEF Is
  <2>1. 0 \in T /\ \A k \in 0 .. n - 1 : k \in T => k + 1 \in T
      BY <1>2, <1>3
  <2> HIDE DEF T
  <2>2. 0 .. n \subseteq T
      BY <2>1, UpFromZero
  <2> QED
      BY <2>2 DEF T
<1> HIDE DEF fold
<1> DEFINE r == [i \in 0 .. n |-> fold[1 .. i]]
<1>5. r[0] = pk /\ r[n] = fold[1 .. n]
  <2>1. 1 .. 0 = {} /\ r[0] = fold[1 .. 0] /\ r[n] = fold[1 .. n]
      OBVIOUS
  <2>2. fold[{}] = pk
      BY <1>4
  <2> QED
      BY <2>1, <2>2
<1>6. ASSUME NEW i \in 1 .. n PROVE r[i] = Op(r[i - 1], i)
  <2>1. r[i] = fold[1 .. i] /\ r[i - 1] = fold[1 .. i - 1]
      OBVIOUS
  <2>2. fold[1 .. i] = Op(fold[(1 .. i) \ {Max(1 .. i)}], Max(1 .. i))
      BY <1>4, PlacesBefore
  <2> HIDE DEF r
  <2> QED
      BY <2>1, <2>2, PlacesBefore
<1> HIDE DEF r
<1>7. QuestionsParse(r, n, x, pk, as)
    BY <1>1, <1>5, <1>6 DEF Op, QuestionsParse
<1> QED
    BY <1>7

\* The records are read one after the other.
RecordsParse(r, n, x, as) ==
    /\ r[0] = x /\ r[n] = FoldLeft(ParseRecord, x, as)
    /\ \A i \in 1 .. n : r[i] = ParseRecord(r[i - 1], as[i])

\* The fold takes these steps.
LEMMA RecordsParseFold ==
    ASSUME NEW x, NEW as,
           NEW n \in Nat, DOMAIN as = 1 .. n
    PROVE  \E r : RecordsParse(r, n, x, as)
<1> DEFINE Op(y, i) == ParseRecord(y, as[i])
           After(g, s) == IF s = {} THEN x ELSE Op(g[s \ {Max(s)}], Max(s))
           Is(k, g) == g = [s \in SUBSET (1 .. k) |-> After(g, s)]
           fold == CHOOSE g : Is(n, g)
           T == {k \in 0 .. n : \E g : Is(k, g)}
<1>1. FoldLeft(ParseRecord, x, as) = fold[1 .. n]
    BY DEF FoldLeft, MapThenFoldSet
<1> HIDE DEF Op
<1>2. Is(0, [s \in SUBSET (1 .. 0) |-> x])
    OBVIOUS
<1>3. ASSUME NEW k \in 0 .. n - 1, NEW g, Is(k, g) PROVE \E h : Is(k + 1, h)
  <2> DEFINE h == [s \in SUBSET (1 .. k + 1) |->
                     IF k + 1 \in s THEN Op(g[s \ {k + 1}], k + 1) ELSE g[s]]
  <2>0. \A s \in SUBSET (1 .. k) : g[s] = After(g, s)
      BY <1>3
  <2>1. /\ \A s \in SUBSET (1 .. k) : h[s] = g[s]
        /\ \A s \in SUBSET (1 .. k + 1) : k + 1 \in s => h[s] = Op(g[s \ {k + 1}], k + 1)
        /\ h = [s \in SUBSET (1 .. k + 1) |-> h[s]]
      OBVIOUS
  <2> HIDE DEF h
  <2>2. \A s \in SUBSET (1 .. k + 1) : h[s] = After(h, s)
      BY k \in Nat, <2>0, <2>1, PlacesUpTo
  <2> QED
      BY <2>1, <2>2
<1>4. Is(n, fold)
  <2> HIDE DEF Is
  <2>1. 0 \in T /\ \A k \in 0 .. n - 1 : k \in T => k + 1 \in T
      BY <1>2, <1>3
  <2> HIDE DEF T
  <2>2. 0 .. n \subseteq T
      BY <2>1, UpFromZero
  <2> QED
      BY <2>2 DEF T
<1> HIDE DEF fold
<1> DEFINE r == [i \in 0 .. n |-> fold[1 .. i]]
<1>5. r[0] = x /\ r[n] = fold[1 .. n]
  <2>1. 1 .. 0 = {} /\ r[0] = fold[1 .. 0] /\ r[n] = fold[1 .. n]
      OBVIOUS
  <2>2. fold[{}] = x
      BY <1>4
  <2> QED
      BY <2>1, <2>2
<1>6. ASSUME NEW i \in 1 .. n PROVE r[i] = Op(r[i - 1], i)
  <2>1. r[i] = fold[1 .. i] /\ r[i - 1] = fold[1 .. i - 1]
      OBVIOUS
  <2>2. fold[1 .. i] = Op(fold[(1 .. i) \ {Max(1 .. i)}], Max(1 .. i))
      BY <1>4, PlacesBefore
  <2> HIDE DEF r
  <2> QED
      BY <2>1, <2>2, PlacesBefore
<1> HIDE DEF r
<1>7. RecordsParse(r, n, x, as)
    BY <1>1, <1>5, <1>6 DEF Op, RecordsParse
<1> QED
    BY <1>7

\* What is known of a packet that is being parsed: where it came from, and its questions.
ParsedFields ==
    {"pcb", "src", "port", "auth", "dist", "probe", "discovery", "qs", "known", "noreply", "stop"}
Parsing(pk, b) == DOMAIN pk = ParsedFields /\ pk.pcb = b /\ IsList(pk.qs) /\ OwnStrings(pk.qs)

\* A question is read: those about names of our own are put in front.
LEMMA ParseQuestionIs ==
    ASSUME NEW x, IsList(x.srvs), NEW pk, NEW b, Parsing(pk, b), NEW q, q.of = None
    PROVE  Parsing(ParseQuestion(x, pk, q), b)
<1> DEFINE n == Len(x.srvs)
           l == [i \in DOMAIN x.srvs |-> Question("SDPTR", None, x.svc[x.srvs[i]].type, None, q.uni)]
           m == Reverse(l)
           k == m \o pk.qs
           one == <<q>>
           o == one \o pk.qs
           y1 == [pk EXCEPT !.discovery = TRUE]
           y == [y1 EXCEPT !.qs = k]
           z1 == [pk EXCEPT !.probe = @ \/ (q.type = "ANY" /\ q.host # None)]
           z == [z1 EXCEPT !.qs = o]
           out == ParseQuestion(x, pk, q)
<1>1. out = y \/ out = z \/ out = pk
  <2>1. out = CASE q.type = "SDPTR" -> y
              [] q.type # "SDPTR" /\ IsOurs(x, q.host, q.svc, q.sub) -> z
              [] OTHER -> pk
      BY DEF ParseQuestion
  <2> HIDE DEF y, z, out
  <2>2. CASE q.type = "SDPTR"
      BY <2>1, <2>2
  <2>3. CASE q.type # "SDPTR" /\ IsOurs(x, q.host, q.svc, q.sub)
      BY <2>1, <2>3
  <2>4. CASE q.type # "SDPTR" /\ ~IsOurs(x, q.host, q.svc, q.sub)
      BY <2>1, <2>4
  <2> QED
      BY <2>2, <2>3, <2>4
<1> HIDE DEF out
<1>2. n \in Nat /\ DOMAIN x.srvs = 1 .. n
    BY ListIs
<1>3. n \in Nat /\ DOMAIN l = 1 .. n /\ l = [i \in 1 .. n |-> l[i]]
    BY <1>2
<1>15. OwnStrings(l)
    BY DEF OwnStrings, Question
<1> HIDE DEF l, n
<1>4. IsList(l) /\ Len(l) = n
    BY <1>3, ListOf
<1>5. n \in Nat /\ DOMAIN m = 1 .. n /\ m = [i \in 1 .. n |-> m[i]]
    BY <1>3, <1>4 DEF Reverse
<1>16. OwnStrings(m)
  <2> SUFFICES ASSUME NEW i \in DOMAIN m PROVE m[i].of = None
      BY DEF OwnStrings
  <2>1. i \in 1 .. n /\ (n - i) + 1 \in 1 .. n
      BY <1>5
  <2>2. m[i] = l[(n - i) + 1]
      BY <1>3, <1>4, <2>1 DEF Reverse
  <2> HIDE DEF m
  <2> QED
      BY <1>3, <1>15, <2>1, <2>2 DEF OwnStrings
<1> HIDE DEF m
<1>6. IsList(m)
    BY <1>5, ListOf
<1>7. IsList(one)
    BY OneIs
<1>17. OwnStrings(one)
    BY DEF OwnStrings
<1> HIDE DEF one
<1>8. IsList(pk.qs) /\ OwnStrings(pk.qs) /\ DOMAIN pk = ParsedFields /\ pk.pcb = b
    BY DEF Parsing
<1>9. IsList(k) /\ OwnStrings(k)
    BY <1>6, <1>8, <1>16, ConcatIs, ConcatOwn
<1>10. IsList(o) /\ OwnStrings(o)
    BY <1>7, <1>8, <1>17, ConcatIs, ConcatOwn
<1> HIDE DEF k, o
<1>11. DOMAIN y1 = ParsedFields /\ y1.pcb = b /\ DOMAIN z1 = ParsedFields /\ z1.pcb = b
    BY <1>8 DEF ParsedFields
<1> HIDE DEF y1, z1
<1>12. DOMAIN y = ParsedFields /\ y.pcb = b /\ y.qs = k
    BY <1>11 DEF ParsedFields
<1>13. DOMAIN z = ParsedFields /\ z.pcb = b /\ z.qs = o
    BY <1>11 DEF ParsedFields
<1> HIDE DEF y, z
<1>14. Parsing(out, b)
    BY <1>1, <1>9, <1>10, <1>12, <1>13 DEF Parsing
<1> QED
    BY <1>14 DEF out

\* mdns_parse_packet, for a packet that has questions only.
LEMMA ParsePacketIs ==
    ASSUME NEW x, NEW w, NEW bad, Sound(x, w, bad), NEW m, m.pcb \in Pcbs, IsList(m.qs), OwnStrings(m.qs),
           m.answers = <<>>, m.servers = <<>>, m.extra = <<>>
    PROVE  Sound(ParsePacket(x, m), w, bad)
<1> DEFINE qs == m.qs
           n == Len(qs)
           p0 == Parsed(m)
           pk == FoldLeft(LAMBDA z, q : ParseQuestion(x, z, q), p0, qs)
           none == m.answers \o m.servers \o m.extra
           x0 == [st |-> x, pk |-> pk]
           y == FoldLeft(ParseRecord, x0, none)
           unasked == m.qs # <<>> /\ pk.qs = <<>> /\ ~pk.discovery /\ m.answers = <<>>
           z1 == CreateAnswerFromParsedPacket(y.st, y.pk)
           out == ParsePacket(x, m)
<1>1. out = x \/ (out = z1 /\ IsAfterProbing(y.st, m.pcb)) \/ out = y.st
    BY DEF ParsePacket
<1> HIDE DEF out
<1>2. n \in Nat /\ DOMAIN qs = 1 .. n
    BY ListIs
<1>3. IsList(x.srvs)
    BY SoundIs
<1>4. Parsing(p0, m.pcb)
    BY DEF Parsing, Parsed, ParsedFields, IsList, OwnStrings
<1> HIDE DEF n, p0
<1>5. PICK r : QuestionsParse(r, n, x, p0, qs)
    BY <1>2, QuestionsParseFold
<1>6. r[0] = p0 /\ r[n] = pk
    BY <1>5 DEF QuestionsParse
<1> HIDE DEF pk
<1> DEFINE Has(i) == Parsing(r[i], m.pcb)
<1>7. Has(0)
    BY <1>4, <1>6
<1>8. ASSUME NEW i \in 1 .. n, Has(i - 1) PROVE Has(i)
  <2>1. r[i] = ParseQuestion(x, r[i - 1], qs[i])
      BY <1>5 DEF QuestionsParse
  <2>2. qs[i].of = None
      BY <1>2 DEF OwnStrings
  <2> QED
      BY <1>3, <1>8, <2>1, <2>2, ParseQuestionIs
<1> HIDE DEF Has
<1>9. Has(n)
  <2> DEFINE T == {i \in 0 .. n : Has(i)}
  <2>1. 0 \in T
      BY <1>2, <1>7
  <2>2. \A i \in 1 .. n : i - 1 \in T => i \in T
    <3>1. \A i \in 1 .. n : i \in 0 .. n
        OBVIOUS
    <3> QED
        BY <1>8, <3>1
  <2> HIDE DEF T
  <2>3. n \in T
      BY <1>2, <2>1, <2>2, UpTo
  <2> QED
      BY <2>3 DEF T
<1>10. Parsing(pk, m.pcb)
    BY <1>6, <1>9 DEF Has
<1>11. none = <<>>
    BY <<>> \o <<>> = <<>>
<1>12. 0 \in Nat /\ DOMAIN none = 1 .. 0
    BY <1>11
<1> HIDE DEF none
<1>13. \E g : RecordsParse(g, 0, x0, none)
    BY <1>12, RecordsParseFold
<1>14. y = x0
    BY <1>13 DEF RecordsParse
<1> HIDE DEF y
<1>15. y.st = x /\ y.pk = pk
    BY <1>14
<1> HIDE DEF x0
<1>16. IsAfterProbing(x, m.pcb) => ~Probing(x.pcb[m.pcb])
    BY DEF IsAfterProbing, Probing, Probe1, Probe3
<1>17. IsAfterProbing(x, m.pcb) => Sound(z1, w, bad)
    BY <1>10, <1>15, <1>16, CreateAnswerFromParsedPacketIs DEF Parsing
<1> HIDE DEF z1
<1>18. Sound(out, w, bad)
    BY <1>1, <1>15, <1>17
<1> QED
    BY <1>18 DEF out

-----------------------------------------------------------------------------
(* What the service task does with an action, and what it starts from.       *)

\* A pcb without a host name probes for nothing and puts nothing on the wire.
LEMMA ProbeIsSilent ==
    ASSUME NEW x, DOMAIN x = ServerFields, x.host = None, NEW b, NEW services, NEW probe_ip
    PROVE  InitPcbProbe(x, b, services, probe_ip).out = x.out
<1> DEFINE t == Without(x.tx, {p \in Range(x.tx) : p.pcb = b})
           x1 == [x EXCEPT !.tx = t]
           y == SetPcbState(x1, b, Running)
<1>1. InitPcbProbe(x, b, services, probe_ip) = y
    BY DEF InitPcbProbe, ClearTxQueueIf
<1> HIDE DEF t
<1>2. DOMAIN x1 = ServerFields /\ x1.out = x.out
    BY DEF ServerFields
<1> HIDE DEF x1
<1>3. y.out = x1.out
    BY <1>2 DEF SetPcbState, ServerFields
<1> QED
    BY <1>1, <1>2, <1>3

\* Enabling a pcb is silent as long as there is no host name.
LEMMA EnableIsSilent ==
    ASSUME NEW x, DOMAIN x = ServerFields, x.host = None, NEW b
    PROVE  PcbEnable(x, b).out = x.out
<1> DEFINE x1 == IfInit(x, b)
           f == [x EXCEPT !.pcb[b].failed = 0]
           y == RestartPcb(x, b)
           z == RestartPcb(x1, b)
           out == PcbEnable(x, b)
<1>1. out = y \/ out = z \/ out = f
  <2>1. out = CASE Ready(x, b) -> y
              [] ~Ready(x, b) /\ b[1] \in x.up -> z
              [] OTHER -> f
      BY DEF PcbEnable
  <2> HIDE DEF y, z, f, out
  <2>2. CASE Ready(x, b)
      BY <2>1, <2>2
  <2>3. CASE ~Ready(x, b) /\ b[1] \in x.up
      BY <2>1, <2>3
  <2>4. CASE ~Ready(x, b) /\ b[1] \notin x.up
      BY <2>1, <2>4
  <2> QED
      BY <2>2, <2>3, <2>4
<1> HIDE DEF out
<1>2. y.out = x.out
    BY ProbeIsSilent DEF RestartPcb
<1>3. f.out = x.out
    BY DEF ServerFields
<1>4. DOMAIN x1 = ServerFields /\ x1.host = None /\ x1.out = x.out
    BY DEF IfInit, ServerFields
<1> HIDE DEF y, f, x1
<1>5. z.out = x1.out
  <2> DEFINE own == x1.srvs
             u == InitPcbProbe(x1, b, own, TRUE)
  <2>1. z = u
      BY DEF RestartPcb
  <2> HIDE DEF own, z
  <2>2. u.out = x1.out
      BY <1>4, ProbeIsSilent
  <2> QED
      BY <2>1, <2>2
<1> HIDE DEF z
<1>6. out.out = x.out
    BY <1>1, <1>2, <1>3, <1>4, <1>5
<1> QED
    BY <1>6 DEF out

\* The server before anything happened, with the interfaces up.
Started(ip, twin) == [Server(ip, twin) EXCEPT !.up = Itfs]

\* It has no services and no packets.
LEMMA ServerIs ==
    ASSUME NEW ip, NEW twin, twin \in [Itfs -> Itfs \cup {None}], NEW w, NEW bad
    PROVE  LET x == Started(ip, twin)
           IN  Sound(x, w, bad) /\ x.host = None /\ x.out = <<>>
<1> DEFINE x0 == Server(ip, twin)
           up == Itfs
           x == [x0 EXCEPT !.up = up]
<1>1. Started(ip, twin) = x
    BY DEF Started
<1>2. /\ DOMAIN x0 = ServerFields /\ x0.host = None /\ x0.srvs = <<>> /\ x0.hosts = <<>>
      /\ x0.pcb = [b \in Pcbs |-> OffPcb] /\ x0.ready = {} /\ x0.twin = twin /\ x0.tx = <<>>
      /\ x0.out = <<>> /\ x0.svc = [s \in Svcs |-> NoService]
    BY DEF Server, ServerFields
<1> HIDE DEF x0, up
<1>3. /\ DOMAIN x = ServerFields /\ x.host = None /\ x.srvs = <<>> /\ x.hosts = <<>>
      /\ x.pcb = [b \in Pcbs |-> OffPcb] /\ x.ready = {} /\ x.twin = twin /\ x.tx = <<>>
      /\ x.out = <<>> /\ x.up = up /\ x.svc = [s \in Svcs |-> NoService]
    BY <1>2 DEF ServerFields
<1> HIDE DEF x
<1>4. IsList(<<>>) /\ Range(<<>>) = {}
    BY DEF IsList, Range
<1>5. IsPcb(OffPcb) /\ OffPcb.services = <<>> /\ ~Probing(OffPcb)
    BY <1>4 DEF IsPcb, OffPcb, PcbFields, Off, Running, Probing, Probe1, Probe3
<1>6. IsServer(x)
  <2>1. IsServices(x.svc)
      BY <1>3 DEF IsServices, NoService, ServiceFields
  <2> QED
      BY <1>3, <1>4, <1>5, <2>1 DEF IsServer, up
<1>7. Refs(x, {})
    BY <1>3, <1>4, <1>5 DEF Refs, Typed
<1>8. \A b \in Pcbs : Covered(x, b)
  <2>1. \A b \in Pcbs : AllPlain(x.tx, b)
      BY <1>3 DEF AllPlain
  <2> QED
      BY <1>3, <1>5, <2>1 DEF Covered, CoveredBy
<1>9. Fit(x, {}, w, bad)
    BY <1>3, <1>6, <1>7, <1>8, NothingFits DEF Fit
<1>10. Sound(x, w, bad)
    BY <1>3, <1>4, <1>9 DEF Sound
<1> QED
    BY <1>1, <1>3, <1>10

\* The pcbs are enabled one after the other.
EnablesAll(r, n, x, as) ==
    /\ r[0] = x /\ r[n] = FoldLeft(PcbEnable, x, as)
    /\ \A i \in 1 .. n : r[i] = PcbEnable(r[i - 1], as[i])

\* The fold takes these steps.
LEMMA EnablesFold ==
    ASSUME NEW x, NEW as,
           NEW n \in Nat, DOMAIN as = 1 .. n
    PROVE  \E r : EnablesAll(r, n, x, as)
<1> DEFINE Op(y, i) == PcbEnable(y, as[i])
           After(g, s) == IF s = {} THEN x ELSE Op(g[s \ {Max(s)}], Max(s))
           Is(k, g) == g = [s \in SUBSET (1 .. k) |-> After(g, s)]
           fold == CHOOSE g : Is(n, g)
           T == {k \in 0 .. n : \E g : Is(k, g)}
<1>1. FoldLeft(PcbEnable, x, as) = fold[1 .. n]
    BY DEF FoldLeft, MapThenFoldSet
<1> HIDE DEF Op
<1>2. Is(0, [s \in SUBSET (1 .. 0) |-> x])
    OBVIOUS
<1>3. ASSUME NEW k \in 0 .. n - 1, NEW g, Is(k, g) PROVE \E h : Is(k + 1, h)
  <2> DEFINE h == [s \in SUBSET (1 .. k + 1) |->
                     IF k + 1 \in s THEN Op(g[s \ {k + 1}], k + 1) ELSE g[s]]
  <2>0. \A s \in SUBSET (1 .. k) : g[s] = After(g, s)
      BY <1>3
  <2>1. /\ \A s \in SUBSET (1 .. k) : h[s] = g[s]
        /\ \A s \in SUBSET (1 .. k + 1) : k + 1 \in s => h[s] = Op(g[s \ {k + 1}], k + 1)
        /\ h = [s \in SUBSET (1 .. k + 1) |-> h[s]]
      OBVIOUS
  <2> HIDE DEF h
  <2>2. \A s \in SUBSET (1 .. k + 1) : h[s] = After(h, s)
      BY k \in Nat, <2>0, <2>1, PlacesUpTo
  <2> QED
      BY <2>1, <2>2
<1>4. Is(n, fold)
  <2> HIDE DEF Is
  <2>1. 0 \in T /\ \A k \in 0 .. n - 1 : k \in T => k + 1 \in T
      BY <1>2, <1>3
  <2> HIDE DEF T
  <2>2. 0 .. n \subseteq T
      BY <2>1, UpFromZero
  <2> QED
      BY <2>2 DEF T
<1> HIDE DEF fold
<1> DEFINE r == [i \in 0 .. n |-> fold[1 .. i]]
<1>5. r[0] = x /\ r[n] = fold[1 .. n]
  <2>1. 1 .. 0 = {} /\ r[0] = fold[1 .. 0] /\ r[n] = fold[1 .. n]
      OBVIOUS
  <2>2. fold[{}] = x
      BY <1>4
  <2> QED
      BY <2>1, <2>2
<1>6. ASSUME NEW i \in 1 .. n PROVE r[i] = Op(r[i - 1], i)
  <2>1. r[i] = fold[1 .. i] /\ r[i - 1] = fold[1 .. i - 1]
      OBVIOUS
  <2>2. fold[1 .. i] = Op(fold[(1 .. i) \ {Max(1 .. i)}], Max(1 .. i))
      BY <1>4, PlacesBefore
  <2> HIDE DEF r
  <2> QED
      BY <2>1, <2>2, PlacesBefore
<1> HIDE DEF r
<1>7. EnablesAll(r, n, x, as)
    BY <1>1, <1>5, <1>6 DEF Op, EnablesAll
<1> QED
    BY <1>7

\* mdns_init: what there is when the interfaces that are up have been enabled.
LEMMA NetifInitIs == Sound(NetifInit, <<>>, FALSE) /\ NetifInit.out = <<>>
<1> DEFINE x == Started(Net.ip, Net.twin)
           as == SetToSeq(Pcbs)
<1>1. Sound(x, <<>>, FALSE) /\ x.host = None /\ x.out = <<>>
  <2> DEFINE ip == Net.ip
             twin == Net.twin
             none == <<>>
             bad == FALSE
             y == Started(ip, twin)
  <2>1. twin \in [Itfs -> Itfs \cup {None}]
      BY ServiceAssumption
  <2> HIDE DEF ip, twin, none, bad, x, as
  <2>2. Sound(y, none, bad) /\ y.host = None /\ y.out = <<>>
      BY <2>1, ServerIs
  <2> QED
      BY <2>2 DEF ip, twin, none, bad, x
<1>2. PICK n \in Nat : /\ DOMAIN as = 1 .. n /\ \A i \in 1 .. n : as[i] \in Pcbs
                       /\ \A b \in Pcbs : \E i \in 1 .. n : as[i] = b
    BY SomePcbs
<1>3. NetifInit = FoldLeft(PcbEnable, x, as)
    BY DEF NetifInit, Started
<1> HIDE DEF x, as
<1>4. PICK r : EnablesAll(r, n, x, as)
    BY <1>2, EnablesFold
<1> DEFINE Has(i) == Sound(r[i], <<>>, FALSE) /\ r[i].host = None /\ r[i].out = <<>>
<1>5. Has(0)
    BY <1>1, <1>4 DEF EnablesAll
<1>6. ASSUME NEW i \in 1 .. n, Has(i - 1) PROVE Has(i)
  <2> DEFINE z == r[i - 1]
             y == r[i]
             b == as[i]
             L == Range(z.srvs)
             w == <<>>
  <2>1. y = PcbEnable(z, b)
      BY <1>4 DEF EnablesAll
  <2>2. Sound(z, w, FALSE) /\ z.host = None /\ z.out = <<>> /\ b \in Pcbs
      BY <1>2, <1>6
  <2> HIDE DEF z, b, w, y
  <2>3. IsServer(z) /\ DOMAIN z = ServerFields /\ Range(z.srvs) \subseteq L /\ Fit(z, L, w, FALSE)
      BY <2>2, SoundIs DEF IsServer, Sound
  <2> HIDE DEF L
  <2>4. Fit(y, L, w, FALSE) /\ Keeps(z, y)
      BY <2>1, <2>2, <2>3, PcbEnableIs
  <2>5. Sound(y, w, FALSE)
      BY <2>4, SoundBy DEF L
  <2>6. y.out = z.out
      BY <2>1, <2>2, <2>3, EnableIsSilent
  <2>7. y.host = z.host
      BY <2>4 DEF Keeps
  <2> QED
      BY <2>2, <2>5, <2>6, <2>7 DEF y, w
<1> HIDE DEF Has
<1>7. Has(n)
  <2> DEFINE T == {i \in 0 .. n : Has(i)}
  <2>1. 0 \in T
      BY <1>5
  <2>2. \A i \in 1 .. n : i - 1 \in T => i \in T
    <3>1. \A i \in 1 .. n : i \in 0 .. n
        OBVIOUS
    <3> QED
        BY <1>6, <3>1
  <2> HIDE DEF T
  <2>3. n \in T
      BY <2>1, <2>2, UpTo
  <2> QED
      BY <2>3 DEF T
<1> QED
    BY <1>3, <1>4, <1>7 DEF EnablesAll, Has

\* What may be in the action queue.
ActionTypes == {"event", "tx", "rx", "hostname", "instance", "delegate_add", "delegate_set", "delegate_remove"}
IsAction(a) ==
    /\ a.type \in ActionTypes
    /\ a.type = "tx" => a # None
    /\ a.type = "event" => a.arg.pcb \in Pcbs /\ a.arg.event \in {"enable", "disable", "announce"}
    /\ a.type = "hostname" => a.arg # None
    /\ a.type = "rx" => /\ a.arg.pcb \in Pcbs /\ IsList(a.arg.qs) /\ OwnStrings(a.arg.qs)
                        /\ a.arg.answers = <<>> /\ a.arg.servers = <<>> /\ a.arg.extra = <<>>

\* The task takes an action that no packet waits for.
LEMMA LineShrinks ==
    ASSUME NEW x, NEW a, NEW q, IsList(q), NEW v, v = <<a>> \o q, NEW bad, Sound(x, v, bad), a.type # "tx"
    PROVE  Sound(x, q, bad)
<1>1. QueueFits(x.tx, v, bad) /\ IsList(x.tx)
    BY DEF Sound, Fit, IsServer
<1>2. x.tx # <<>> => ~(IsQueued(x.tx[1]) /\ IsFor(a, x.tx[1]))
    BY DEF IsFor
<1>3. QueueFits(x.tx, q, bad)
    BY <1>1, <1>2, OthersActionLeaves
<1> QED
    BY <1>3 DEF Sound, Fit

\* perform_event_action.
LEMMA PerformEventIs ==
    ASSUME NEW x, NEW w, NEW bad, Sound(x, w, bad), NEW e, e.pcb \in Pcbs,
           e.event \in {"enable", "disable", "announce"}
    PROVE  Sound(PerformEvent(x, e), w, bad)
<1> DEFINE L == Range(x.srvs)
           b == e.pcb
           a == PcbEnable(x, b)
           c == PcbDisable(x, b)
           none == <<>>
           d == PcbAnnounce(x, b, none, TRUE)
           out == PerformEvent(x, e)
<1>1. out = a \/ out = c \/ out = d
    BY DEF PerformEvent
<1>2. Fit(x, L, w, bad) /\ Range(x.srvs) \subseteq L /\ IsList(none) /\ Range(none) \subseteq L
    BY DEF Sound, IsList, Range
<1> HIDE DEF L, none, out
<1>3. Fit(a, L, w, bad) /\ Keeps(x, a)
    BY <1>2, PcbEnableIs
<1>4. Fit(c, L, w, bad) /\ Keeps(x, c)
    BY <1>2, PcbDisableIs
<1>5. Fit(d, L, w, bad) /\ Keeps(x, d)
    BY <1>2, PcbAnnounceIs DEF Stays
<1> HIDE DEF a, c, d
<1>6. Sound(out, w, bad)
    BY <1>1, <1>3, <1>4, <1>5, SoundBy DEF L
<1> QED
    BY <1>6 DEF out

\* execute_action: whatever the action is, what fits the services there are then does.
LEMMA PerformIs ==
    ASSUME NEW x, NEW a, IsAction(a), NEW q, IsList(q), NEW v, v = <<a>> \o q, NEW bad, Sound(x, v, bad)
    PROVE  Sound(Perform(x, a), q, bad)
<1> DEFINE y == Perform(x, a)
<1>1. CASE a.type = "tx"
  <2> DEFINE L == Range(x.srvs)
             z == SendPacket(x, a.arg)
  <2>1. y = z
      BY <1>1 DEF Perform
  <2>2. Fit(x, L, v, bad)
      BY DEF Sound
  <2> HIDE DEF L
  <2>3. Fit(z, L, q, bad) /\ Stays(x, z)
      BY <1>1, <2>2, SendPacketIs
  <2> HIDE DEF z
  <2>4. Sound(z, q, bad)
      BY <2>3, SoundBy DEF L, Stays
  <2> QED
      BY <2>1, <2>4
<1>2. CASE a.type # "tx"
  <2>1. Sound(x, q, bad)
      BY <1>2, LineShrinks
  <2>2. CASE a.type = "event"
    <3>1. y = PerformEvent(x, a.arg)
        BY <2>2 DEF Perform
    <3> QED
        BY <2>1, <2>2, <3>1, PerformEventIs DEF IsAction
  <2>3. CASE a.type = "rx"
    <3>1. y = ParsePacket(x, a.arg)
        BY <2>3 DEF Perform
    <3> QED
        BY <2>1, <2>3, <3>1, ParsePacketIs DEF IsAction
  <2>4. CASE a.type = "hostname"
    <3>1. y = HostnameSet(x, a.arg)
        BY <2>4 DEF Perform
    <3> QED
        BY <2>1, <2>4, <3>1, HostnameSetIs DEF IsAction
  <2>5. CASE a.type = "instance"
    <3>1. y = InstanceSet(x, a.arg)
        BY <2>5 DEF Perform
    <3> QED
        BY <2>1, <3>1, InstanceSetIs
  <2>6. CASE a.type = "delegate_add"
    <3>1. y = DelegateHostnameAdd(x, a.arg, 1)
        BY <2>6 DEF Perform
    <3> QED
        BY <2>1, <3>1, DelegateHostnameAddIs
  <2>7. CASE a.type = "delegate_set"
    <3>1. y = DelegateHostnameSetAddress(x, a.arg, 2)
        BY <2>7 DEF Perform
    <3> QED
        BY <2>1, <3>1, DelegateHostnameSetAddressIs
  <2>8. CASE a.type = "delegate_remove"
    <3>1. y = DelegateHostnameRemove(x, a.arg)
        BY <2>8 DEF Perform
    <3> QED
        BY <2>1, <3>1, DelegateHostnameRemoveIs
  <2> QED
      BY <1>2, <2>2, <2>3, <2>4, <2>5, <2>6, <2>7, <2>8 DEF IsAction, ActionTypes
<1> QED
    BY <1>1, <1>2

-----------------------------------------------------------------------------
(* The inductive invariant of the service.                                   *)

\* The actions the task has still to execute, in the order in which it will.
Line == IF running = None THEN queue ELSE <<running>> \o queue

\* A queue of actions that is not longer than it may be.
IsLine(q) == IsList(q) /\ Len(q) <= QueueLen /\ \A i \in DOMAIN q : IsAction(q[i])
LineInv == IsLine(queue) /\ (running = None \/ IsAction(running))

\* The timer is at a packet that is due; as long as no push failed, those before it are
\* handed over and it and those after it are not.
ScanInv ==
    scan # 0 => /\ scan \in DOMAIN st.tx
                /\ ~failed => /\ st.tx[scan].at = Now
                              /\ \A k \in DOMAIN st.tx : IsQueued(st.tx[k]) <=> k < scan

\* The inductive invariant.
IInv == Sound(st, Line, failed) /\ LineInv /\ ScanInv /\ st.out = <<>>

-----------------------------------------------------------------------------
(* The line grows at its end.                                                *)

\* What is sound with a line is sound with one that goes on from it.
LEMMA SoundGoesOn ==
    ASSUME NEW x, NEW w, NEW bad, Sound(x, w, bad), NEW v, GoesOn(w, v)
    PROVE  Sound(x, v, bad)
<1>1. QueueFits(x.tx, v, bad)
    BY LineGoesOn DEF Sound, Fit
<1> QED
    BY <1>1 DEF Sound, Fit

\* A list with one more in front.
LEMMA InFrontIs ==
    ASSUME NEW a, NEW q, IsList(q), NEW u, u = <<a>> \o q
    PROVE  IsList(u) /\ DOMAIN u = 1 .. 1 + Len(q) /\ u[1] = a /\ \A i \in 1 .. Len(q) : u[1 + i] = q[i]
<1> DEFINE one == <<a>>
<1>1. IsList(one) /\ Len(one) = 1 /\ one[1] = a
    BY DEF IsList, Range
<1>2. u = one \o q
    OBVIOUS
<1> HIDE DEF one
<1>3. IsList(u) /\ Len(u) = Len(one) + Len(q)
    BY <1>1, <1>2, ConcatIs
<1>4. \A i \in 1 .. Len(one) : u[i] = one[i]
    BY <1>1, <1>2, ConcatIs
<1>5. \A i \in 1 .. Len(q) : u[Len(one) + i] = q[i]
    BY <1>1, <1>2, ConcatIs
<1>6. DOMAIN u = 1 .. 1 + Len(q)
    BY <1>1, <1>3, ListIs
<1> QED
    BY <1>1, <1>3, <1>4, <1>5, <1>6

\* What is behind the action that is being executed goes on, and so does the whole line.
LEMMA GoesOnBehind ==
    ASSUME NEW q, IsList(q), NEW r, IsList(r), GoesOn(q, r), NEW a
    PROVE  GoesOn(<<a>> \o q, <<a>> \o r)
<1> DEFINE u == <<a>> \o q
           v == <<a>> \o r
<1>1. Len(q) \in Nat /\ Len(r) \in Nat /\ DOMAIN q = 1 .. Len(q) /\ DOMAIN r = 1 .. Len(r)
    BY ListIs
<1>2. DOMAIN u = 1 .. 1 + Len(q) /\ u[1] = a /\ \A i \in 1 .. Len(q) : u[1 + i] = q[i]
    BY InFrontIs
<1>3. DOMAIN v = 1 .. 1 + Len(r) /\ v[1] = a /\ \A i \in 1 .. Len(r) : v[1 + i] = r[i]
    BY InFrontIs
<1> HIDE DEF u, v
<1>4. ASSUME NEW i \in DOMAIN u PROVE i \in DOMAIN v /\ v[i] = u[i]
  <2>1. CASE i = 1
      BY <1>1, <1>2, <1>3, <2>1
  <2>2. CASE i # 1
    <3>1. i - 1 \in 1 .. Len(q) /\ i = 1 + (i - 1)
        BY <1>1, <1>2, <2>2
    <3>2. i - 1 \in 1 .. Len(r) /\ r[i - 1] = q[i - 1]
        BY <1>1, <3>1 DEF GoesOn
    <3>3. u[i] = q[i - 1] /\ v[i] = r[i - 1]
        BY <1>2, <1>3, <3>1, <3>2
    <3> QED
        BY <1>1, <1>3, <3>1, <3>2, <3>3
  <2> QED
      BY <2>1, <2>2
<1> QED
    BY <1>4 DEF GoesOn, u, v

\* Posting: the action is put at the end of the queue, or dropped when there is no room.
LEMMA PushIs ==
    ASSUME NEW q, IsLine(q), NEW a, IsAction(a)
    PROVE  IsLine(Push(q, a)) /\ GoesOn(q, Push(q, a))
<1>1. Len(q) \in Nat /\ DOMAIN q = 1 .. Len(q) /\ IsList(q)
    BY ListIs DEF IsLine
<1>2. CASE Len(q) >= QueueLen
    BY <1>2 DEF Push, GoesOn
<1>3. CASE ~(Len(q) >= QueueLen)
  <2> DEFINE t == Append(q, a)
  <2>1. /\ IsList(t) /\ Len(t) = Len(q) + 1 /\ t[Len(q) + 1] = a
        /\ \A i \in 1 .. Len(q) : t[i] = q[i]
      BY <1>1, AppendIs
  <2>2. DOMAIN t = 1 .. Len(q) + 1
      BY <2>1, ListIs
  <2>3. Push(q, a) = t
      BY <1>3 DEF Push
  <2> HIDE DEF t
  <2>4. Len(t) <= QueueLen
      BY <1>1, <1>3, <2>1, ServiceAssumption
  <2>5. \A i \in DOMAIN t : IsAction(t[i])
      BY <1>1, <2>1, <2>2 DEF IsLine
  <2>6. GoesOn(q, t)
      BY <1>1, <2>1, <2>2 DEF GoesOn
  <2> QED
      BY <2>1, <2>3, <2>4, <2>5, <2>6 DEF IsLine
<1> QED
    BY <1>2, <1>3

\* The actions of a network event are pushed one after the other.
PushesAll(r, n, q, as) ==
    /\ r[0] = q /\ r[n] = PushAll(q, as)
    /\ \A i \in 1 .. n : r[i] = Push(r[i - 1], as[i])

\* The fold takes these steps.
LEMMA PushAllFold ==
    ASSUME NEW q, NEW as,
           NEW n \in Nat, DOMAIN as = 1 .. n
    PROVE  \E r : PushesAll(r, n, q, as)
<1> DEFINE Op(x, i) == Push(x, as[i])
           After(g, s) == IF s = {} THEN q ELSE Op(g[s \ {Max(s)}], Max(s))
           Is(k, g) == g = [s \in SUBSET (1 .. k) |-> After(g, s)]
           fold == CHOOSE g : Is(n, g)
           T == {k \in 0 .. n : \E g : Is(k, g)}
<1>1. PushAll(q, as) = fold[1 .. n]
    BY DEF PushAll, FoldLeft, MapThenFoldSet
<1> HIDE DEF Op
<1>2. Is(0, [s \in SUBSET (1 .. 0) |-> q])
    OBVIOUS
<1>3. ASSUME NEW k \in 0 .. n - 1, NEW g, Is(k, g) PROVE \E h : Is(k + 1, h)
  <2> DEFINE h == [s \in SUBSET (1 .. k + 1) |->
                     IF k + 1 \in s THEN Op(g[s \ {k + 1}], k + 1) ELSE g[s]]
  <2>0. \A s \in SUBSET (1 .. k) : g[s] = After(g, s)
      BY <1>3
  <2>1. /\ \A s \in SUBSET (1 .. k) : h[s] = g[s]
        /\ \A s \in SUBSET (1 .. k + 1) : k + 1 \in s => h[s] = Op(g[s \ {k + 1}], k + 1)
        /\ h = [s \in SUBSET (1 .. k + 1) |-> h[s]]
      OBVIOUS
  <2> HIDE DEF h
  <2>2. \A s \in SUBSET (1 .. k + 1) : h[s] = After(h, s)
      BY k \in Nat, <2>0, <2>1, PlacesUpTo
  <2> QED
      BY <2>1, <2>2
<1>4. Is(n, fold)
  <2> HIDE DEF Is
  <2>1. 0 \in T /\ \A k \in 0 .. n - 1 : k \in T => k + 1 \in T
      BY <1>2, <1>3
  <2> HIDE DEF T
  <2>2. 0 .. n \subseteq T
      BY <2>1, UpFromZero
  <2> QED
      BY <2>2 DEF T
<1> HIDE DEF fold
<1> DEFINE r == [i \in 0 .. n |-> fold[1 .. i]]
<1>5. r[0] = q /\ r[n] = fold[1 .. n]
  <2>1. 1 .. 0 = {} /\ r[0] = fold[1 .. 0] /\ r[n] = fold[1 .. n]
      OBVIOUS
  <2>2. fold[{}] = q
      BY <1>4
  <2> QED
      BY <2>1, <2>2
<1>6. ASSUME NEW i \in 1 .. n PROVE r[i] = Op(r[i - 1], i)
  <2>1. r[i] = fold[1 .. i] /\ r[i - 1] = fold[1 .. i - 1]
      OBVIOUS
  <2>2. fold[1 .. i] = Op(fold[(1 .. i) \ {Max(1 .. i)}], Max(1 .. i))
      BY <1>4, PlacesBefore
  <2> HIDE DEF r
  <2> QED
      BY <2>1, <2>2, PlacesBefore
<1> HIDE DEF r
<1>7. PushesAll(r, n, q, as)
    BY <1>1, <1>5, <1>6 DEF Op, PushesAll
<1> QED
    BY <1>7

\* What a network event posts comes behind what is there.
LEMMA PushAllIs ==
    ASSUME NEW q, IsLine(q), NEW as, IsList(as), \A i \in DOMAIN as : IsAction(as[i])
    PROVE  IsLine(PushAll(q, as)) /\ GoesOn(q, PushAll(q, as))
<1> DEFINE n == Len(as)
<1>1. n \in Nat /\ DOMAIN as = 1 .. n
    BY ListIs
<1> HIDE DEF n
<1>2. PICK r : PushesAll(r, n, q, as)
    BY <1>1, PushAllFold
<1> DEFINE Has(i) == IsLine(r[i]) /\ GoesOn(q, r[i])
<1>3. Has(0)
    BY <1>2 DEF PushesAll, GoesOn
<1>4. ASSUME NEW i \in 1 .. n, Has(i - 1) PROVE Has(i)
  <2> DEFINE z == r[i - 1]
             a == as[i]
             y == Push(z, a)
  <2>1. r[i] = y
      BY <1>2 DEF PushesAll
  <2>2. IsLine(z) /\ GoesOn(q, z) /\ IsAction(a)
      BY <1>1, <1>4
  <2> HIDE DEF z, a
  <2>3. IsLine(y) /\ GoesOn(z, y)
      BY <2>2, PushIs
  <2> HIDE DEF y
  <2>4. GoesOn(q, y)
      BY <2>2, <2>3 DEF GoesOn
  <2> QED
      BY <2>1, <2>3, <2>4
<1> HIDE DEF Has
<1>5. Has(n)
  <2> DEFINE T == {i \in 0 .. n : Has(i)}
  <2>1. 0 \in T
      BY <1>1, <1>3
  <2>2. \A i \in 1 .. n : i - 1 \in T => i \in T
    <3>1. \A i \in 1 .. n : i \in 0 .. n
        OBVIOUS
    <3> QED
        BY <1>4, <3>1
  <2> HIDE DEF T
  <2>3. n \in T
      BY <1>1, <2>1, <2>2, UpTo
  <2> QED
      BY <2>3 DEF T
<1> QED
    BY <1>2, <1>5 DEF PushesAll, Has

\* What is sound with the same packets in the queue.
Shares(x, y) == y.tx = x.tx /\ \A w, bad : Sound(x, w, bad) => Sound(y, w, bad)

\* Which interfaces are up changes.
LEMMA UpSet ==
    ASSUME NEW x, DOMAIN x = ServerFields, NEW up, up \subseteq Itfs
    PROVE  LET y == [x EXCEPT !.up = up]
           IN  Shares(x, y) /\ y.out = x.out
<1> DEFINE y == [x EXCEPT !.up = up]
<1>1. /\ DOMAIN y = ServerFields /\ y.host = x.host /\ y.srvs = x.srvs /\ y.hosts = x.hosts
      /\ y.tx = x.tx /\ y.pcb = x.pcb /\ y.ready = x.ready /\ y.twin = x.twin /\ y.up = up
      /\ y.out = x.out /\ y.svc = x.svc
    BY DEF ServerFields
<1> HIDE DEF y
<1>2. ASSUME NEW w, NEW bad, Sound(x, w, bad) PROVE Sound(y, w, bad)
  <2> DEFINE L == Range(x.srvs)
  <2>1. Fit(x, L, w, bad)
      BY <1>2 DEF Sound
  <2> HIDE DEF L
  <2>2. IsServer(y)
      BY <1>1, <2>1 DEF Fit, IsServer
  <2>3. Refs(y, L) /\ \A b \in Pcbs : Covered(y, b)
      BY <1>1, <2>1 DEF Fit, Refs, Covered, CoveredBy
  <2>4. Fit(y, L, w, bad)
      BY <1>1, <2>1, <2>2, <2>3 DEF Fit
  <2> QED
      BY <1>1, <2>4 DEF Sound, L
<1>3. Shares(x, y)
    BY <1>1, <1>2 DEF Shares
<1> QED
    BY <1>1, <1>3 DEF y

-----------------------------------------------------------------------------
(* The packets change in their time and their mark.                          *)

\* The same packet but for its time and its mark.
SamePacket(p, q) ==
    /\ IsPacket(q) /\ q.pcb = p.pcb
    /\ q.answers = p.answers /\ q.servers = p.servers /\ q.additional = p.additional
    /\ q.qs = p.qs

\* Times and marks are set in a way that fits the line.
LEMMA MarksSet ==
    ASSUME NEW x, NEW w, NEW bad, Sound(x, w, bad), NEW u, IsList(u), DOMAIN u = DOMAIN x.tx,
           \A j \in DOMAIN u : SamePacket(x.tx[j], u[j]),
           NEW v, NEW failing, QueueFits(u, v, failing)
    PROVE  LET y == [x EXCEPT !.tx = u]
           IN  Sound(y, v, failing) /\ y.out = x.out /\ y.tx = u
<1> DEFINE y == [x EXCEPT !.tx = u]
           L == Range(x.srvs)
<1>1. Fit(x, L, w, bad)
    BY DEF Sound
<1>2. IsServer(x)
    BY <1>1 DEF Fit
<1>3. Keeps(x, y) /\ y.tx = u /\ y.pcb = x.pcb /\ y.ready = x.ready /\ y.out = x.out
      /\ y.svc = x.svc
    BY <1>2, TxSet
<1> HIDE DEF y, L
<1>4. /\ DOMAIN y = ServerFields /\ y.host = x.host /\ y.srvs = x.srvs /\ y.hosts = x.hosts
      /\ y.twin = x.twin /\ y.up = x.up
    BY <1>3 DEF Keeps
<1>5. IsServer(y)
    BY <1>2, <1>3, <1>4 DEF IsServer
<1>6. \A k \in DOMAIN u : PacketFits(u[k], L)
    BY <1>1 DEF Fit, Refs, PacketFits, SamePacket
<1>7. Refs(y, L)
    BY <1>1, <1>3, <1>4, <1>6 DEF Fit, Refs
<1>8. ASSUME NEW b \in Pcbs PROVE Covered(y, b)
  <2>1. Covered(x, b)
      BY <1>1 DEF Fit
  <2>2. \A k \in DOMAIN u : u[k].pcb = x.tx[k].pcb
      BY DEF SamePacket
  <2>3. Alone(x.tx, b) => Alone(u, b)
      BY <2>2 DEF Alone
  <2>4. \A k \in DOMAIN u :
          ProbesFor(x.tx[k], b, x.pcb[b], x.svc, {}) => ProbesFor(u[k], b, x.pcb[b], x.svc, {})
      BY DEF SamePacket, ProbesFor
  <2>5. \A k \in DOMAIN u : Plain(x.tx[k]) => Plain(u[k])
      BY DEF SamePacket, Plain
  <2>6. AllPlain(x.tx, b) => AllPlain(u, b)
      BY <2>2, <2>5 DEF AllPlain
  <2> QED
      BY <1>3, <2>1, <2>3, <2>4, <2>6 DEF Covered, CoveredBy
<1>9. \A b \in Pcbs : Covered(y, b)
    BY <1>8
<1>10. Fit(y, L, v, failing)
    BY <1>3, <1>5, <1>7, <1>9 DEF Fit
<1>11. Sound(y, v, failing)
    BY <1>4, <1>10 DEF Sound, L
<1> QED
    BY <1>3, <1>11 DEF y

\* Time passes.
LEMMA ElapseIs ==
    ASSUME NEW x, NEW w, NEW bad, Sound(x, w, bad)
    PROVE  Sound(Elapse(x), w, bad) /\ Elapse(x).out = x.out
<1> DEFINE t == x.tx
           u == [i \in DOMAIN t |-> [t[i] EXCEPT !.at = IF t[i].at > 0 THEN t[i].at - 1 ELSE 0]]
           y == [x EXCEPT !.tx = u]
<1>1. /\ IsList(t) /\ QueueFits(t, w, bad) /\ DOMAIN x = ServerFields
      /\ \A k \in DOMAIN t : IsPacket(t[k])
    BY DEF Sound, Fit, IsServer, Refs, PacketFits
<1>2. Elapse(x) = y
    BY <1>1 DEF Elapse, ServerFields
<1> HIDE DEF t
<1>3. DOMAIN t = 1 .. Len(t) /\ Len(t) \in Nat
    BY <1>1, ListIs
<1>4. DOMAIN u = DOMAIN t /\ IsList(u)
  <2>1. DOMAIN u = 1 .. Len(t) /\ u = [i \in 1 .. Len(t) |-> u[i]]
      BY <1>3
  <2> HIDE DEF u
  <2> QED
      BY <1>3, <2>1, ListOf
<1>5. ASSUME NEW j \in DOMAIN t
      PROVE  /\ SamePacket(t[j], u[j]) /\ u[j].id = t[j].id /\ (IsQueued(u[j]) <=> IsQueued(t[j]))
             /\ t[j].at = Now => u[j].at = Now
  <2> DEFINE p == t[j]
             at == IF p.at > 0 THEN p.at - 1 ELSE 0
             q == [p EXCEPT !.at = at]
  <2>1. u[j] = q /\ IsPacket(p)
      BY <1>1
  <2>2. at \in Nat /\ (p.at = Now => at = Now)
      BY <2>1 DEF IsPacket, Now
  <2> HIDE DEF p, u, at
  <2>3. /\ DOMAIN q = PacketFields /\ q.id = p.id /\ q.pcb = p.pcb /\ q.at = at
        /\ q.answers = p.answers /\ q.servers = p.servers /\ q.additional = p.additional
        /\ q.qs = p.qs
      BY <2>1 DEF IsPacket, PacketFields
  <2>4. q.queued = p.queued
      BY <2>1 DEF IsPacket, PacketFields
  <2> HIDE DEF q
  <2>5. SamePacket(p, q)
      BY <2>1, <2>2, <2>3, <2>4 DEF SamePacket, IsPacket
  <2> QED
      BY <2>1, <2>2, <2>3, <2>4, <2>5 DEF p, IsQueued
<1> HIDE DEF u
<1>6. QueueFits(u, w, bad)
  <2>1. Thinned(t, u)
      BY <1>1, <1>4, <1>5, SamePlacesThin
  <2> QED
      BY <1>1, <1>4, <2>1, ThinnedFits
<1>7. DOMAIN u = DOMAIN x.tx /\ \A j \in DOMAIN u : SamePacket(x.tx[j], u[j])
    BY <1>4, <1>5 DEF t
<1>8. Sound(y, w, bad) /\ y.out = x.out
    BY <1>4, <1>6, <1>7, MarksSet
<1> QED
    BY <1>2, <1>8

\* What the timer finds first is the end of what is handed over.
FirstOpen(t) == SelectInSeq(t, LAMBDA p : ~p.queued)

\* Those before it are handed over, and it and those behind it are not.
LEMMA FirstUnqueuedIs ==
    ASSUME NEW t, IsList(t), NEW w, NEW bad, QueueFits(t, w, bad),
           NEW k, k = FirstOpen(t), k # 0
    PROVE  bad \/ \A j \in DOMAIN t : IsQueued(t[j]) <=> j < k
<1> DEFINE n == Len(t)
           I == {i \in 1 .. n : ~IsQueued(t[i])}
<1>1. k = IF I # {} THEN Min(I) ELSE 0
    BY DEF FirstOpen, SelectInSeq, IsQueued
<1>2. n \in Nat /\ DOMAIN t = 1 .. n
    BY ListIs
<1>3. I \in SUBSET (1 .. n)
    OBVIOUS
<1>4. \A j \in 1 .. n : j \in I <=> ~IsQueued(t[j])
    OBVIOUS
<1> HIDE DEF I, n
<1>5. k \in I /\ \A i \in I : k <= i
  <2>1. k = Min(I) /\ I # {}
      BY <1>1
  <2>2. Min(I) \in I /\ \A i \in I : Min(I) <= i
      BY <1>2, <1>3, <2>1, MinIn
  <2> QED
      BY <2>1, <2>2
<1>6. ASSUME ~bad, NEW j \in DOMAIN t PROVE IsQueued(t[j]) <=> j < k
  <2>1. \A i \in HandedPart(t) : \A m \in 1 .. i : IsQueued(t[m])
      BY <1>6 DEF QueueFits, Handed
  <2>2. CASE j < k
    <3>1. j \notin I
        BY <1>2, <1>3, <1>5, <2>2
    <3> QED
        BY <1>2, <1>4, <2>2, <3>1
  <2>3. CASE ~(j < k)
    <3>1. k \in 1 .. j /\ ~IsQueued(t[k])
        BY <1>2, <1>3, <1>4, <1>5, <2>3
    <3>2. j \notin HandedPart(t)
        BY <2>1, <3>1
    <3> QED
        BY <2>3, <3>2 DEF HandedPart
  <2> QED
      BY <2>2, <2>3
<1> QED
    BY <1>6

\* A packet is handed over: those before it were, it is due, and its action comes last.
LEMMA HandedMore ==
    ASSUME NEW t, IsList(t), NEW w, IsList(w), Handed(t, w), NEW k \in DOMAIN t, t[k].at = Now,
           \A j \in DOMAIN t : IsQueued(t[j]) <=> j < k,
           NEW u, DOMAIN u = DOMAIN t, \A j \in DOMAIN t : j # k => u[j] = t[j],
           u[k].id = t[k].id, u[k].at = Now, IsQueued(u[k]),
           NEW v, IsList(v), Len(v) = Len(w) + 1, GoesOn(w, v), IsFor(v[Len(w) + 1], t[k])
    PROVE  Handed(u, v)
<1> DEFINE m == Len(w)
           n == Len(t)
<1>1. m \in Nat /\ DOMAIN w = 1 .. m /\ DOMAIN v = 1 .. m + 1 /\ n \in Nat /\ DOMAIN t = 1 .. n
    BY ListIs
<1>2. PICK f \in [HandedPart(t) -> DOMAIN w] : InLine(t, w, f)
    BY DEF Handed
<1> HIDE DEF m, n
<1>3. \A j \in DOMAIN t : IsQueued(u[j]) <=> j <= k
    BY <1>1
<1>4. HandedPart(t) = 1 .. k - 1 /\ HandedPart(u) = 1 .. k
    BY <1>1, <1>3 DEF HandedPart
<1> DEFINE g == [i \in 1 .. k |-> IF i = k THEN m + 1 ELSE f[i]]
<1>5. g[k] = m + 1 /\ \A i \in 1 .. k - 1 : g[i] = f[i] /\ f[i] \in 1 .. m
    BY <1>1, <1>2, <1>4
<1>6. g \in [HandedPart(u) -> DOMAIN v]
  <2>1. \A i \in 1 .. k : g[i] \in 1 .. m + 1
    <3> HIDE DEF g
    <3> QED
        BY <1>1, <1>5
  <2>2. g = [i \in 1 .. k |-> g[i]]
      OBVIOUS
  <2> HIDE DEF g
  <2> QED
      BY <1>1, <1>4, <2>1, <2>2
<1> HIDE DEF g
<1>7. \A i, j \in 1 .. k : i < j => g[i] < g[j]
  <2>1. \A i, j \in 1 .. k - 1 : i < j => f[i] < f[j]
      BY <1>2, <1>4 DEF InLine
  <2> QED
      BY <1>1, <1>5, <2>1
<1>8. ASSUME NEW i \in 1 .. k PROVE IsFor(v[g[i]], u[i])
  <2>1. CASE i = k
      BY <1>5, <2>1 DEF IsFor, m
  <2>2. CASE i # k
    <3>1. i \in 1 .. k - 1 /\ u[i] = t[i] /\ g[i] = f[i] /\ f[i] \in DOMAIN w
        BY <1>1, <1>5, <2>2
    <3>2. IsFor(w[f[i]], t[i])
        BY <1>2, <1>4, <3>1 DEF InLine
    <3>3. v[f[i]] = w[f[i]]
        BY <3>1 DEF GoesOn
    <3> QED
        BY <3>1, <3>2, <3>3
  <2> QED
      BY <2>1, <2>2
<1>9. InLine(u, v, g)
    BY <1>4, <1>7, <1>8 DEF InLine
<1>10. \A i \in 1 .. k : u[i].at = Now /\ \A j \in 1 .. i : IsQueued(u[j])
  <2>1. \A i \in 1 .. k - 1 : t[i].at = Now
      BY <1>4 DEF Handed
  <2>2. \A i \in 1 .. k : u[i].at = Now
      BY <1>1, <2>1
  <2> QED
      BY <1>1, <1>3, <2>2
<1> QED
    BY <1>4, <1>6, <1>9, <1>10 DEF Handed

-----------------------------------------------------------------------------
(* Every step keeps the invariant.                                           *)

\* What the line is made of.
LEMMA LineIs ==
    ASSUME IInv
    PROVE  IsList(queue) /\ IsLine(queue) /\ IsServer(st) /\ Sound(st, Line, failed)
BY DEF IInv, LineInv, IsLine, Sound, Fit

\* A new server whose packets have been sent.
LEMMA BecomesIs ==
    ASSUME NEW new, NEW w, NEW bad, Sound(new, w, bad), Becomes(new)
    PROVE  Sound(st', w, bad) /\ st'.out = <<>>
<1> DEFINE none == <<>>
           y == [new EXCEPT !.out = none]
<1>1. st' = y
    BY DEF Becomes
<1>2. IsServer(new)
    BY DEF Sound, Fit
<1>3. y.out = <<>>
    BY <1>2 DEF IsServer, ServerFields
<1> HIDE DEF none
<1>4. Alike(new, y)
    BY <1>2, FieldsSet
<1> HIDE DEF y
<1>5. Sound(y, w, bad)
    BY <1>4, SoundAlike
<1> QED
    BY <1>1, <1>3, <1>5

\* A call holds the lock: what it makes of the services fits them.
LEMMA CallKeeps ==
    ASSUME IInv, NEW new, NEW named, CallAs(new, named), Sound(new, Line, failed)
    PROVE  IInv'
<1>1. /\ queue' = queue /\ running' = running /\ scan' = 0 /\ failed' = failed
      /\ Becomes(new)
    BY DEF CallAs, Locked
<1>2. Sound(st', Line, failed) /\ st'.out = <<>>
    BY <1>1, BecomesIs
<1>3. Line' = Line
    BY <1>1 DEF Line
<1>4. Sound(st', Line', failed')
    BY <1>1, <1>2, <1>3
<1>5. LineInv'
    BY <1>1 DEF IInv, LineInv
<1>6. ScanInv'
    BY <1>1 DEF ScanInv
<1> QED
    BY <1>2, <1>4, <1>5, <1>6 DEF IInv

\* The queue goes on and the server stays what it was.
LEMMA QueueGoesOn ==
    ASSUME IInv, IsLine(queue'), GoesOn(queue, queue'), running' = running, scan' = scan,
           failed' = failed, Shares(st, st'), st'.out = <<>>
    PROVE  IInv'
<1>1. GoesOn(Line, Line')
  <2>1. CASE running = None
      BY <2>1 DEF Line
  <2>2. CASE running # None
    <3>1. Line = <<running>> \o queue /\ Line' = <<running>> \o queue'
        BY <2>2 DEF Line
    <3>2. IsList(queue) /\ IsList(queue')
        BY LineIs DEF IsLine
    <3> QED
        BY <3>1, <3>2, GoesOnBehind
  <2> QED
      BY <2>1, <2>2
<1>2. Sound(st, Line, failed)
    BY DEF IInv
<1>3. Sound(st, Line', failed)
    BY <1>1, <1>2, SoundGoesOn
<1>4. Sound(st', Line', failed)
    BY <1>3 DEF Shares
<1>5. Sound(st', Line', failed')
    BY <1>4
<1>6. LineInv'
    BY DEF IInv, LineInv
<1>7. ScanInv'
  <2>1. st'.tx = st.tx /\ ScanInv
      BY DEF Shares, IInv
  <2> QED
      BY <2>1 DEF ScanInv
<1> QED
    BY <1>5, <1>6, <1>7 DEF IInv

\* The server stays as it is.
LEMMA StaysAlike ==
    ASSUME IInv, st' = st
    PROVE  Shares(st, st') /\ st'.out = <<>>
BY DEF IInv, Shares

\* An action is posted.
LEMMA PostKeeps ==
    ASSUME IInv, NEW a, IsAction(a), NEW waits, Post(a, waits)
    PROVE  IInv'
<1>1. queue' = Push(queue, a) /\ st' = st /\ running' = running /\ scan' = scan /\ failed' = failed
    BY DEF Post
<1>2. IsLine(Push(queue, a)) /\ GoesOn(queue, Push(queue, a))
    BY LineIs, PushIs
<1> QED
    BY <1>1, <1>2, StaysAlike, QueueGoesOn

\* The calls that only post an action.
LEMMA PostsKeep ==
    ASSUME IInv, SetHostname \/ SetInstance \/ DelegateAdd \/ DelegateSetAddress \/ DelegateRemove
    PROVE  IInv'
<1>1. CASE SetHostname
  <2>1. PICK h \in Hostnames : Post(Action("hostname", h), TRUE)
      BY <1>1 DEF SetHostname
  <2>2. IsAction(Action("hostname", h))
      BY ServiceAssumption DEF IsAction, ActionTypes, Action
  <2> QED
      BY <2>1, <2>2, PostKeeps
<1>2. CASE SetInstance
  <2>1. PICK i \in Insts \ {None} : Post(Action("instance", i), FALSE)
      BY <1>2 DEF SetInstance
  <2>2. IsAction(Action("instance", i))
      BY DEF IsAction, ActionTypes, Action
  <2> QED
      BY <2>1, <2>2, PostKeeps
<1>3. CASE DelegateAdd
  <2>1. PICK h \in Hostnames : Post(Action("delegate_add", h), TRUE)
      BY <1>3 DEF DelegateAdd
  <2>2. IsAction(Action("delegate_add", h))
      BY DEF IsAction, ActionTypes, Action
  <2> QED
      BY <2>1, <2>2, PostKeeps
<1>4. CASE DelegateSetAddress
  <2>1. PICK h \in Hostnames : Post(Action("delegate_set", h), FALSE)
      BY <1>4 DEF DelegateSetAddress
  <2>2. IsAction(Action("delegate_set", h))
      BY DEF IsAction, ActionTypes, Action
  <2> QED
      BY <2>1, <2>2, PostKeeps
<1>5. CASE DelegateRemove
  <2>1. PICK h \in Hostnames : Post(Action("delegate_remove", h), FALSE)
      BY <1>5 DEF DelegateRemove
  <2>2. IsAction(Action("delegate_remove", h))
      BY DEF IsAction, ActionTypes, Action
  <2> QED
      BY <2>1, <2>2, PostKeeps
<1> QED
    BY <1>1, <1>2, <1>3, <1>4, <1>5

\* The calls that change the services at once.
LEMMA CallsKeep ==
    ASSUME IInv, \/ AddService \/ SetPort \/ SetTxt \/ SetTxtItem \/ RemoveTxtItem
                 \/ AddSubtype \/ UpdateSubtypes \/ RemoveSubtype
                 \/ SetServiceInstance \/ RemoveService \/ RemoveAll
    PROVE  IInv'
<1>1. Sound(st, Line, failed)
    BY DEF IInv
<1>2. CASE AddService
  <2>1. PICK s \in Free(st), i \in Insts, t \in Types, h \in Hostnames \cup {None}, p \in Ports : CallAs(ServiceAdd(st, s, i, t, h, p), FALSE)
      BY <1>2 DEF AddService, Call
  <2>0. t # None
      BY ServiceAssumption
  <2>2. Sound(ServiceAdd(st, s, i, t, h, p), Line, failed)
      BY <1>1, <2>0, ServiceAddIs
  <2> QED
      BY <2>1, <2>2, CallKeeps
<1>3. CASE SetPort
  <2>1. PICK p, i, t : CallAs(ServicePortSet(st, i, t, None, p), FALSE)
      BY <1>3 DEF SetPort, OnService, Call
  <2>2. Sound(ServicePortSet(st, i, t, None, p), Line, failed)
      BY <1>1, ServicePortSetIs
  <2> QED
      BY <2>1, <2>2, CallKeeps
<1>4. CASE SetTxt
  <2>1. PICK x, i, t : CallAs(ServiceTxtSet(st, i, t, None, {x}), FALSE)
      BY <1>4 DEF SetTxt, OnService, Call
  <2>2. Sound(ServiceTxtSet(st, i, t, None, {x}), Line, failed)
      BY <1>1, ServiceTxtSetIs
  <2> QED
      BY <2>1, <2>2, CallKeeps
<1>5. CASE SetTxtItem
  <2>1. PICK x, i, t : CallAs(ServiceTxtItemSet(st, i, t, None, x[1], x[2]), FALSE)
      BY <1>5 DEF SetTxtItem, OnService, Call
  <2>2. Sound(ServiceTxtItemSet(st, i, t, None, x[1], x[2]), Line, failed)
      BY <1>1, ServiceTxtItemSetIs
  <2> QED
      BY <2>1, <2>2, CallKeeps
<1>6. CASE RemoveTxtItem
  <2>1. PICK x, i, t : CallAs(ServiceTxtItemRemove(st, i, t, None, x[1]), FALSE)
      BY <1>6 DEF RemoveTxtItem, OnService, Call
  <2>2. Sound(ServiceTxtItemRemove(st, i, t, None, x[1]), Line, failed)
      BY <1>1, ServiceTxtItemRemoveIs
  <2> QED
      BY <2>1, <2>2, CallKeeps
<1>7. CASE AddSubtype
  <2>1. PICK x, i, t : CallAs(ServiceSubtypeAdd(st, i, t, None, <<x>>), FALSE)
      BY <1>7 DEF AddSubtype, OnService, Call
  <2>2. Sound(ServiceSubtypeAdd(st, i, t, None, <<x>>), Line, failed)
      BY <1>1, ServiceSubtypeAddIs
  <2> QED
      BY <2>1, <2>2, CallKeeps
<1>8. CASE UpdateSubtypes
  <2>1. PICK x \in Subs : ByName(LAMBDA i, t : ServiceSubtypeUpdate(st, i, t, None, <<x>>))
      BY <1>8 DEF UpdateSubtypes
  <2>2. PICK i, t : CallAs(ServiceSubtypeUpdate(st, i, t, None, <<x>>), st.svc[FindAnyHost(st, i, t, None)].inst # i \/ i = None)
      BY <2>1 DEF ByName
  <2>3. Sound(ServiceSubtypeUpdate(st, i, t, None, <<x>>), Line, failed)
      BY <1>1, ServiceSubtypeUpdateIs
  <2> QED
      BY <2>2, <2>3, CallKeeps
<1>9. CASE RemoveSubtype
  <2>1. PICK x, i, t : CallAs(ServiceSubtypeRemove(st, i, t, None, x), st.svc[FindAnyHost(st, i, t, None)].inst # i \/ i = None)
      BY <1>9 DEF RemoveSubtype, ByName
  <2>2. Sound(ServiceSubtypeRemove(st, i, t, None, x), Line, failed)
      BY <1>1, ServiceSubtypeRemoveIs
  <2> QED
      BY <2>1, <2>2, CallKeeps
<1>10. CASE SetServiceInstance
  <2>1. PICK n, i, t : CallAs(ServiceInstanceNameSet(st, i, t, None, n), st.svc[FindAnyHost(st, i, t, None)].inst # i \/ i = None)
      BY <1>10 DEF SetServiceInstance, ByName
  <2>2. Sound(ServiceInstanceNameSet(st, i, t, None, n), Line, failed)
      BY <1>1, ServiceInstanceNameSetIs
  <2> QED
      BY <2>1, <2>2, CallKeeps
<1>11. CASE RemoveService
  <2>1. PICK i, t : CallAs(ServiceRemove(st, i, t, None), FALSE)
      BY <1>11 DEF RemoveService, OnService, Call
  <2>2. Sound(ServiceRemove(st, i, t, None), Line, failed)
      BY <1>1, ServiceRemoveIs
  <2> QED
      BY <2>1, <2>2, CallKeeps
<1>12. CASE RemoveAll
  <2>1. CallAs(ServiceRemoveAll(st), FALSE)
      BY <1>12 DEF RemoveAll, Call
  <2>2. Sound(ServiceRemoveAll(st), Line, failed)
      BY <1>1, ServiceRemoveAllIs
  <2> QED
      BY <2>1, <2>2, CallKeeps
<1> QED
    BY <1>2, <1>3, <1>4, <1>5, <1>6, <1>7, <1>8, <1>9, <1>10, <1>11, <1>12

\* The timer starts at the first packet that is not handed over.
LEMMA TimerRunsKeeps == ASSUME IInv, TimerRuns PROVE IInv'
<1> DEFINE k == FirstUnqueued
           t == st.tx
<1>1. /\ st' = st /\ queue' = queue /\ running' = running /\ failed' = failed /\ scan' = k
      /\ k # 0 /\ k \in DOMAIN t /\ t[k].at = Now
    BY DEF TimerRuns, IsDue
<1>2. IsList(t) /\ QueueFits(t, Line, failed)
    BY DEF IInv, Sound, Fit, IsServer
<1>3. k = FirstOpen(t)
    BY DEF FirstUnqueued, FirstOpen
<1> HIDE DEF k, t
<1>4. failed \/ \A j \in DOMAIN t : IsQueued(t[j]) <=> j < k
    BY <1>1, <1>2, <1>3, FirstUnqueuedIs
<1>5. ScanInv'
    BY <1>1, <1>4 DEF ScanInv, t
<1>6. Line' = Line
    BY <1>1 DEF Line
<1>7. Sound(st', Line', failed') /\ LineInv' /\ st'.out = <<>>
    BY <1>1, <1>6 DEF IInv, LineInv
<1> QED
    BY <1>5, <1>7 DEF IInv

\* The whole line grows with the queue.
LEMMA LineMore ==
    ASSUME NEW r, NEW q, IsList(q), NEW a
    PROVE  LET w == IF r = None THEN q ELSE <<r>> \o q
               v == IF r = None THEN Append(q, a) ELSE <<r>> \o Append(q, a)
           IN  /\ IsList(w) /\ IsList(v) /\ Len(v) = Len(w) + 1 /\ GoesOn(w, v)
               /\ v[Len(w) + 1] = a
<1> DEFINE q1 == Append(q, a)
           w1 == <<r>> \o q
           v1 == <<r>> \o q1
<1>1. Len(q) \in Nat /\ DOMAIN q = 1 .. Len(q)
    BY ListIs
<1>2. IsList(q1) /\ Len(q1) = Len(q) + 1 /\ q1[Len(q) + 1] = a /\ \A i \in 1 .. Len(q) : q1[i] = q[i]
    BY AppendIs
<1> HIDE DEF q1
<1>3. DOMAIN q1 = 1 .. Len(q) + 1
    BY <1>2, ListIs
<1>4. GoesOn(q, q1)
    BY <1>1, <1>2, <1>3 DEF GoesOn
<1>5. IsList(w1) /\ DOMAIN w1 = 1 .. 1 + Len(q)
    BY InFrontIs
<1>6. IsList(v1) /\ DOMAIN v1 = 1 .. 1 + Len(q1) /\ \A i \in 1 .. Len(q1) : v1[1 + i] = q1[i]
  <2>1. IsList(q1) /\ v1 = <<r>> \o q1
      BY <1>2
  <2> HIDE DEF v1
  <2>2. IsList(v1) /\ DOMAIN v1 = 1 .. 1 + Len(q1)
      BY <2>1, InFrontIs
  <2>3. \A i \in 1 .. Len(q1) : v1[1 + i] = q1[i]
      BY <2>1, InFrontIs
  <2> QED
      BY <2>2, <2>3
<1>7. GoesOn(w1, v1)
    BY <1>2, <1>4, GoesOnBehind
<1> HIDE DEF w1, v1
<1>8. Len(w1) = 1 + Len(q) /\ Len(v1) = 1 + Len(q1)
  <2>1. DOMAIN w1 = 1 .. Len(w1) /\ Len(w1) \in Nat /\ DOMAIN v1 = 1 .. Len(v1) /\ Len(v1) \in Nat
      BY <1>5, <1>6, ListIs
  <2>2. \A m, n \in Nat : 1 .. m = 1 .. n => m = n
    <3>1. ASSUME NEW m \in Nat, NEW n \in Nat, 1 .. m = 1 .. n PROVE m = n
      <4>1. m \in 1 .. m \/ m = 0
          OBVIOUS
      <4>2. n \in 1 .. n \/ n = 0
          OBVIOUS
      <4> QED
          BY <3>1, <4>1, <4>2
    <3> QED
        BY <3>1
  <2> QED
      BY <1>1, <1>2, <1>5, <1>6, <2>1, <2>2
<1>9. v1[Len(w1) + 1] = a
  <2>1. Len(q) + 1 \in 1 .. Len(q1) /\ Len(w1) + 1 = 1 + (Len(q) + 1)
      BY <1>1, <1>2, <1>8
  <2> QED
      BY <1>2, <1>6, <2>1
<1>10. Len(v1) = Len(w1) + 1
    BY <1>1, <1>2, <1>8
<1> QED
    BY <1>2, <1>4, <1>5, <1>6, <1>7, <1>9, <1>10 DEF q1, w1, v1

\* The timer pushes the packet it is at: it is marked, and its action comes last, unless
\* there is no room.
LEMMA TimerPushesKeeps == ASSUME IInv, TimerPushes PROVE IInv'
<1> DEFINE k == scan
           t == st.tx
           p == t[k]
           mark == ~Full
           q == [p EXCEPT !.queued = mark]
           u == [t EXCEPT ![k] = q]
           y == [st EXCEPT !.tx = u]
           a == Action("tx", p.id)
<1>1. /\ queue' = Push(queue, a) /\ running' = running /\ failed' = (failed \/ Full)
      /\ scan' = IF IsDue(k + 1) THEN k + 1 ELSE 0
    BY DEF TimerPushes
<1>2. st' = [st EXCEPT !.tx[k].queued = mark]
    BY DEF TimerPushes
<1>3. k \in DOMAIN t /\ (~failed => p.at = Now /\ \A j \in DOMAIN t : IsQueued(t[j]) <=> j < k)
    BY DEF IInv, ScanInv, TimerPushes, Locked
<1>4. /\ IsList(t) /\ QueueFits(t, Line, failed) /\ DOMAIN st = ServerFields
      /\ \A j \in DOMAIN t : IsPacket(t[j])
    BY DEF IInv, Sound, Fit, Refs, PacketFits, IsServer
<1>5. st' = y
    BY <1>2, <1>3, <1>4 DEF ServerFields
<1> HIDE DEF t, k
<1>6. Len(t) \in Nat /\ DOMAIN t = 1 .. Len(t)
    BY <1>4, ListIs
<1>7. DOMAIN u = DOMAIN t /\ IsList(u) /\ u[k] = q /\ \A j \in DOMAIN t : j # k => u[j] = t[j]
  <2> HIDE DEF q
  <2>1. DOMAIN u = 1 .. Len(t) /\ u = [i \in 1 .. Len(t) |-> u[i]]
      BY <1>6
  <2>2. u[k] = q /\ \A j \in DOMAIN t : j # k => u[j] = t[j]
      BY <1>3
  <2> HIDE DEF u
  <2>3. IsList(u)
      BY <1>6, <2>1, ListOf
  <2> QED
      BY <1>6, <2>1, <2>2, <2>3
<1> HIDE DEF u
<1>8. IsPacket(p)
    BY <1>3, <1>4
<1>9. mark \in BOOLEAN
    BY DEF Full
<1> HIDE DEF mark
<1>10. /\ DOMAIN q = PacketFields /\ q.id = p.id /\ q.pcb = p.pcb /\ q.at = p.at /\ q.queued = mark
       /\ q.answers = p.answers /\ q.servers = p.servers /\ q.additional = p.additional
       /\ q.qs = p.qs
    BY <1>8 DEF IsPacket, PacketFields
<1> HIDE DEF q
<1>11. ASSUME NEW j \in DOMAIN u PROVE SamePacket(st.tx[j], u[j]) /\ u[j].id = t[j].id
  <2>1. t[j] = st.tx[j]
      BY DEF t
  <2>2. CASE j = k
    <3>1. u[j] = q /\ t[j] = p
        BY <1>7, <2>2
    <3> HIDE DEF p
    <3>2. SamePacket(p, q)
        BY <1>8, <1>9, <1>10 DEF SamePacket, IsPacket
    <3> QED
        BY <1>10, <2>1, <3>1, <3>2
  <2>3. CASE j # k
    <3>1. u[j] = t[j] /\ IsPacket(t[j])
        BY <1>4, <1>7, <2>3
    <3> QED
        BY <2>1, <3>1 DEF SamePacket
  <2> QED
      BY <2>2, <2>3
<1>12. Apart(u)
    BY <1>4, <1>7, <1>11 DEF QueueFits, Apart
<1> HIDE DEF p
<1>13. IsLine(queue) /\ IsList(queue)
    BY LineIs
<1>14. IsAction(a) /\ a.type = "tx" /\ a.arg = p.id
  <2>1. a \in [type : {"tx"}, arg : Nat] /\ a.type = "tx" /\ a.arg = p.id
      BY <1>8 DEF Action, IsPacket
  <2> HIDE DEF a
  <2>2. a # None
      BY <2>1, ServiceAssumption
  <2> QED
      BY <2>1, <2>2 DEF IsAction, ActionTypes
<1> HIDE DEF a
<1>15. IsLine(queue') /\ GoesOn(queue, queue')
    BY <1>1, <1>13, <1>14, PushIs
<1>16. QueueFits(u, Line', failed')
  <2>1. CASE failed \/ Full
    <3>1. failed'
        BY <1>1, <2>1
    <3> QED
        BY <1>12, <3>1 DEF QueueFits
  <2>2. CASE ~failed /\ ~Full
    <3>1. queue' = Append(queue, a)
        BY <1>1, <2>2 DEF Push, Full
    <3>2. Handed(t, Line)
        BY <1>4, <2>2 DEF QueueFits
    <3>3. IsList(Line) /\ IsList(Line') /\ Len(Line') = Len(Line) + 1 /\ GoesOn(Line, Line')
          /\ Line'[Len(Line) + 1] = a
        BY <1>1, <1>13, <3>1, LineMore DEF Line
    <3>4. IsQueued(u[k])
        BY <1>7, <1>10, <2>2 DEF IsQueued, mark
    <3>5. t[k].at = Now /\ u[k].id = t[k].id /\ u[k].at = Now /\ IsFor(a, t[k])
        BY <1>3, <1>7, <1>10, <1>14, <2>2 DEF p, IsFor
    <3>6. \A j \in DOMAIN t : IsQueued(t[j]) <=> j < k
        BY <1>3, <2>2
    <3> DEFINE w == Line
               v == Line'
    <3>7. IsList(w) /\ Handed(t, w) /\ IsList(v) /\ Len(v) = Len(w) + 1 /\ GoesOn(w, v) /\ v[Len(w) + 1] = a
        BY <3>2, <3>3
    <3> HIDE DEF w, v
    <3>8. IsFor(v[Len(w) + 1], t[k])
        BY <3>5, <3>7
    <3>9. Handed(u, v)
        BY <1>3, <1>4, <1>7, <3>4, <3>5, <3>6, <3>7, <3>8, HandedMore
    <3> QED
        BY <1>12, <3>9 DEF QueueFits, v
  <2> QED
      BY <2>1, <2>2
<1>17. Sound(y, Line', failed') /\ y.out = st.out /\ y.tx = u
  <2>1. Sound(st, Line, failed) /\ DOMAIN u = DOMAIN st.tx /\ \A j \in DOMAIN u : SamePacket(st.tx[j], u[j])
      BY <1>7, <1>11 DEF IInv, t
  <2> QED
      BY <1>7, <1>16, <2>1, MarksSet
<1> HIDE DEF y
<1>18. st'.out = <<>> /\ Sound(st', Line', failed')
    BY <1>5, <1>17 DEF IInv
<1>19. LineInv'
    BY <1>1, <1>15 DEF IInv, LineInv
<1>20. ScanInv'
  <2>1. ASSUME scan' # 0
        PROVE  /\ scan' \in DOMAIN u
               /\ ~failed' => u[scan'].at = Now /\ \A j \in DOMAIN u : IsQueued(u[j]) <=> j < scan'
    <3>1. scan' = k + 1 /\ k + 1 \in DOMAIN t /\ t[k + 1].at = Now
        BY <1>1, <2>1 DEF IsDue, t
    <3>2. u[k + 1] = t[k + 1]
        BY <1>3, <1>6, <1>7, <3>1
    <3>3. ASSUME ~failed', NEW j \in DOMAIN u PROVE IsQueued(u[j]) <=> j < k + 1
      <4>1. ~failed /\ ~Full
          BY <1>1, <3>3
      <4>2. CASE j = k
        <5>1. IsQueued(u[k])
            BY <1>7, <1>10, <4>1 DEF IsQueued, mark
        <5> QED
            BY <1>3, <1>6, <4>2, <5>1
      <4>3. CASE j # k
        <5>1. u[j] = t[j] /\ (IsQueued(t[j]) <=> j < k) /\ (j < k <=> j < k + 1)
            BY <1>3, <1>6, <1>7, <4>1, <4>3
        <5> QED
            BY <5>1
      <4> QED
          BY <4>2, <4>3
    <3> QED
        BY <1>7, <3>1, <3>2, <3>3
  <2>2. st'.tx = u
      BY <1>5, <1>17
  <2> QED
      BY <2>1, <2>2 DEF ScanInv
<1> QED
    BY <1>18, <1>19, <1>20 DEF IInv

\* The task takes the first action there is.
LEMMA TakeKeeps == ASSUME IInv, Take PROVE IInv'
<1> DEFINE a == Head(queue)
           q == Tail(queue)
           w == <<a>> \o q
<1>1. /\ running = None /\ queue # <<>> /\ running' = a /\ queue' = q
      /\ st' = st /\ scan' = scan /\ failed' = failed
    BY DEF Take
<1>2. IsLine(queue) /\ IsList(queue)
    BY LineIs
<1>3. /\ IsList(q) /\ Len(q) = Len(queue) - 1 /\ a = queue[1]
      /\ \A i \in 1 .. Len(queue) - 1 : q[i] = queue[i + 1]
    BY <1>1, <1>2, TailIs
<1>4. Len(queue) \in Nat /\ Len(queue) > 0 /\ DOMAIN queue = 1 .. Len(queue)
    BY <1>1, <1>2, ListIs, TailIs
<1> HIDE DEF a, q
<1>5. DOMAIN q = 1 .. Len(queue) - 1
    BY <1>3, ListIs
<1>6. DOMAIN w = 1 .. Len(queue) /\ w[1] = a /\ \A i \in 1 .. Len(queue) - 1 : w[1 + i] = q[i]
  <2>1. DOMAIN w = 1 .. 1 + Len(q) /\ w[1] = a /\ \A i \in 1 .. Len(q) : w[1 + i] = q[i]
      BY <1>3, InFrontIs
  <2> HIDE DEF w
  <2> QED
      BY <1>3, <1>4, <2>1
<1>7. GoesOn(queue, w)
  <2> HIDE DEF w
  <2>1. ASSUME NEW i \in 1 .. Len(queue) PROVE w[i] = queue[i]
    <3>1. CASE i = 1
        BY <1>3, <1>6, <3>1
    <3>2. CASE i # 1
      <4>1. i - 1 \in 1 .. Len(queue) - 1 /\ 1 + (i - 1) = i /\ (i - 1) + 1 = i
          BY <1>4, <3>2
      <4>2. w[1 + (i - 1)] = q[i - 1] /\ q[i - 1] = queue[(i - 1) + 1]
          BY <1>3, <1>6, <4>1
      <4> QED
          BY <4>1, <4>2
    <3> QED
        BY <3>1, <3>2
  <2> QED
      BY <1>4, <1>6, <2>1 DEF GoesOn
<1>8. Sound(st, queue, failed)
    BY <1>1 DEF IInv, Line
<1>9. Sound(st, w, failed)
    BY <1>7, <1>8, SoundGoesOn
<1>10. IsAction(a)
    BY <1>2, <1>3, <1>4 DEF IsLine
<1>11. Sound(st, Line', failed)
  <2>1. CASE a = None
    <3>1. a.type # "tx"
        BY <1>10, <2>1 DEF IsAction
    <3>2. Sound(st, q, failed)
        BY <1>3, <1>9, <3>1, LineShrinks
    <3> QED
        BY <1>1, <2>1, <3>2 DEF Line
  <2>2. CASE a # None
    <3>1. Line' = w
        BY <1>1, <2>2 DEF Line
    <3> QED
        BY <1>9, <3>1
  <2> QED
      BY <2>1, <2>2
<1>12. IsLine(q)
  <2>1. ASSUME NEW i \in DOMAIN q PROVE IsAction(q[i])
    <3>1. i \in 1 .. Len(queue) - 1 /\ i + 1 \in DOMAIN queue
        BY <1>4, <1>5
    <3>2. q[i] = queue[i + 1]
        BY <1>3, <3>1
    <3> QED
        BY <1>2, <3>1, <3>2 DEF IsLine
  <2>2. Len(q) <= QueueLen
      BY <1>2, <1>3, <1>4, ServiceAssumption DEF IsLine
  <2> QED
      BY <1>3, <2>1, <2>2 DEF IsLine
<1>13. LineInv'
    BY <1>1, <1>10, <1>12 DEF LineInv
<1>14. ScanInv' /\ st'.out = <<>>
    BY <1>1 DEF IInv, ScanInv
<1> QED
    BY <1>1, <1>11, <1>13, <1>14 DEF IInv

\* The task executes the action it has taken.
LEMMA ExecuteKeeps == ASSUME IInv, Execute PROVE IInv'
<1> DEFINE a == running
           q == queue
           w == <<a>> \o q
           new == Perform(st, a)
<1>1. /\ a # None /\ scan = 0 /\ Becomes(new) /\ running' = None
      /\ queue' = q /\ scan' = scan /\ failed' = failed
    BY DEF Execute, Locked
<1>2. IsLine(q) /\ IsList(q) /\ Line' = q /\ IsAction(a)
    BY <1>1, LineIs DEF Line, IInv, LineInv
<1>3. Sound(st, w, failed)
    BY <1>1 DEF IInv, Line
<1>4. Sound(new, q, failed)
  <2> HIDE DEF a, q, w, new
  <2>1. w = <<a>> \o q /\ new = Perform(st, a)
      BY DEF w, new
  <2> QED
      BY <1>2, <1>3, <2>1, PerformIs
<1> HIDE DEF a, q, w, new
<1>5. Sound(st', q, failed) /\ st'.out = <<>>
    BY <1>1, <1>4, BecomesIs
<1>6. LineInv' /\ ScanInv'
    BY <1>1, <1>2 DEF LineInv, ScanInv
<1> QED
    BY <1>1, <1>2, <1>5, <1>6 DEF IInv

\* Time passes while nobody holds the lock.
LEMMA TickKeeps == ASSUME IInv, Tick PROVE IInv'
<1>1. /\ st' = Elapse(st) /\ queue' = queue /\ running' = running /\ scan' = 0 /\ scan = 0
      /\ failed' = failed
    BY DEF Tick, Locked
<1>2. Sound(Elapse(st), Line, failed) /\ Elapse(st).out = st.out
    BY ElapseIs DEF IInv
<1>3. Line' = Line
    BY <1>1 DEF Line
<1>4. LineInv' /\ ScanInv'
    BY <1>1 DEF IInv, LineInv, ScanInv
<1> QED
    BY <1>1, <1>2, <1>3, <1>4 DEF IInv

\* An interface comes or goes: which ones are up changes, and events are posted.
LEMMA NetworkEventKeeps ==
    ASSUME IInv, NEW up, up \subseteq Itfs, NEW as, IsList(as), \A i \in DOMAIN as : IsAction(as[i]),
           NetworkEvent(up, as)
    PROVE  IInv'
<1> DEFINE y == [st EXCEPT !.up = up]
<1>1. /\ queue' = PushAll(queue, as) /\ st' = y
      /\ running' = running /\ scan' = scan /\ failed' = failed
    BY DEF NetworkEvent
<1>2. IsLine(PushAll(queue, as)) /\ GoesOn(queue, PushAll(queue, as))
    BY LineIs, PushAllIs
<1>3. Shares(st, y) /\ y.out = st.out
    BY LineIs, UpSet DEF IsServer
<1> HIDE DEF y
<1>4. Shares(st, st') /\ st'.out = <<>>
    BY <1>1, <1>3 DEF IInv
<1> QED
    BY <1>1, <1>2, <1>4, QueueGoesOn

\* An event of a pcb, when the protocol is configured.
LEMMA EventIs ==
    ASSUME NEW i \in Itfs, NEW event \in {"enable", "disable", "announce"}, NEW p
    PROVE  IsList(Event(i, event, p)) /\ \A k \in DOMAIN Event(i, event, p) : IsAction(Event(i, event, p)[k])
<1>1. CASE p \in Protos
  <2> DEFINE a == Action("event", [event |-> event, pcb |-> <<i, p>>])
             s == <<a>>
  <2>1. a.type = "event" /\ a.arg.event = event /\ a.arg.pcb = <<i, p>>
      BY DEF Action
  <2>2. <<i, p>> \in Pcbs
      BY <1>1 DEF Pcbs
  <2> HIDE DEF a
  <2>3. IsAction(a)
      BY <2>1, <2>2 DEF IsAction, ActionTypes
  <2>4. IsList(s) /\ DOMAIN s = {1} /\ s[1] = a
      BY DEF IsList, Range
  <2>5. Event(i, event, p) = s
      BY <1>1 DEF Event, a
  <2> HIDE DEF s
  <2> QED
      BY <2>3, <2>4, <2>5
<1>2. CASE p \notin Protos
  <2>1. Event(i, event, p) = <<>>
      BY <1>2 DEF Event
  <2> QED
      BY <2>1 DEF IsList, Range
<1> QED
    BY <1>1, <1>2

\* The events of both protocols.
LEMMA EventsAre ==
    ASSUME NEW i \in Itfs, NEW e \in {"enable", "disable", "announce"},
           NEW f \in {"enable", "disable", "announce"}, NEW p, NEW q
    PROVE  LET as == Event(i, e, p) \o Event(i, f, q)
           IN  IsList(as) /\ \A k \in DOMAIN as : IsAction(as[k])
<1> DEFINE s == Event(i, e, p)
           t == Event(i, f, q)
           as == s \o t
<1>1. IsList(s) /\ \A k \in DOMAIN s : IsAction(s[k])
    BY EventIs
<1>2. IsList(t) /\ \A k \in DOMAIN t : IsAction(t[k])
    BY EventIs
<1> HIDE DEF s, t
<1>3. IsList(as) /\ Range(as) = Range(s) \cup Range(t)
    BY <1>1, <1>2, ConcatRange
<1> HIDE DEF as
<1>4. \A k \in DOMAIN as : IsAction(as[k])
    BY <1>1, <1>2, <1>3 DEF Range
<1> QED
    BY <1>3, <1>4 DEF as, s, t

\* The interfaces' addresses come and go.
LEMMA NetworkKeeps == ASSUME IInv, GotIp \/ GotIp6 \/ Disconnected PROVE IInv'
<1>1. st.up \subseteq Itfs
    BY LineIs DEF IsServer
<1>2. CASE GotIp
  <2>1. PICK i \in Itfs : NetworkEvent(st.up \cup {i}, Event(i, "enable", "v4") \o Event(i, "announce", "v6"))
      BY <1>2 DEF GotIp
  <2>2. st.up \cup {i} \subseteq Itfs
      BY <1>1
  <2> QED
      BY <2>1, <2>2, EventsAre, NetworkEventKeeps
<1>3. CASE GotIp6
  <2>1. PICK i \in Itfs : NetworkEvent(st.up, Event(i, "enable", "v6") \o Event(i, "announce", "v4"))
      BY <1>1, <1>3 DEF GotIp6
  <2> QED
      BY <1>1, <2>1, EventsAre, NetworkEventKeeps
<1>4. CASE Disconnected
  <2>1. PICK i \in Itfs : NetworkEvent(st.up \ {i}, Event(i, "disable", "v4") \o Event(i, "disable", "v6"))
      BY <1>1, <1>4 DEF Disconnected
  <2>2. st.up \ {i} \subseteq Itfs
      BY <1>1
  <2> QED
      BY <2>1, <2>2, EventsAre, NetworkEventKeeps
<1> QED
    BY <1>2, <1>3, <1>4

\* A neighbour's questions arrive.
LEMMA PacketComesKeeps == ASSUME IInv, PacketComes PROVE IInv'
<1>1. PICK b \in st.ready, qs \in Asks : queue' = Push(queue, Action("rx", Asked1(b, qs)))
    BY DEF PacketComes
<1> DEFINE m == Asked1(b, qs)
           a == Action("rx", m)
<1>2. st' = st /\ running' = running /\ scan' = scan /\ failed' = failed
    BY DEF PacketComes
<1>3. b \in Pcbs
    BY LineIs DEF IsServer
<1>4. IsList(qs) /\ OwnStrings(qs)
  <2>1. qs \in Seq(Range(qs)) /\ \A q \in Range(qs) : q.of = None
      BY <1>1, ServiceAssumption
  <2>2. OwnStrings(qs)
      BY <2>1 DEF OwnStrings, Range
  <2> QED
      BY <2>1, <2>2 DEF IsList
<1>5. m.pcb = b /\ m.qs = qs /\ m.answers = <<>> /\ m.servers = <<>> /\ m.extra = <<>>
    BY DEF Asked1, Message
<1> HIDE DEF m
<1>6. a.type = "rx" /\ a.arg = m
    BY DEF Action
<1> HIDE DEF a
<1>7. IsAction(a)
    BY <1>3, <1>4, <1>5, <1>6 DEF IsAction, ActionTypes
<1>8. queue' = Push(queue, a)
    BY <1>1 DEF a, m
<1>9. IsLine(queue') /\ GoesOn(queue, queue')
    BY <1>7, <1>8, LineIs, PushIs
<1> QED
    BY <1>2, <1>9, StaysAlike, QueueGoesOn

-----------------------------------------------------------------------------
(* The theorems.                                                             *)

\* The server starts with nothing queued and nothing to do.
LEMMA InitHolds == Init => IInv
<1> SUFFICES ASSUME Init PROVE IInv
    OBVIOUS
<1>1. st = NetifInit /\ queue = <<>> /\ running = None /\ scan = 0 /\ failed = FALSE
    BY DEF Init
<1>2. Line = <<>>
    BY <1>1 DEF Line
<1>3. Sound(st, Line, failed) /\ st.out = <<>>
    BY <1>1, <1>2, NetifInitIs
<1>4. LineInv
  <2>1. IsList(<<>>) /\ Len(<<>>) = 0 /\ DOMAIN <<>> = {}
      BY DEF IsList, Range
  <2>2. IsLine(<<>>)
      BY <2>1, ServiceAssumption DEF IsLine
  <2> QED
      BY <1>1, <2>2 DEF LineInv
<1>5. ScanInv
    BY <1>1 DEF ScanInv
<1> QED
    BY <1>3, <1>4, <1>5 DEF IInv

\* Nothing happens.
LEMMA StutterKeeps == ASSUME IInv, UNCHANGED vars PROVE IInv'
<1>1. st' = st /\ queue' = queue /\ running' = running /\ scan' = scan /\ failed' = failed
    BY DEF vars
<1>2. Line' = Line
    BY <1>1 DEF Line
<1> QED
    BY <1>1, <1>2 DEF IInv, LineInv, ScanInv

\* Every step keeps the invariant.
LEMMA NextKeeps == ASSUME IInv, [Next]_vars PROVE IInv'
<1>1. CASE Application
    BY <1>1, PostsKeep, CallsKeep DEF Application
<1>2. CASE Service
    BY <1>2, TimerRunsKeeps, TimerPushesKeeps, TakeKeeps, ExecuteKeeps, TickKeeps DEF Service
<1>3. CASE GotIp \/ GotIp6 \/ Disconnected
    BY <1>3, NetworkKeeps
<1>4. CASE PacketComes
    BY <1>4, PacketComesKeeps
<1>5. CASE UNCHANGED vars
    BY <1>5, StutterKeeps
<1> QED
    BY <1>1, <1>2, <1>3, <1>4, <1>5 DEF Next

\* A packet with a freed string is the probe of a pcb that is probing.
LEMMA SoundAsks ==
    ASSUME IInv, NEW k \in DOMAIN st.tx, NEW i \in DOMAIN st.tx[k].qs, st.tx[k].qs[i].of = Freed
    PROVE  LET p == st.tx[k]
               b == p.pcb
           IN  b \in Pcbs /\ b \in ProbingPcbs /\ ProbesFor(p, b, st.pcb[b], st.svc, {})
<1> DEFINE t == st.tx
           p == t[k]
           b == p.pcb
           r == st.pcb[b]
           svc == st.svc
           none == {}
<1>1. b \in Pcbs
    BY DEF IInv, Sound, Fit, Refs, PacketFits, IsPacket
<1>2. Covered(st, b)
    BY <1>1 DEF IInv, Sound, Fit
<1>3. ~AllPlain(t, b)
    BY NullAssumption DEF AllPlain, Plain
<1>4. Probing(r) /\ b \in st.ready /\ Alone(t, b)
    BY <1>2, <1>3 DEF Covered, CoveredBy
<1>5. PICK j \in DOMAIN t : ProbesFor(t[j], b, r, svc, none)
    BY <1>2, <1>4 DEF Covered, CoveredBy
<1>6. j = k
  <2>1. t[j].pcb = b
      BY <1>5 DEF ProbesFor
  <2> QED
      BY <1>4, <2>1 DEF Alone
<1>7. b \in ProbingPcbs
    BY <1>4 DEF ProbingPcbs, Probing
<1> QED
    BY <1>1, <1>5, <1>6, <1>7

\* One question of a service has freed strings, and then no other is for that service.
LEMMA FreedOnes ==
    ASSUME NEW qs, NEW V, NEW svc, V \subseteq Svcs, Named(qs, V, svc, {}),
           NEW i \in DOMAIN qs, qs[i].of = Freed, ~IsOfHost(qs[i])
    PROVE  \E s \in V : svc[s].type = qs[i].svc /\ \A j \in DOMAIN qs : qs[j].of = s => IsOfHost(qs[j])
<1>1. PICK g \in [V -> DOMAIN qs] : NamedBy(g, qs, V, svc, {})
    BY DEF Named
<1>2. PICK s \in V : g[s] = i
    BY <1>1 DEF NamedBy
<1>3. svc[s].type = qs[i].svc
    BY <1>1, <1>2 DEF NamedBy, StandsFor
<1>4. ASSUME NEW j \in DOMAIN qs, qs[j].of = s, ~IsOfHost(qs[j]) PROVE FALSE
  <2>1. PICK v \in V : g[v] = j
      BY <1>1, <1>4 DEF NamedBy
  <2>2. qs[j].of \in {v, Freed}
      BY <1>1, <2>1 DEF NamedBy, StandsFor
  <2>3. s \in Svcs /\ s # Freed
      BY NullAssumption
  <2>4. v = s
      BY <1>4, <2>2, <2>3
  <2>5. j = i
      BY <1>2, <2>1, <2>4
  <2> QED
      BY <1>4, <2>3, <2>5
<1> QED
    BY <1>3, <1>4

\* What is sound has freed strings in probes only, where a removal left them.
LEMMA SoundFrees == ASSUME IInv PROVE FreedAreProbes
<1>1. ASSUME NEW k \in DOMAIN st.tx, NEW i \in DOMAIN st.tx[k].qs, st.tx[k].qs[i].of = Freed
      PROVE  LET p == st.tx[k]
                 q == p.qs[i]
             IN  /\ p.pcb \in ProbingPcbs
                 /\ IF q.svc = None THEN st.pcb[p.pcb].ip
                    ELSE \E s \in Range(st.pcb[p.pcb].services) :
                           st.svc[s].type = q.svc /\ ~AsksFor(p, s)
  <2> DEFINE p == st.tx[k]
             qs == p.qs
             b == p.pcb
             V == Range(st.pcb[b].services)
             svc == st.svc
  <2>1. b \in Pcbs /\ b \in ProbingPcbs /\ ProbesFor(p, b, st.pcb[b], svc, {})
      BY <1>1, SoundAsks
  <2>2. (st.pcb[b].ip <=> AsksHost(qs)) /\ Named(qs, V, svc, {})
      BY <2>1 DEF ProbesFor, AsksEnough, Enough
  <2>3. V \subseteq Svcs
      BY <2>1 DEF IInv, Sound, Fit, Refs, Typed
  <2>4. CASE qs[i].svc = None
    <3>1. AsksHost(qs)
        BY <1>1, <2>4 DEF AsksHost, IsOfHost
    <3> QED
        BY <2>1, <2>2, <2>4, <3>1
  <2>5. CASE qs[i].svc # None
    <3> HIDE DEF V, svc
    <3>1. i \in DOMAIN qs /\ qs[i].of = Freed /\ ~IsOfHost(qs[i])
        BY <1>1, <2>5 DEF IsOfHost
    <3>2. PICK s \in V : svc[s].type = qs[i].svc
                         /\ \A j \in DOMAIN qs : qs[j].of = s => IsOfHost(qs[j])
      <4> HIDE DEF qs
      <4> QED
          BY <2>2, <2>3, <3>1, FreedOnes
    <3>3. ~AsksFor(p, s)
        BY <3>2 DEF AsksFor, IsOfHost, Range
    <3> QED
        BY <2>1, <2>5, <3>2, <3>3 DEF V, svc
  <2> QED
      BY <2>4, <2>5
<1> QED
    BY <1>1 DEF FreedAreProbes, Range

\* What is sound refers to no service that is gone.
LEMMA SoundRefers == IInv => NoDanglingService
<1> SUFFICES ASSUME IInv PROVE NoDanglingService
    OBVIOUS
<1>1. Refs(st, Live)
    BY DEF IInv, Sound, Fit, Live
<1>2. ASSUME NEW k \in DOMAIN st.tx, NEW a \in Answers(st.tx[k]) PROVE a.svc = None \/ a.svc \in Live
  <2> DEFINE p == st.tx[k]
  <2>1. Refers(p.answers, Live) /\ Refers(p.servers, Live) /\ Refers(p.additional, Live)
      BY <1>1 DEF Refs, PacketFits
  <2>2. a \in Range(p.answers) \/ a \in Range(p.servers) \/ a \in Range(p.additional)
      BY DEF Answers
  <2> HIDE DEF p
  <2>3. a.svc \in Live \cup {None}
      BY <2>1, <2>2 DEF Refers, Range
  <2> QED
      BY <2>3
<1>3. \A p \in Range(st.tx) : \A a \in Answers(p) : a.svc = None \/ a.svc \in Live
    BY <1>2 DEF Range
<1>4. \A b \in Pcbs : \A s \in Range(st.pcb[b].services) : s \in Live
    BY <1>1 DEF Refs
<1>5. AnswersAreLive
    BY <1>3, <1>4 DEF AnswersAreLive
<1>6. FreedAreProbes
    BY SoundFrees
<1> QED
    BY <1>5, <1>6 DEF NoDanglingService

\* What is sound is whole, and what is marked as handed over has been.
LEMMA SoundQueues == IInv => TxQueueInv
<1> SUFFICES ASSUME IInv PROVE TxQueueInv
    OBVIOUS
<1> DEFINE t == st.tx
<1>1. IsServer(st) /\ QueueFits(t, Line, failed) /\ IsLine(queue) /\ IsList(t)
    BY DEF IInv, Sound, Fit, LineInv, IsServer
<1>2. IsInjective([i \in DOMAIN t |-> t[i].id])
  <2>1. Apart(t)
      BY <1>1 DEF QueueFits
  <2> HIDE DEF t
  <2> QED
      BY <2>1 DEF Apart, IsInjective
<1>3. TypeOK
  <2>1. \A b \in Pcbs : st.pcb[b].state \in Off .. Running
      BY <1>1 DEF IsServer, IsPcb
  <2>2. Len(queue) <= QueueLen
      BY <1>1 DEF IsLine
  <2>3. (scan = 0 \/ scan \in DOMAIN st.tx) /\ st.out = <<>>
      BY DEF IInv, ScanInv
  <2> QED
      BY <1>2, <2>1, <2>2, <2>3 DEF TypeOK
<1>4. ASSUME t # <<>>, IsQueued(Head(t)), ~failed
      PROVE  \E a \in Range(queue) \cup {running} : TxAction(a, Head(t).id)
  <2> DEFINE w == Line
             p == t[1]
  <2>1. Head(t) = p /\ 1 \in DOMAIN t
      BY <1>1, <1>4, TailIs, ListIs
  <2>2. PICK f \in [HandedPart(t) -> DOMAIN w] : InLine(t, w, f)
      BY <1>1, <1>4 DEF QueueFits, Handed
  <2>3. 1 \in HandedPart(t)
      BY <1>4, <2>1 DEF HandedPart
  <2>4. f[1] \in DOMAIN w /\ IsFor(w[f[1]], p)
      BY <2>2, <2>3 DEF InLine
  <2> DEFINE a == w[f[1]]
  <2>5. a \in Range(queue) \/ (a = running /\ running # None)
    <3>1. CASE running = None
        BY <2>4, <3>1 DEF Line, Range
    <3>2. CASE running # None
      <4>1. w = <<running>> \o queue /\ IsList(queue)
          BY <1>1, <3>2 DEF Line, IsLine
      <4>2. Len(queue) \in Nat /\ DOMAIN queue = 1 .. Len(queue)
          BY <4>1, ListIs
      <4> HIDE DEF w
      <4>3. DOMAIN w = 1 .. 1 + Len(queue) /\ w[1] = running
          BY <4>1, InFrontIs
      <4>4. \A i \in 1 .. Len(queue) : w[1 + i] = queue[i]
          BY <4>1, InFrontIs
      <4>5. CASE f[1] = 1
          BY <3>2, <4>3, <4>5
      <4>6. CASE f[1] # 1
        <5>1. f[1] - 1 \in 1 .. Len(queue) /\ 1 + (f[1] - 1) = f[1]
            BY <2>4, <4>2, <4>3, <4>6
        <5>2. w[f[1]] = queue[f[1] - 1]
            BY <4>4, <5>1
        <5> QED
            BY <4>2, <5>1, <5>2 DEF Range
      <4> QED
          BY <4>5, <4>6
    <3> QED
        BY <3>1, <3>2
  <2> HIDE DEF a, w
  <2>6. a # None
    <3>1. \A e \in Range(queue) : IsAction(e)
        BY <1>1 DEF IsLine, Range
    <3> QED
        BY <2>4, <2>5, <3>1 DEF IsAction, IsFor, a
  <2>7. TxAction(a, p.id)
      BY <2>4, <2>6 DEF TxAction, IsFor, a
  <2> QED
      BY <2>1, <2>5, <2>7
<1>5. HeadIsHandedOver
    BY <1>4 DEF HeadIsHandedOver, IsQueued
<1> QED
    BY <1>3, <1>5 DEF TxQueueInv

\* What is sound has, for each pcb that probes, its probe and nothing else of it queued.
LEMMA SoundProbes == IInv => ProbesAlone
<1> SUFFICES ASSUME IInv, NEW b \in ProbingPcbs
             PROVE  \E k \in DOMAIN st.tx : Mine(b) = {k} /\ IsProbeOf(st.tx[k], b)
    BY DEF ProbesAlone
<1> DEFINE r == st.pcb[b]
           V == Range(r.services)
           svc == st.svc
<1>1. b \in Pcbs /\ Probing(r)
    BY DEF IInv, Sound, Fit, IsServer, ProbingPcbs, Probing
<1>2. Alone(st.tx, b) /\ \E k \in DOMAIN st.tx : ProbesFor(st.tx[k], b, r, svc, {})
    BY <1>1 DEF IInv, Sound, Fit, Covered, CoveredBy
<1>3. PICK k \in DOMAIN st.tx : ProbesFor(st.tx[k], b, r, svc, {})
    BY <1>2
<1> DEFINE qs == st.tx[k].qs
<1>4. st.tx[k].pcb = b /\ qs # <<>> /\ (r.ip <=> AsksHost(qs)) /\ Named(qs, V, svc, {})
    BY <1>3 DEF ProbesFor, AsksEnough, Enough
<1>5. Mine(b) = {k}
    BY <1>2, <1>4 DEF Alone, Mine
<1>6. ASSUME NEW s \in V
      PROVE  \/ \E j \in DOMAIN qs : qs[j].of = s /\ qs[j].svc # None
             \/ \E j \in DOMAIN qs : qs[j].of = Freed /\ qs[j].svc = svc[s].type
  <2> HIDE DEF qs, V, svc
  <2>1. PICK g \in [V -> DOMAIN qs] : NamedBy(g, qs, V, svc, {})
      BY <1>4 DEF Named
  <2>2. StandsFor(qs[g[s]], s, svc, {}) /\ g[s] \in DOMAIN qs
      BY <2>1, <1>6 DEF NamedBy
  <2>3. qs[g[s]].svc = svc[s].type /\ qs[g[s]].svc # None /\ qs[g[s]].of \in {s, Freed}
      BY <2>2 DEF StandsFor, IsOfHost
  <2> QED
      BY <2>2, <2>3
<1>7. ASSUME NEW s \in V
      PROVE  AsksFor(st.tx[k], s) \/ \E q \in Range(qs) : q.of = Freed /\ q.svc = svc[s].type
    BY <1>6 DEF AsksFor, Range
<1>8. AsksHost(qs) <=> \E q \in Range(qs) : q.svc = None
    BY DEF AsksHost, IsOfHost, Range
<1>9. IsProbeOf(st.tx[k], b)
    BY <1>4, <1>7, <1>8 DEF IsProbeOf
<1> QED
    BY <1>5, <1>9

\* Every step of the service keeps its server sound.
THEOREM Invariant == Spec => []IInv
<1>1. IInv /\ [Next]_vars => IInv'
    BY NextKeeps
<1> QED
    BY <1>1, InitHolds, PTL DEF Spec

\* However the calls, the timer, the network and the packets received interleave with the
\* task, no answer that waits to be sent and no pcb that probes refers to a service that has
\* been freed (free_service, mdns_responder.c:406).  A question has freed strings only in the
\* probe of a pcb that is still probing: for a host name, or for a type of which a service
\* that is still probed for has lost its own question (mdns_send.c:1796-1815).
THEOREM NoDanglingServiceHolds == Spec => []NoDanglingService
BY Invariant, SoundRefers, PTL

\* The action queue never outgrows its length, the timer's walk stays inside the packet
\* queue, packets can be told apart, and a first packet that is marked as handed to the task
\* has its action in the queue or is being executed, unless a push found the queue full.
THEOREM TxQueueInvHolds == Spec => []TxQueueInv
BY Invariant, SoundQueues, PTL

\* A pcb that probes has one packet in the queue, its probe.  It asks for each service that
\* is probed for, or in its place for a removed one of the type, and for a host name exactly
\* if the pcb probes for that, whatever services were removed or renamed and whatever answers
\* came while it waited to be sent (mdns_priv_init_pcb_probe, mdns_pcb.c:389, and
\* mdns_priv_remove_scheduled_service_packets, mdns_send.c:1778).
THEOREM ProbesAloneHolds == Spec => []ProbesAlone
BY Invariant, SoundProbes, PTL
=============================================================================
