-------------------------- MODULE MdnsClientProofs --------------------------
(***************************************************************************)
(* What MdnsClient.tla promises of searches and of browses holds for every *)
(* number of them, every set of queries and packets and every length of    *)
(* the queue.                                                              *)
(*                                                                         *)
(* The argument is about the line, the action the task executes followed   *)
(* by those that wait.  A search or browse that waits to be added is as it *)
(* was made, and no search_end in the line comes after its search_add: an  *)
(* address that is taken again cannot be finished by what was posted for   *)
(* the search before.  What is in the list is there, because a search      *)
(* leaves it before it is freed.  A packet is parsed record by record; what *)
(* is so after every record (Parsing) says that searches only grow, and    *)
(* that what changes in a cache is noted; what is noted is posted, unless  *)
(* the queue is full, and what is posted is told.                          *)
(***************************************************************************)
EXTENDS MdnsClient, FiniteSetTheorems, TLAPS

-----------------------------------------------------------------------------
(* Counting, recursive definitions, and the list without what is gone.       *)

\* Counting up: a set that holds 0 and, with i, i + 1, holds all of 0 .. n.
LEMMA UpFromZero ==
    ASSUME NEW n \in Nat, NEW T, 0 \in T,
           \A i \in 0 .. n - 1 : i \in T => i + 1 \in T
    PROVE  0 .. n \subseteq T
<1> DEFINE M == {i \in 0 .. n : i \notin T}
           W == {0 .. i : i \in M}
           F == FiniteSubsetsOf(0 .. n)
<1> SUFFICES ASSUME M # {} PROVE FALSE
    OBVIOUS
<1>1. W \subseteq F /\ W # {}
  <2>1. ASSUME NEW i \in M PROVE 0 .. i \in F
    <3>1. 0 .. i \subseteq 0 .. n
        OBVIOUS
    <3>2. IsFiniteSet(0 .. i)
        BY FS_Interval
    <3> QED
        BY <3>1, <3>2 DEF FiniteSubsetsOf
  <2> QED
    BY <2>1
<1>2. IsWellFoundedOn(StrictSubsetOrdering(0 .. n), F)
    BY FS_Interval, FS_StrictSubsetOrderingWellFounded
<1>3. PICK X \in W : \A Y \in W : ~(<<Y, X>> \in StrictSubsetOrdering(0 .. n))
  <2> HIDE DEF W, F
  <2> QED
    BY <1>1, <1>2, WFMin
<1>4. PICK m \in M : X = 0 .. m
    BY <1>3
<1>5. m # 0 /\ m - 1 \in M
    BY <1>4
<1>6. <<0 .. m - 1, X>> \in StrictSubsetOrdering(0 .. n)
    BY <1>4, <1>5 DEF StrictSubsetOrdering
<1> QED
    BY <1>3, <1>5, <1>6

\* What a recursive definition over 0 .. n promises exists.
Recurs(n, a, step, g) == g[0] = a /\ \A i \in 1 .. n : g[i] = step[<<i, g[i - 1]>>]
\* A function that is defined by its value at 0 and a step from i - 1 to i is there.
LEMMA Recursion ==
    ASSUME NEW n \in Nat, NEW S, NEW a \in S, NEW step \in [(1 .. n) \X S -> S]
    PROVE  \E g \in [0 .. n -> S] : Recurs(n, a, step, g)
<1> DEFINE Is(k, g) == Recurs(k, a, step, g)
           T == {k \in 0 .. n : \E g \in [0 .. k -> S] : Is(k, g)}
<1>1. 0 \in T
  <2> DEFINE g == [j \in 0 .. 0 |-> a]
  <2>1. g \in [0 .. 0 -> S] /\ Is(0, g)
      BY DEF Recurs
  <2> HIDE DEF g, Is
  <2> QED
      BY <2>1
<1>2. ASSUME NEW i \in 0 .. n - 1, i \in T PROVE i + 1 \in T
  <2>1. PICK g \in [0 .. i -> S] : Is(i, g)
      BY <1>2
  <2> DEFINE h == [j \in 0 .. i + 1 |-> IF j <= i THEN g[j] ELSE step[<<i + 1, g[i]>>]]
  <2>2. h \in [0 .. i + 1 -> S]
      BY <2>1
  <2>3. \A j \in 0 .. i : h[j] = g[j]
      OBVIOUS
  <2>4. h[i + 1] = step[<<i + 1, g[i]>>]
      OBVIOUS
  <2>5. Is(i + 1, h)
    <3> HIDE DEF h
    <3>1. ASSUME NEW j \in 1 .. i + 1 PROVE h[j] = step[<<j, h[j - 1]>>]
      <4>1. CASE j = i + 1
          BY <4>1, <2>3, <2>4
      <4>2. CASE j \in 1 .. i
          BY <4>2, <2>1, <2>3 DEF Recurs
      <4> QED
          BY <4>1, <4>2
    <3> QED
        BY <2>1, <2>3, <3>1 DEF Recurs
  <2> QED
    <3> HIDE DEF h, Is
    <3> QED
        BY <2>2, <2>5
<1>3. 0 .. n \subseteq T
  <2> HIDE DEF T
  <2> QED
      BY <1>1, <1>2, UpFromZero
<1> QED
    BY <1>3

\* The first of a set of positions.
LEMMA MinIn ==
    ASSUME NEW n \in Nat, NEW I \in SUBSET (1 .. n), I # {}
    PROVE  Min(I) \in I /\ \A i \in I : Min(I) <= i
<1> DEFINE T == {i \in 0 .. n : \A j \in I : j > i}
<1>1. 0 \in T
    OBVIOUS
<1>2. SUFFICES ASSUME ~(\E m \in I : \A i \in I : m <= i) PROVE FALSE
    BY DEF Min
<1>3. \A i \in 0 .. n - 1 : i \in T => i + 1 \in T
    BY <1>2
<1>4. 0 .. n \subseteq T
  <2> HIDE DEF T
  <2> QED
      BY <1>1, <1>3, UpFromZero
<1>5. PICK i \in I : TRUE
    OBVIOUS
<1>6. i \in T
    BY <1>4
<1> QED
    BY <1>5, <1>6

\* What has been kept of the first i of a list: every element of it comes from a place of
\* its own and is not gone, and whatever is not gone is there.
KeptOf(list, gone, i, w) ==
    /\ \A j \in 1 .. i : list[j] \notin gone => list[j] \in Range(w)
    /\ \E h \in [DOMAIN w -> 1 .. i] :
         IsInjective(h) /\ \A j \in DOMAIN w : w[j] = list[h[j]] /\ w[j] \notin gone

\* The next element of the list is kept too.
LEMMA KeptMore ==
    ASSUME NEW E, NEW list \in Seq(E), NEW gone, NEW i \in 0 .. Len(list) - 1,
           NEW w \in Seq(E), KeptOf(list, gone, i, w), list[i + 1] \notin gone
    PROVE  KeptOf(list, gone, i + 1, Append(w, list[i + 1]))
<1> DEFINE v == Append(w, list[i + 1])
           n == Len(w)
<1>1. /\ i \in Nat /\ n \in Nat /\ DOMAIN w = 1 .. n /\ DOMAIN v = 1 .. n + 1
      /\ \A j \in 1 .. n : v[j] = w[j]
      /\ v[n + 1] = list[i + 1]
    OBVIOUS
<1>2. PICK h \in [DOMAIN w -> 1 .. i] :
        IsInjective(h) /\ \A j \in DOMAIN w : w[j] = list[h[j]] /\ w[j] \notin gone
    BY DEF KeptOf
<1> HIDE DEF v, n
<1> DEFINE k == [j \in 1 .. n + 1 |-> IF j = n + 1 THEN i + 1 ELSE h[j]]
<1>3. k \in [DOMAIN v -> 1 .. i + 1] /\ IsInjective(k)
  <2>1. /\ \A j \in 1 .. n : k[j] = h[j] /\ k[j] \in 1 .. i
        /\ k[n + 1] = i + 1
      BY <1>1, <1>2
  <2>2. k \in [1 .. n + 1 -> 1 .. i + 1]
      BY <1>1, <1>2
  <2> HIDE DEF k
  <2>3. \A a, b \in 1 .. n : k[a] = k[b] => a = b
      BY <1>1, <1>2, <2>1 DEF IsInjective
  <2>4. \A a \in 1 .. n : k[a] # k[n + 1]
      BY <1>1, <2>1
  <2>5. \A a \in 1 .. n + 1 : a \in 1 .. n \/ a = n + 1
      BY <1>1
  <2> QED
      BY <1>1, <2>2, <2>3, <2>4, <2>5 DEF IsInjective
<1>4. \A j \in DOMAIN v : v[j] = list[k[j]] /\ v[j] \notin gone
    BY <1>1, <1>2
<1> HIDE DEF k
<1>5. \E x \in [DOMAIN v -> 1 .. i + 1] :
        IsInjective(x) /\ \A j \in DOMAIN v : v[j] = list[x[j]] /\ v[j] \notin gone
    BY <1>3, <1>4
<1>6. Range(w) \subseteq Range(v) /\ list[i + 1] \in Range(v)
  <2>1. n + 1 \in DOMAIN v /\ \A j \in DOMAIN w : j \in DOMAIN v /\ v[j] = w[j]
      BY <1>1
  <2> QED
      BY <1>1, <2>1 DEF Range
<1>7. \A j \in 1 .. i : list[j] \notin gone => list[j] \in Range(w)
    BY DEF KeptOf
<1>8. \A j \in 1 .. i + 1 : list[j] \notin gone => list[j] \in Range(v)
    BY <1>1, <1>6, <1>7
<1> QED
    BY <1>5, <1>8 DEF KeptOf, v

\* The list without what is gone holds the rest of it, each as often as before.
LEMMA WithoutIs ==
    ASSUME NEW E, NEW list \in Seq(E), NEW gone
    PROVE  LET w == Without(list, gone)
           IN  /\ w \in Seq(E) /\ Range(w) = {e \in Range(list) : e \notin gone}
               /\ IsInjective(list) => IsInjective(w)
<1> DEFINE n == Len(list)
           step == [iw \in (1 .. n) \X Seq(E) |->
                      IF list[iw[1]] \in gone THEN iw[2] ELSE Append(iw[2], list[iw[1]])]
           Kept(g, i) == IF i = 0 THEN <<>>
                         ELSE IF list[i] \in gone THEN g[i - 1] ELSE Append(g[i - 1], list[i])
           kept == CHOOSE g : g = [i \in 0 .. n |-> Kept(g, i)]
<1>1. n \in Nat /\ DOMAIN list = 1 .. n /\ \A i \in 1 .. n : list[i] \in E
    OBVIOUS
<1>0. Without(list, gone) = kept[n]
    BY DEF Without
<1>2. step \in [(1 .. n) \X Seq(E) -> Seq(E)]
    OBVIOUS
<1>3. ASSUME NEW i \in 1 .. n, NEW w \in Seq(E)
      PROVE  step[<<i, w>>] = IF list[i] \in gone THEN w ELSE Append(w, list[i])
    OBVIOUS
<1> HIDE DEF n, step, kept
<1>4. PICK g \in [0 .. n -> Seq(E)] : Recurs(n, <<>>, step, g)
  <2>1. <<>> \in Seq(E)
      OBVIOUS
  <2> QED
      BY <1>1, <1>2, <2>1, Recursion
<1>5. g = [i \in 0 .. n |-> Kept(g, i)]
  <2>1. ASSUME NEW i \in 0 .. n PROVE g[i] = Kept(g, i)
    <3>1. CASE i = 0
        BY <1>4, <3>1 DEF Recurs
    <3>2. CASE i \in 1 .. n
      <4>1. g[i] = step[<<i, g[i - 1]>>]
          BY <1>4, <3>2 DEF Recurs
      <4>2. g[i - 1] \in Seq(E) /\ i # 0
          BY <1>1, <1>4, <3>2
      <4> QED
          BY <1>3, <3>2, <4>1, <4>2
    <3> QED
        BY <1>1, <3>1, <3>2
  <2> QED
      BY <2>1
<1>6. kept = [i \in 0 .. n |-> Kept(kept, i)]
  <2> HIDE DEF Kept
  <2> QED
      BY <1>5 DEF kept
<1>7. /\ kept[0] = <<>>
      /\ \A i \in 0 .. n - 1 :
           kept[i + 1] = IF list[i + 1] \in gone THEN kept[i] ELSE Append(kept[i], list[i + 1])
  <2>1. \A i \in 0 .. n : kept[i] = Kept(kept, i)
      BY <1>6
  <2>2. kept[0] = Kept(kept, 0)
      BY <1>1, <2>1
  <2>3. \A i \in 0 .. n - 1 : i + 1 \in 0 .. n /\ i + 1 # 0 /\ (i + 1) - 1 = i
      BY <1>1
  <2> QED
      BY <2>1, <2>2, <2>3
<1> DEFINE Right(i) == kept[i] \in Seq(E) /\ KeptOf(list, gone, i, kept[i])
           T == {i \in 0 .. n : Right(i)}
<1>8. Right(0)
  <2>2. KeptOf(list, gone, 0, <<>>)
    <3>1. <<>> \in [DOMAIN <<>> -> 1 .. 0] /\ IsInjective(<<>>) /\ DOMAIN <<>> = {}
        BY DEF IsInjective
    <3>2. 1 .. 0 = {}
        OBVIOUS
    <3> DEFINE w == <<>>
    <3> HIDE DEF w
    <3>3. KeptOf(list, gone, 0, w)
        BY <3>1, <3>2 DEF KeptOf, w
    <3> QED
        BY <3>3 DEF w
  <2> QED
      BY <1>7, <2>2
<1>9. ASSUME NEW i \in 0 .. n - 1, Right(i) PROVE Right(i + 1)
  <2>1. i + 1 \in 1 .. n /\ i \in Nat /\ list[i + 1] \in E
      BY <1>1
  <2>2. kept[i] \in Seq(E) /\ KeptOf(list, gone, i, kept[i])
      BY <1>9
  <2>3. CASE list[i + 1] \in gone
    <3>1. kept[i + 1] = kept[i]
        BY <1>7, <2>3
    <3>2. KeptOf(list, gone, i + 1, kept[i])
      <4>1. PICK h \in [DOMAIN kept[i] -> 1 .. i] : IsInjective(h)
                 /\ \A j \in DOMAIN kept[i] : kept[i][j] = list[h[j]] /\ kept[i][j] \notin gone
          BY <2>2 DEF KeptOf
      <4>2. h \in [DOMAIN kept[i] -> 1 .. i + 1]
          BY <2>1, <4>1
      <4>3. \A j \in 1 .. i + 1 : j \in 1 .. i \/ j = i + 1
          BY <2>1
      <4>4. \A j \in 1 .. i : list[j] \notin gone => list[j] \in Range(kept[i])
          BY <2>2 DEF KeptOf
      <4> QED
          BY <2>3, <4>1, <4>2, <4>3, <4>4 DEF KeptOf
    <3> QED
        BY <2>2, <3>1, <3>2
  <2>4. CASE list[i + 1] \notin gone
    <3>1. kept[i + 1] = Append(kept[i], list[i + 1])
        BY <1>7, <2>4
    <3>2. KeptOf(list, gone, i + 1, kept[i + 1])
        BY <2>2, <2>4, <3>1, KeptMore DEF n
    <3> QED
        BY <2>1, <2>2, <3>1, <3>2
  <2> QED
      BY <2>3, <2>4
<1>10. Right(n)
  <2> HIDE DEF Right
  <2>1. 0 \in T
      BY <1>1, <1>8
  <2>2. \A i \in 0 .. n - 1 : i \in T => i + 1 \in T
      BY <1>1, <1>9
  <2>3. 0 .. n \subseteq T
    <3> HIDE DEF T
    <3> QED
        BY <1>1, <2>1, <2>2, UpFromZero
  <2> QED
      BY <1>1, <2>3
<1>11. PICK h \in [DOMAIN kept[n] -> 1 .. n] : IsInjective(h)
         /\ \A j \in DOMAIN kept[n] : kept[n][j] = list[h[j]] /\ kept[n][j] \notin gone
    BY <1>10 DEF KeptOf
<1>12. kept[n] \in Seq(E) /\ \A j \in 1 .. n : list[j] \notin gone => list[j] \in Range(kept[n])
    BY <1>10 DEF KeptOf
<1>13. Range(kept[n]) = {e \in Range(list) : e \notin gone}
    BY <1>1, <1>11, <1>12 DEF Range
<1>14. IsInjective(list) => IsInjective(kept[n])
    BY <1>1, <1>11 DEF IsInjective
<1> QED
    BY <1>0, <1>12, <1>13, <1>14

-----------------------------------------------------------------------------
(* Searches: what a record may do to one.                                     *)

\* Every address of a result of q is one its host has been announced with, or else what
\* a search of this type may get for another host.
Belongs(q, e) ==
    \A ip \in e.addr :
      \/ Announced(e.host, ip)
      \/ q.type \in {"A", "ANY"} /\ (Announced(q.name, ip) \/ AnnouncedAsOwn(ip))
\* What is so of every search: no more results than it may get, and addresses that belong
\* to their host (mdns_priv_query_result_add_ip and its callers).
Good(q) ==
    /\ q.max # 0 => Len(q.results) <= q.max
    /\ \A i \in DOMAIN q.results : Belongs(q, q.results[i])
\* q is what p may have become while a packet was parsed.
Grown(p, q) ==
    /\ q \in SearchType /\ Good(q)
    /\ q.type = p.type /\ q.name = p.name /\ q.svc = p.svc /\ q.max = p.max /\ q.async = p.async
    /\ q.state = p.state /\ q.done = p.done /\ q.expired = p.expired /\ q.due = p.due
    /\ q.ended = p.ended

\* What has grown may grow again.
LEMMA GrownTwice ==
    ASSUME NEW p, NEW q, NEW r, Grown(p, q), Grown(q, r)
    PROVE  Grown(p, r)
BY DEF Grown

\* A result that is put in front of the others: none beyond the limit (add_result).
LEMMA NewResult ==
    ASSUME NEW q \in SearchType, Good(q), NEW e \in ResultType, Belongs(q, e)
    PROVE  Grown(q, AddResult(q, e))
<1>1. CASE ~HasRoom(q)
    BY <1>1 DEF AddResult, Grown
<1>2. CASE HasRoom(q)
  <2> DEFINE res == <<e>> \o q.results
             y == [q EXCEPT !.results = res]
  <2>1. q.results \in Seq(ResultType) /\ q.max \in Nat
      BY DEF SearchType
  <2>2. /\ res \in Seq(ResultType) /\ Len(res) = Len(q.results) + 1
        /\ \A i \in DOMAIN res : res[i] = e \/ \E j \in DOMAIN q.results : res[i] = q.results[j]
    <3>1. \A i \in DOMAIN res : i = 1 \/ i - 1 \in DOMAIN q.results
        BY <2>1
    <3>2. \A i \in DOMAIN res : res[i] = IF i = 1 THEN e ELSE q.results[i - 1]
        BY <2>1
    <3> QED
        BY <2>1, <3>1, <3>2
  <2> HIDE DEF res
  <2>3. /\ y \in SearchType /\ y.results = res
        /\ y.type = q.type /\ y.name = q.name /\ y.svc = q.svc /\ y.max = q.max
        /\ y.async = q.async /\ y.state = q.state /\ y.done = q.done
        /\ y.expired = q.expired /\ y.due = q.due /\ y.ended = q.ended
      BY <2>2 DEF SearchType
  <2>4. AddResult(q, e) = y
      BY <1>2 DEF AddResult, res
  <2> HIDE DEF y
  <2>5. q.max # 0 => Len(res) <= q.max
      BY <1>2, <2>1, <2>2 DEF HasRoom
  <2>6. \A i \in DOMAIN res : Belongs(q, res[i])
      BY <2>2 DEF Good
  <2>7. \A f : Belongs(q, f) => Belongs(y, f)
      BY <2>3 DEF Belongs
  <2>8. Good(y)
      BY <2>3, <2>5, <2>6, <2>7 DEF Good
  <2> QED
      BY <2>3, <2>4, <2>8 DEF Grown
<1> QED
    BY <1>1, <1>2

\* A result that becomes another of the same host.
LEMMA ChangedResult ==
    ASSUME NEW q \in SearchType, Good(q), NEW k \in DOMAIN q.results,
           NEW e \in ResultType,
           Belongs(q, e)
    PROVE  Grown(q, [q EXCEPT !.results[k] = e])
<1> DEFINE res == [q.results EXCEPT ![k] = e]
           y == [q EXCEPT !.results = res]
<1>1. q.results \in Seq(ResultType) /\ q.max \in Nat
    BY DEF SearchType
<1>2. /\ res \in Seq(ResultType) /\ Len(res) = Len(q.results) /\ DOMAIN res = DOMAIN q.results
      /\ \A i \in DOMAIN res : res[i] = IF i = k THEN e ELSE q.results[i]
    BY <1>1
<1> HIDE DEF res
<1>3. /\ y \in SearchType /\ y.results = res
      /\ y.type = q.type /\ y.name = q.name /\ y.svc = q.svc /\ y.max = q.max
      /\ y.async = q.async /\ y.state = q.state /\ y.done = q.done
      /\ y.expired = q.expired /\ y.due = q.due /\ y.ended = q.ended
    BY <1>2 DEF SearchType
<1>4. [q EXCEPT !.results[k] = e] = y
    BY DEF SearchType, res
<1> HIDE DEF y
<1>5. \A f : Belongs(q, f) => Belongs(y, f)
    BY <1>3 DEF Belongs
<1>6. Good(y)
    BY <1>2, <1>3, <1>5 DEF Good
<1> QED
    BY <1>3, <1>4, <1>6 DEF Grown

\* A PTR record adds an instance with no address (mdns_priv_query_result_add_ptr).
LEMMA AddPtrGrows ==
    ASSUME NEW q \in SearchType, Good(q), NEW inst \in Datum,
           NEW svc \in Datum
    PROVE  Grown(q, QueryAddPtr(q, inst, svc))
<1> DEFINE e == Result(inst, svc, None, {}, None, 0)
<1>1. e \in ResultType /\ Belongs(q, e)
    BY DEF ResultType, Result, Belongs, Datum
<1> HIDE DEF e
<1>2. Grown(q, AddResult(q, e)) /\ Grown(q, q)
    BY <1>1, NewResult DEF Grown
<1> QED
    BY <1>2 DEF QueryAddPtr, e

\* An SRV record adds a host with no address (mdns_priv_query_result_add_srv).
LEMMA AddSrvGrows ==
    ASSUME NEW q \in SearchType, Good(q), NEW host \in Datum
    PROVE  Grown(q, QueryAddSrv(q, host))
<1> DEFINE e == Result(q.name, q.svc, host, {}, None, 0)
<1>1. e \in ResultType /\ Belongs(q, e)
    BY DEF ResultType, Result, Belongs, Datum, SearchType
<1> HIDE DEF e
<1>2. Grown(q, AddResult(q, e)) /\ Grown(q, q)
    BY <1>1, NewResult DEF Grown
<1> QED
    BY <1>2 DEF QueryAddSrv, e

\* What keeps host and addresses changes nothing that is said of a result.
LEMMA SameHostBelongs ==
    ASSUME NEW q \in SearchType, Good(q), NEW k \in DOMAIN q.results,
           NEW e \in ResultType, e.host = q.results[k].host, e.addr = q.results[k].addr
    PROVE  Grown(q, [q EXCEPT !.results[k] = e])
<1>1. Belongs(q, e)
    BY DEF Good, Belongs
<1> QED
    BY <1>1, ChangedResult

\* A TXT record adds a result or goes to the first one (mdns_priv_query_result_add_txt).
LEMMA AddTxtGrows ==
    ASSUME NEW q \in SearchType, Good(q), NEW txt \in Datum
    PROVE  Grown(q, QueryAddTxt(q, txt))
<1>1. CASE q.results = <<>>
  <2> DEFINE e == Result(None, None, None, {}, txt, 0)
  <2>1. e \in ResultType /\ Belongs(q, e)
      BY DEF ResultType, Result, Belongs, Datum
  <2> HIDE DEF e
  <2>2. Grown(q, AddResult(q, e))
      BY <2>1, NewResult
  <2> QED
      BY <1>1, <2>2 DEF QueryAddTxt, e
<1>2. CASE q.results # <<>>
  <2>1. q.results \in Seq(ResultType)
      BY DEF SearchType
  <2>2. 1 \in DOMAIN q.results /\ q.results[1] \in ResultType
      BY <1>2, <2>1
  <2> DEFINE e == [q.results[1] EXCEPT !.txt = txt]
  <2>3. e \in ResultType /\ e.host = q.results[1].host /\ e.addr = q.results[1].addr
      BY <2>2 DEF ResultType
  <2>4. [q EXCEPT !.results[1].txt = txt] = [q EXCEPT !.results[1] = e]
      OBVIOUS
  <2> HIDE DEF e
  <2>5. Grown(q, [q EXCEPT !.results[1] = e]) /\ Grown(q, q)
      BY <2>2, <2>3, SameHostBelongs DEF Grown
  <2> QED
      BY <1>2, <2>4, <2>5 DEF QueryAddTxt
<1> QED
    BY <1>1, <1>2

\* No packet announces an address of nobody.
LEMMA NoAddressOfNone ==
    ASSUME NEW q, q.type = "PTR", NEW e, e.host = None, Belongs(q, e) PROVE e.addr = {}
BY ClientAssumption DEF Belongs, Announced, Range

\* An address goes to a result of its host, or makes one: a search for the addresses of a
\* name has results of that name only, whichever is the first (mdns_priv_query_result_add_ip).
LEMMA AddIpGrows ==
    ASSUME NEW q \in SearchType, Good(q), NEW p \in Packets,
           NEW i \in DOMAIN p,
           p[i] \in Record, p[i].type = "A", Wants(q, p[i]) \/ IsOwn(p[i])
    PROVE  Grown(q, QueryAddIp(q, p[i].name, p[i].data))
<1> DEFINE host == p[i].name
           ip == p[i].data
           I == {j \in 1 .. Len(q.results) : q.type \in {"A", "ANY"} \/ q.results[j].host = host}
           k == SelectInSeq(q.results, LAMBDA e : q.type \in {"A", "ANY"} \/ e.host = host)
           new == Result(None, None, host, {ip}, None, 0)
<1>1. /\ host \in Datum /\ ip \in Datum /\ Announced(host, ip)
      /\ IsOwn(p[i]) => AnnouncedAsOwn(ip)
    BY DEF Record, Announced, AnnouncedAsOwn, Range
<1>2. q.type \in {"A", "ANY"} => Announced(q.name, ip) \/ AnnouncedAsOwn(ip)
    BY <1>1 DEF Wants, WantsAddress
<1>3. q.results \in Seq(ResultType)
    BY DEF SearchType
<1>4. k = IF I # {} THEN Min(I) ELSE 0
    BY DEF SelectInSeq
<1>5. I # {} => Min(I) \in I
  <2>1. Len(q.results) \in Nat /\ I \in SUBSET (1 .. Len(q.results))
      BY <1>3
  <2> HIDE DEF I
  <2> QED
      BY <2>1, MinIn
<1> HIDE DEF I, k
<1>6. CASE I # {}
  <2>1. k \in DOMAIN q.results /\ k # 0 /\ (q.type \in {"A", "ANY"} \/ q.results[k].host = host)
      BY <1>3, <1>4, <1>5, <1>6 DEF I
  <2> DEFINE e == [q.results[k] EXCEPT !.addr = @ \cup {ip}]
  <2>3. q.results[k] \in ResultType
      BY <1>3, <2>1
  <2>4. e \in ResultType /\ e.host = q.results[k].host /\ e.addr = q.results[k].addr \cup {ip}
      BY <1>1, <2>3 DEF ResultType
  <2>5. [q EXCEPT !.results[k].addr = @ \cup {ip}] = [q EXCEPT !.results[k] = e]
      OBVIOUS
  <2> HIDE DEF e
  <2>6. Belongs(q, e)
    <3>1. Belongs(q, q.results[k])
        BY <2>1 DEF Good
    <3>2. \/ Announced(e.host, ip)
          \/ q.type \in {"A", "ANY"} /\ (Announced(q.name, ip) \/ AnnouncedAsOwn(ip))
        BY <1>1, <1>2, <2>1, <2>4
    <3>3. \A a \in e.addr : a = ip \/ a \in q.results[k].addr
        BY <2>4
    <3>4. e.host = q.results[k].host
        BY <2>4
    <3> HIDE DEF host, ip
    <3> QED
        BY <3>1, <3>2, <3>3, <3>4 DEF Belongs
  <2>8. Grown(q, [q EXCEPT !.results[k] = e])
      BY <2>1, <2>4, <2>6, ChangedResult
  <2>9. QueryAddIp(q, host, ip) = [q EXCEPT !.results[k].addr = @ \cup {ip}]
      BY <2>1 DEF QueryAddIp, k
  <2> HIDE DEF host, ip
  <2> QED
      BY <2>5, <2>8, <2>9 DEF host, ip
<1>7. CASE I = {} /\ q.type \in {"A", "ANY"}
  <2>1. new \in ResultType /\ Belongs(q, new)
      BY <1>1 DEF ResultType, Result, Belongs, Datum
  <2> HIDE DEF new
  <2>2. Grown(q, AddResult(q, new))
      BY <2>1, NewResult
  <2> QED
      BY <1>4, <1>7, <2>2 DEF QueryAddIp, k, new
<1>8. CASE I = {} /\ q.type \notin {"A", "ANY"}
  <2>1. QueryAddIp(q, host, ip) = q
      BY <1>4, <1>8 DEF QueryAddIp, k
  <2> QED
      BY <2>1 DEF Grown
<1> QED
    BY <1>6, <1>7, <1>8

\* The host and the TXT of an instance that has none yet: a host name that is set for the
\* first time takes over no address.
LEMMA FirstGrows ==
    ASSUME NEW q \in SearchType, Good(q), q.type = "PTR",
           NEW k \in DOMAIN q.results,
           NEW d \in Datum
    PROVE  Grown(q, FirstHost(q, k, d)) /\ Grown(q, FirstTxt(q, k, d))
<1> DEFINE r == q.results[k]
           e == [r EXCEPT !.host = IF @ = None THEN d ELSE @]
           f == [r EXCEPT !.txt = IF @ = None THEN d ELSE @]
<1>1. r \in ResultType /\ Belongs(q, r)
    BY DEF SearchType, Good, Belongs
<1>2. /\ FirstHost(q, k, d) = [q EXCEPT !.results[k] = e]
      /\ FirstTxt(q, k, d) = [q EXCEPT !.results[k] = f]
    BY DEF FirstHost, FirstTxt
<1> HIDE DEF r
<1>3. /\ e \in ResultType /\ e.host = (IF r.host = None THEN d ELSE r.host) /\ e.addr = r.addr
      /\ f \in ResultType /\ f.host = r.host /\ f.addr = r.addr
    BY <1>1 DEF ResultType
<1> HIDE DEF e, f
<1>4. Belongs(q, e) /\ Belongs(q, f)
  <2>1. r.host = None => r.addr = {}
      BY <1>1, NoAddressOfNone
  <2> QED
      BY <1>1, <1>3, <2>1 DEF Belongs
<1> QED
    BY <1>2, <1>3, <1>4, ChangedResult

\* The place of the first element that is looked for.
LEMMA InstanceIndexIn ==
    ASSUME NEW q \in SearchType, NEW r, InstanceIndex(q, r) # 0
    PROVE  InstanceIndex(q, r) \in DOMAIN q.results
<1> DEFINE I == {j \in 1 .. Len(q.results) : q.results[j].inst = r.name}
<1>1. q.results \in Seq(ResultType)
    BY DEF SearchType
<1>2. InstanceIndex(q, r) = IF I # {} THEN Min(I) ELSE 0
    BY DEF InstanceIndex, SelectInSeq
<1>3. I # {} => Min(I) \in I
  <2>1. Len(q.results) \in Nat /\ I \in SUBSET (1 .. Len(q.results))
      BY <1>1
  <2> HIDE DEF I
  <2> QED
      BY <2>1, MinIn
<1> QED
    BY <1>1, <1>2, <1>3

-----------------------------------------------------------------------------
(* Browses: what a record may do to a cache.                                  *)

\* The cache of a browse with the instances that have changed.
CacheType == {c \in [results : Seq(ResultType), changed : Seq(Datum)] : OnePerInstance(c.results)}

\* What the application may learn of an instance, and what it has been told.
SeenAt(results, inst) == {Seen(e) : e \in {f \in Range(results) : f.inst = inst}}
ToldOf(b, inst) == {t \in told[b] : t.inst = inst}

\* A cache with what has changed in it: what is not noted has not changed, no instance is
\* lost, and an instance that is noted is there.
Noting(c, d) ==
    \A i : /\ i \in Range(c.changed) => i \in Range(d.changed)
           /\ i \in Range(d.changed) \/ SeenAt(d.results, i) = SeenAt(c.results, i)
           /\ SeenAt(c.results, i) # {} => SeenAt(d.results, i) # {}
           /\ i \in Range(d.changed) => i \in Range(c.changed) \/ SeenAt(d.results, i) # {}

\* Two changes one after the other.
LEMMA NotingTwice ==
    ASSUME NEW c, NEW d, NEW e, Noting(c, d), Noting(d, e)
    PROVE  Noting(c, e)
BY DEF Noting

\* What is put in front of a list is in it with what was.
LEMMA RangeOfMore ==
    ASSUME NEW S, NEW e \in S, NEW s \in Seq(S)
    PROVE  Range(<<e>> \o s) = Range(s) \cup {e}
<1> DEFINE t == <<e>> \o s
<1>1. /\ \A i \in DOMAIN t : IF i = 1 THEN t[i] = e ELSE i - 1 \in DOMAIN s /\ t[i] = s[i - 1]
      /\ \A i \in DOMAIN s : i + 1 \in DOMAIN t /\ t[i + 1] = s[i]
      /\ 1 \in DOMAIN t /\ t[1] = e
    OBVIOUS
<1> HIDE DEF t
<1>2. Range(t) = Range(s) \cup {e}
    BY <1>1 DEF Range
<1> QED
    BY <1>2 DEF t

\* The index of an instance is that of a result of it, or there is none.
LEMMA BrowseIndexIs ==
    ASSUME NEW results \in Seq(ResultType), NEW inst
    PROVE  LET k == BrowseIndex(results, inst)
           IN  IF k = 0 THEN \A i \in DOMAIN results : results[i].inst # inst
               ELSE k \in DOMAIN results /\ results[k].inst = inst
<1> DEFINE I == {j \in 1 .. Len(results) : results[j].inst = inst}
<1>1. Len(results) \in Nat /\ DOMAIN results = 1 .. Len(results)
    OBVIOUS
<1>2. BrowseIndex(results, inst) = IF I # {} THEN Min(I) ELSE 0
    BY DEF BrowseIndex, SelectInSeq
<1>3. I # {} => Min(I) \in I
  <2>1. I \in SUBSET (1 .. Len(results))
      OBVIOUS
  <2> HIDE DEF I
  <2> QED
      BY <1>1, <2>1, MinIn
<1> QED
    BY <1>1, <1>2, <1>3

\* An instance joins those that have changed; the cache stays (add_browse_result).
LEMMA ChangedKept ==
    ASSUME NEW c \in CacheType, NEW inst \in Datum
    PROVE  /\ AddBrowseResult(c, inst) \in CacheType
           /\ AddBrowseResult(c, inst).results = c.results
           /\ Range(AddBrowseResult(c, inst).changed) = Range(c.changed) \cup {inst}
<1> DEFINE ch == <<inst>> \o c.changed
           d == [c EXCEPT !.changed = ch]
<1>1. c.changed \in Seq(Datum)
    BY DEF CacheType
<1>2. ch \in Seq(Datum) /\ Range(ch) = Range(c.changed) \cup {inst}
    BY <1>1, RangeOfMore
<1> HIDE DEF ch
<1>3. d \in CacheType /\ d.results = c.results /\ d.changed = ch
    BY <1>2 DEF CacheType, OnePerInstance
<1> HIDE DEF d
<1>4. AddBrowseResult(c, inst) = IF Contains(c.changed, inst) THEN c ELSE d
    BY DEF AddBrowseResult, d, ch
<1>5. Contains(c.changed, inst) => inst \in Range(c.changed)
    BY DEF Contains, Range
<1> QED
    BY <1>2, <1>3, <1>4, <1>5

\* An instance that is not there yet may be put in front; that is noted.
LEMMA NewBrowseResultKept ==
    ASSUME NEW c \in CacheType, NEW e \in ResultType, BrowseIndex(c.results,
           e.inst) = 0
    PROVE  NewBrowseResult(c, e) \in CacheType /\ Noting(c, NewBrowseResult(c, e))
<1> DEFINE res == <<e>> \o c.results
           d == [c EXCEPT !.results = res]
<1>1. c.results \in Seq(ResultType) /\ OnePerInstance(c.results) /\ e.inst \in Datum
    BY DEF CacheType, ResultType
<1>2. \A i \in DOMAIN c.results : c.results[i].inst # e.inst
    BY <1>1, BrowseIndexIs
<1>3. res \in Seq(ResultType)
    BY <1>1
<1>4. /\ \A i \in DOMAIN res : i = 1 \/ i - 1 \in DOMAIN c.results
      /\ \A i \in DOMAIN res : res[i] = IF i = 1 THEN e ELSE c.results[i - 1]
      /\ DOMAIN res \subseteq Nat
    BY <1>1
<1> HIDE DEF res
<1>5. OnePerInstance(res)
  <2> SUFFICES ASSUME NEW i \in DOMAIN res, NEW j \in DOMAIN res, res[i].inst = res[j].inst
               PROVE  i = j
      BY DEF OnePerInstance
  <2>1. CASE i = 1 \/ j = 1
      BY <1>2, <1>4, <2>1
  <2>2. CASE i # 1 /\ j # 1
    <3>1. i - 1 = j - 1
        BY <1>1, <1>4, <2>2 DEF OnePerInstance
    <3> QED
        BY <1>4, <3>1
  <2> QED
      BY <2>1, <2>2
<1>6. d \in CacheType /\ d.results = res /\ d.changed = c.changed
    BY <1>3, <1>5 DEF CacheType
<1>8. Range(res) = Range(c.results) \cup {e}
    BY <1>1, RangeOfMore DEF res
<1>7. PICK n : n = AddBrowseResult(d, e.inst) /\ n = NewBrowseResult(c, e)
    BY DEF NewBrowseResult, res
<1> HIDE DEF d
<1>9. n \in CacheType /\ n.results = res /\ Range(n.changed) = Range(c.changed) \cup {e.inst}
  <2>1. e.inst \in Datum /\ d \in CacheType
      BY <1>1, <1>6
  <2>2. /\ n \in CacheType /\ n.results = d.results
        /\ Range(n.changed) = Range(d.changed) \cup {e.inst}
      BY <1>7, <2>1, ChangedKept
  <2> QED
      BY <1>6, <2>2
<1>10. Noting(c, n)
    BY <1>8, <1>9 DEF Noting, SeenAt
<1> QED
    BY <1>7, <1>9, <1>10

\* What a result becomes, it remains that of its instance; it is noted, unless the
\* application would see no difference.
LEMMA ResultKept ==
    ASSUME NEW c \in CacheType, NEW k \in DOMAIN c.results,
           NEW e \in ResultType,
           e.inst = c.results[k].inst
    PROVE  /\ \A d \in {SetResult(c, k, e), ChangeResult(c, k, e)} :
                d \in CacheType /\ k \in DOMAIN d.results
           /\ Noting(c, ChangeResult(c, k, e))
           /\ Seen(e) = Seen(c.results[k]) => Noting(c, SetResult(c, k, e))
<1> DEFINE res == [c.results EXCEPT ![k] = e]
           d == SetResult(c, k, e)
<1>1. c.results \in Seq(ResultType) /\ OnePerInstance(c.results) /\ e.inst \in Datum
    BY DEF CacheType, ResultType
<1>2. /\ res \in Seq(ResultType) /\ DOMAIN res = DOMAIN c.results
      /\ \A i \in DOMAIN res : res[i] = IF i = k THEN e ELSE c.results[i]
    BY <1>1
<1>3. d = [c EXCEPT !.results = res]
    BY DEF SetResult, CacheType
<1> HIDE DEF res, d
<1>4. OnePerInstance(res)
    BY <1>1, <1>2 DEF OnePerInstance
<1>5. d \in CacheType /\ d.results = res /\ d.changed = c.changed
    BY <1>2, <1>3, <1>4 DEF CacheType
<1>7. PICK n : n = AddBrowseResult(d, e.inst) /\ n = ChangeResult(c, k, e)
    BY DEF ChangeResult, d
<1>6. n \in CacheType /\ n.results = res /\ Range(n.changed) = Range(c.changed) \cup {e.inst}
  <2>1. e.inst \in Datum /\ d \in CacheType
      BY <1>1, <1>5
  <2>2. /\ n \in CacheType /\ n.results = d.results
        /\ Range(n.changed) = Range(d.changed) \cup {e.inst}
      BY <1>7, <2>1, ChangedKept
  <2> QED
      BY <1>5, <2>2
<1>8. \A i : i # e.inst => SeenAt(res, i) = SeenAt(c.results, i)
    BY <1>2 DEF SeenAt, Range
<1>9. SeenAt(res, e.inst) = {Seen(e)} /\ SeenAt(c.results, e.inst) = {Seen(c.results[k])}
  <2>1. {f \in Range(c.results) : f.inst = e.inst} = {c.results[k]}
      BY <1>1 DEF OnePerInstance, Range
  <2>2. {f \in Range(res) : f.inst = e.inst} = {e}
      BY <1>1, <1>2 DEF OnePerInstance, Range
  <2> QED
      BY <2>1, <2>2 DEF SeenAt
<1>10. Noting(c, n)
    BY <1>6, <1>8, <1>9 DEF Noting
<1>11. Seen(e) = Seen(c.results[k]) => Noting(c, d)
    BY <1>5, <1>8, <1>9 DEF Noting
<1> QED
    BY <1>2, <1>5, <1>6, <1>7, <1>10, <1>11 DEF d

\* What the k-th result of a cache is when it may be changed.
LEMMA ResultIn ==
    ASSUME NEW c \in CacheType, NEW k \in DOMAIN c.results
    PROVE  c.results[k] \in ResultType
BY DEF CacheType

\* A result with a TTL is a result of the same instance.
LEMMA TtlSetIs ==
    ASSUME NEW e \in ResultType, NEW ttl \in Nat
    PROVE  TtlSet(e, ttl) \in ResultType /\ TtlSet(e, ttl).inst = e.inst
<1>1. UpdatedTtl(e.ttl, ttl) \in Nat
    BY DEF UpdatedTtl, ResultType
<1> QED
    BY <1>1 DEF TtlSet, ResultType

\* A TTL is set in a result of the cache; one that changes is noted.
LEMMA BrowseTtlKept ==
    ASSUME NEW c \in CacheType, NEW k \in DOMAIN c.results, NEW ttl \in Nat
    PROVE  BrowseTtl(c, k, ttl) \in CacheType /\ Noting(c, BrowseTtl(c, k, ttl))
<1>1. c.results[k] \in ResultType
    BY ResultIn
<1>2. /\ TtlSet(c.results[k], ttl) \in ResultType
      /\ TtlSet(c.results[k], ttl).inst = c.results[k].inst
    BY <1>1, TtlSetIs
<1>3. /\ ChangeResult(c, k, TtlSet(c.results[k], ttl)) \in CacheType
      /\ Noting(c, ChangeResult(c, k, TtlSet(c.results[k], ttl)))
    BY <1>2, ResultKept
<1>4. Noting(c, c)
    BY DEF Noting
<1> QED
    BY <1>3, <1>4 DEF BrowseTtl

\* A PTR record adds an instance that is not there yet (mdns_priv_browse_result_add_ptr).
LEMMA BrowseAddPtrKept ==
    ASSUME NEW c \in CacheType, NEW svc \in Datum, NEW inst \in Datum,
           NEW ttl \in Nat
    PROVE  /\ BrowseAddPtr(c, svc, inst, ttl) \in CacheType
           /\ Noting(c, BrowseAddPtr(c, svc, inst, ttl))
<1> DEFINE e == Result(inst, svc, None, {}, None, ttl)
           k == BrowseIndex(c.results, inst)
<1>1. e \in ResultType /\ e.inst = inst
    BY DEF Result, ResultType, Datum
<1>2. k # 0 => k \in DOMAIN c.results
    BY BrowseIndexIs DEF CacheType
<1> HIDE DEF e, k
<1>3. k = 0 => NewBrowseResult(c, e) \in CacheType /\ Noting(c, NewBrowseResult(c, e))
    BY <1>1, NewBrowseResultKept DEF k
<1>4. k # 0 => BrowseTtl(c, k, ttl) \in CacheType /\ Noting(c, BrowseTtl(c, k, ttl))
    BY <1>2, BrowseTtlKept
<1> QED
    BY <1>3, <1>4 DEF BrowseAddPtr, e, k

\* A host name, with the addresses it is known to have, is set in a result.
LEMMA SetHostKept ==
    ASSUME NEW c \in CacheType, NEW k \in DOMAIN c.results, NEW host \in Datum
    PROVE  /\ SetHost(c, k, host) \in CacheType /\ k \in DOMAIN SetHost(c, k, host).results
           /\ Noting(c, SetHost(c, k, host))
<1> DEFINE e == c.results[k]
           addr == AddressesOf(c.results, host)
           I == {i \in 1 .. Len(c.results) : c.results[i].host = host /\ c.results[i].addr # {}}
<1>1. e \in ResultType /\ c.results \in Seq(ResultType)
    BY ResultIn DEF CacheType
<1>2. addr \in SUBSET Datum
  <2>1. addr = IF (IF I # {} THEN Min(I) ELSE 0) = 0 THEN {} ELSE c.results[Min(I)].addr
      BY DEF AddressesOf, SelectInSeq
  <2>2. I # {} => Min(I) \in I
    <3>1. Len(c.results) \in Nat /\ I \in SUBSET (1 .. Len(c.results))
        BY <1>1
    <3> HIDE DEF I
    <3> QED
        BY <3>1, MinIn
  <2>3. I # {} => c.results[Min(I)] \in ResultType
    <3>1. I \subseteq DOMAIN c.results
        BY <1>1
    <3> HIDE DEF I
    <3> QED
        BY <1>1, <2>2, <3>1
  <2> HIDE DEF I, addr
  <2> QED
      BY <2>1, <2>3 DEF ResultType
<1> HIDE DEF addr, e
<1>3. HostSet(e, c.results, host) \in ResultType /\ HostSet(e, c.results, host).inst = e.inst
    BY <1>1, <1>2 DEF HostSet, ResultType, addr
<1>4. Noting(c, c)
    BY DEF Noting
<1> QED
    BY <1>3, <1>4, ResultKept DEF SetHost, e

\* A TXT is set in a result; the application does not see the first.
LEMMA SetTxtKept ==
    ASSUME NEW c \in CacheType, NEW k \in DOMAIN c.results, NEW txt \in Datum
    PROVE  /\ SetTxt(c, k, txt) \in CacheType /\ k \in DOMAIN SetTxt(c, k, txt).results
           /\ Noting(c, SetTxt(c, k, txt))
<1> DEFINE e == [c.results[k] EXCEPT !.txt = txt]
<1>1. e \in ResultType /\ e.inst = c.results[k].inst /\ Seen(e) = Seen(c.results[k])
    BY ResultIn DEF ResultType, Seen
<1> HIDE DEF e
<1>2. \A d \in {SetResult(c, k, e), ChangeResult(c, k, e)} :
        d \in CacheType /\ k \in DOMAIN d.results /\ Noting(c, d)
    BY <1>1, ResultKept
<1> QED
    BY <1>2 DEF SetTxt, e

\* SRV and TXT records add an instance that is not there yet, or change it
\* (mdns_priv_browse_result_add_srv, mdns_priv_browse_result_add_txt).
LEMMA BrowseAddSrvTxtKept ==
    ASSUME NEW c \in CacheType, NEW svc \in Datum, NEW inst \in Datum,
           NEW d \in Datum,
           NEW ttl \in Nat
    PROVE  \A g \in {BrowseAddSrv(c, svc, inst, d, ttl), BrowseAddTxt(c, svc, inst, d, ttl)} :
             g \in CacheType /\ Noting(c, g)
<1> DEFINE e == Result(inst, svc, d, {}, None, ttl)
           f == Result(inst, svc, None, {}, d, ttl)
           k == BrowseIndex(c.results, inst)
<1>1. e \in ResultType /\ e.inst = inst /\ f \in ResultType /\ f.inst = inst
    BY DEF Result, ResultType, Datum
<1>2. k # 0 => k \in DOMAIN c.results
    BY BrowseIndexIs DEF CacheType
<1> HIDE DEF e, f, k
<1>3. k = 0 => \A g \in {NewBrowseResult(c, e), NewBrowseResult(c, f)} :
                 g \in CacheType /\ Noting(c, g)
    BY <1>1, NewBrowseResultKept DEF k
<1>4. k # 0 => \A h \in {SetHost(c, k, d), SetTxt(c, k, d)} :
                 /\ h \in CacheType /\ Noting(c, h)
                 /\ BrowseTtl(h, k, ttl) \in CacheType /\ Noting(h, BrowseTtl(h, k, ttl))
    BY <1>2, SetHostKept, SetTxtKept, BrowseTtlKept
<1>5. k # 0 => \A h \in {SetHost(c, k, d), SetTxt(c, k, d)} :
                 BrowseTtl(h, k, ttl) \in CacheType /\ Noting(c, BrowseTtl(h, k, ttl))
    BY <1>4, NotingTwice
<1> QED
    BY <1>3, <1>5 DEF BrowseAddSrv, BrowseAddTxt, e, f, k

\* An address changes a result and adds none (mdns_priv_browse_result_add_ip).
LEMMA BrowseAddIpKept ==
    ASSUME NEW c \in CacheType, NEW host \in Datum, NEW ip \in Datum,
           NEW ttl \in Nat
    PROVE  /\ BrowseAddIp(c, host, ip, ttl) \in CacheType
           /\ Noting(c, BrowseAddIp(c, host, ip, ttl))
<1> DEFINE I == {i \in 1 .. Len(c.results) :
                    c.results[i].host = host /\ ip \notin c.results[i].addr}
           k == IF I # {} THEN Min(I) ELSE 0
           f == [c.results[k] EXCEPT !.addr = @ \cup {ip}]
           e == TtlSet(f, ttl)
<1>1. c.results \in Seq(ResultType)
    BY DEF CacheType
<1>2. I # {} => Min(I) \in I
  <2>1. Len(c.results) \in Nat /\ I \in SUBSET (1 .. Len(c.results))
      BY <1>1
  <2> HIDE DEF I
  <2> QED
      BY <2>1, MinIn
<1>3. k # 0 => k \in DOMAIN c.results
    BY <1>1, <1>2
<1>4. BrowseAddIp(c, host, ip, ttl) = IF k = 0 THEN c ELSE ChangeResult(c, k, e)
    BY DEF BrowseAddIp, SelectInSeq
<1> HIDE DEF k
<1>5. k # 0 => f \in ResultType /\ f.inst = c.results[k].inst
    BY <1>3, ResultIn DEF ResultType
<1> HIDE DEF f
<1>6. k # 0 => e \in ResultType /\ e.inst = c.results[k].inst
    BY <1>5, TtlSetIs
<1> HIDE DEF e
<1>7. Noting(c, c)
    BY DEF Noting
<1> QED
    BY <1>3, <1>4, <1>6, <1>7, ResultKept

\* The addresses of a packet, one after the other.
LEMMA BrowseAddIpsKept ==
    ASSUME NEW c \in CacheType, NEW staged \in Seq(Record)
    PROVE  BrowseAddIps(c, staged) \in CacheType /\ Noting(c, BrowseAddIps(c, staged))
<1> DEFINE n == Len(staged)
           r(i) == staged[i]
           step == [id \in (1 .. n) \X CacheType |->
                      BrowseAddIp(id[2], r(id[1]).name, r(id[1]).data, r(id[1]).ttl)]
           Applied(g, i) == IF i = 0 THEN c
                            ELSE BrowseAddIp(g[i - 1], r(i).name, r(i).data, r(i).ttl)
           applied == CHOOSE g : g = [i \in 0 .. n |-> Applied(g, i)]
<1>1. n \in Nat /\ \A i \in 1 .. n : /\ r(i).name \in Datum /\ r(i).data \in Datum
                                     /\ r(i).ttl \in Nat
  <2>1. n \in Nat /\ \A i \in 1 .. n : r(i) \in Record
      OBVIOUS
  <2> QED
      BY <2>1 DEF Record
<1>2. BrowseAddIps(c, staged) = applied[n]
    BY DEF BrowseAddIps
<1>3. ASSUME NEW i \in 1 .. n, NEW d \in CacheType
      PROVE  step[<<i, d>>] = BrowseAddIp(d, r(i).name, r(i).data, r(i).ttl)
    OBVIOUS
<1>4. step \in [(1 .. n) \X CacheType -> CacheType]
  <2>1. ASSUME NEW i \in 1 .. n, NEW d \in CacheType
        PROVE  BrowseAddIp(d, r(i).name, r(i).data, r(i).ttl) \in CacheType
      BY <1>1, BrowseAddIpKept
  <2> QED
      BY <2>1
<1> HIDE DEF n, r, step, applied
<1>5. PICK g \in [0 .. n -> CacheType] : Recurs(n, c, step, g)
    BY <1>1, <1>4, Recursion
<1>6. g = [i \in 0 .. n |-> Applied(g, i)]
  <2>1. ASSUME NEW i \in 0 .. n PROVE g[i] = Applied(g, i)
    <3>1. CASE i = 0
        BY <1>5, <3>1 DEF Recurs
    <3>2. CASE i \in 1 .. n
      <4>1. g[i] = step[<<i, g[i - 1]>>]
          BY <1>5, <3>2 DEF Recurs
      <4>2. g[i - 1] \in CacheType /\ i # 0
          BY <1>1, <1>5, <3>2
      <4> QED
          BY <1>3, <3>2, <4>1, <4>2
    <3> QED
        BY <1>1, <3>1, <3>2
  <2> QED
      BY <2>1
<1>7. applied = [i \in 0 .. n |-> Applied(applied, i)]
  <2> HIDE DEF Applied
  <2> QED
      BY <1>6 DEF applied
<1> DEFINE T == {i \in 0 .. n : applied[i] \in CacheType /\ Noting(c, applied[i])}
<1>8. 0 \in T
    BY <1>1, <1>7 DEF Noting
<1>9. \A i \in 0 .. n - 1 : i \in T => i + 1 \in T
  <2> SUFFICES ASSUME NEW i \in 0 .. n - 1, applied[i] \in CacheType, Noting(c, applied[i])
               PROVE  /\ i + 1 \in 0 .. n /\ applied[i + 1] \in CacheType
                      /\ Noting(c, applied[i + 1])
      OBVIOUS
  <2>1. i + 1 \in 1 .. n /\ i + 1 \in 0 .. n /\ i + 1 # 0 /\ (i + 1) - 1 = i
      BY <1>1
  <2>2. applied[i + 1] = Applied(applied, i + 1)
      BY <1>7, <2>1
  <2>3. applied[i + 1] = BrowseAddIp(applied[i], r(i + 1).name, r(i + 1).data, r(i + 1).ttl)
      BY <2>1, <2>2
  <2>4. applied[i + 1] \in CacheType /\ Noting(applied[i], applied[i + 1])
      BY <1>1, <2>1, <2>3, BrowseAddIpKept
  <2> QED
      BY <2>1, <2>4, NotingTwice
<1>10. 0 .. n \subseteq T
  <2> HIDE DEF T
  <2> QED
      BY <1>1, <1>8, <1>9, UpFromZero
<1> QED
    BY <1>1, <1>2, <1>10

-----------------------------------------------------------------------------
(* The parser: what is so after every record of a packet.                     *)

\* The parser's variables have their types.
ParserType ==
    [search : [Searches -> SearchType \cup {None}], slist : Seq(Searches),
     browse : [Browses -> BrowseType \cup {None}], blist : Seq(Browses),
     found : Searches \cup {None}, hit : Browses \cup {None}, instance : Datum,
     packet : Browses \cup {None}, sync : SyncType \cup {None},
     staged : Seq(Record), bad : BOOLEAN, cut : BOOLEAN]
\* The searches and browses are those of the server, with what the packet has brought.
SearchesKept(x) ==
    /\ x.slist = slist
    /\ \A s \in Searches : IF search[s] = None THEN x.search[s] = None
                           ELSE Grown(search[s], x.search[s])
\* What a packet has changed in the cache of a browse it has noted; an instance that is
\* noted is there, and none is lost.
NotedIn(x, b, inst) == Syncs(x, b) /\ inst \in Range(x.sync.changed)
ChangesNoted(x, b) ==
    \A i : LET now == SeenAt(x.browse[b].results, i)
               old == SeenAt(browse[b].results, i)
           IN  /\ now = old \/ NotedIn(x, b, i)
               /\ old # {} \/ NotedIn(x, b, i) => now # {}
\* No browse is made or freed while a packet is parsed.
BrowsesKept(x) ==
    /\ x.blist = blist
    /\ \A b \in Browses :
         /\ x.browse[b] = None <=> browse[b] = None
         /\ x.browse[b] # None => OnePerInstance(x.browse[b].results) /\ ChangesNoted(x, b)
\* The parser's pointers are NULL or lead to what is in the lists.
Pointers(x) ==
    /\ x.found # None => x.found \in Range(slist)
    /\ x.hit # None => x.hit \in Range(blist)
    /\ x.packet # None => x.packet \in Range(blist)
    /\ x.sync # None => x.sync.browse \in Range(blist)
\* What a parser is as long as it lives; Parsing is that until searches are finished.
Browsing == {x \in ParserType : BrowsesKept(x) /\ Pointers(x)}
Parsing == {x \in Browsing : SearchesKept(x)}
\* Only the caches differ.
CachesOnly(x, y) ==
    /\ y.search = x.search /\ y.slist = x.slist /\ y.found = x.found
    /\ y.hit = x.hit /\ y.packet = x.packet /\ y.staged = x.staged
\* The search that is found wants the record, which is one of our own else.
Meant(x, r) == x.found # None => Wants(Search(x), r) \/ IsOwn(r)

\* Every search is as it should be.
ResultsGood == \A s \in Searches : search[s] # None => Good(search[s])
\* What a packet finds: typed variables, and lists that lead to what is there.
Ready ==
    /\ TypeOK /\ ResultsGood
    /\ \A s \in Range(slist) : search[s] # None
    /\ \A b \in Range(blist) : browse[b] # None

\* The lists hold searches and browses.
LEMMA ListsIn ==
    ASSUME Ready
    PROVE  Range(slist) \subseteq Searches /\ Range(blist) \subseteq Browses
BY DEF Ready, TypeOK, Range

\* NULL is no object.
LEMMA NoneIsNone ==
    /\ None \notin SearchType /\ None \notin BrowseType /\ None \notin ActionType
    /\ None \notin SyncType
BY ClientAssumption

\* A step that leaves the caches and what is noted leaves the browses as they are kept.
LEMMA BrowsesStillKept ==
    ASSUME NEW x, NEW y, BrowsesKept(x), y.browse = x.browse, y.blist = x.blist, y.sync = x.sync
    PROVE  BrowsesKept(y)
<1>1. \A b \in Browses : ChangesNoted(x, b) => ChangesNoted(y, b)
    BY DEF ChangesNoted, NotedIn, Syncs
<1> QED
    BY <1>1 DEF BrowsesKept

\* Before the first record of a packet.
LEMMA ParserStarts ==
    ASSUME Ready
    PROVE  Parser \in Parsing
<1>1. Parser \in ParserType
    BY DEF Ready, TypeOK, Parser, ParserType, Datum
<1>2. \A s \in Searches : search[s] # None => Grown(search[s], search[s])
    BY DEF Ready, TypeOK, ResultsGood, Grown
<1>3. SearchesKept(Parser)
    BY <1>2 DEF Parser, SearchesKept
<1>4. BrowsesKept(Parser)
    BY DEF Ready, TypeOK, Parser, BrowsesKept, ChangesNoted, NotedIn, Syncs
<1>5. Pointers(Parser)
    BY DEF Parser, Pointers
<1> QED
    BY <1>1, <1>3, <1>4, <1>5 DEF Parsing, Browsing

\* A search in the list is there, whatever the packet has brought so far.
LEMMA FoundIs ==
    ASSUME Ready, NEW x \in Parsing, NEW s \in Range(slist)
    PROVE  s \in Searches /\ x.search[s] \in SearchType /\ Good(x.search[s])
BY ListsIn DEF Parsing, Browsing, SearchesKept, Grown, Ready

\* A browse in the list is there, with one result for an instance.
LEMMA HitIs ==
    ASSUME Ready, NEW x \in Browsing, NEW b \in Range(blist)
    PROVE  /\ b \in Browses /\ x.browse[b] \in BrowseType /\ x.browse[b].svc \in Datum
           /\ OnePerInstance(x.browse[b].results)
<1>1. b \in Browses /\ x.browse[b] \in BrowseType
    BY ListsIn, NoneIsNone DEF Parsing, Browsing, ParserType, BrowsesKept,
                               Ready
<1>2. x.browse[b].svc \in Datum
    BY <1>1, ClientAssumption DEF BrowseType, Datum
<1>3. x.browse[b] # None
    BY <1>1, NoneIsNone
<1> QED
    BY <1>1, <1>2, <1>3 DEF Parsing, Browsing, BrowsesKept

\* The search a record is for may grow.
LEMMA InSearchKept ==
    ASSUME Ready, NEW x \in Parsing, x.found # None, NEW q,
           Grown(Search(x), q)
    PROVE  InSearch(x, q) \in Parsing
<1> DEFINE y == InSearch(x, q)
           f == [x.search EXCEPT ![x.found] = q]
<1>1. x.found \in Range(slist) /\ x.found \in Searches /\ q \in SearchType
    BY ListsIn DEF Parsing, Browsing, Pointers, Grown
<1>2. f \in [Searches -> SearchType \cup {None}]
      /\ \A s \in Searches : f[s] = IF s = x.found THEN q ELSE x.search[s]
    BY <1>1 DEF Parsing, Browsing, ParserType
<1>3. y = [x EXCEPT !.search = f]
    BY DEF InSearch
<1> HIDE DEF f
<1>4. /\ y \in ParserType /\ y.search = f /\ y.slist = x.slist /\ y.browse = x.browse
      /\ y.blist = x.blist /\ y.found = x.found /\ y.hit = x.hit /\ y.packet = x.packet
      /\ y.sync = x.sync
    BY <1>2, <1>3 DEF Parsing, Browsing, ParserType
<1> HIDE DEF y
<1>5. Grown(search[x.found], q) /\ search[x.found] # None
    BY <1>1, GrownTwice DEF Parsing, Browsing, SearchesKept, Search, Ready
<1>6. SearchesKept(y)
    BY <1>1, <1>2, <1>4, <1>5 DEF Parsing, Browsing, SearchesKept
<1>7. BrowsesKept(y) /\ Pointers(y)
    BY <1>4, BrowsesStillKept DEF Parsing, Browsing, Pointers
<1> QED
    BY <1>4, <1>6, <1>7 DEF Parsing, Browsing, y

\* What changes the caches only leaves the searches as they are kept.
LEMMA CachesOnlyKept ==
    ASSUME NEW x \in Parsing, NEW y \in Browsing, CachesOnly(x, y)
    PROVE  y \in Parsing
BY DEF Parsing, Browsing, CachesOnly, SearchesKept

\* To note which browse a packet changes changes no cache.
LEMMA EnsureSyncKept ==
    ASSUME NEW x \in Browsing, NEW b \in Range(blist), b \in Browses
    PROVE  EnsureSync(x, b) \in Browsing /\ CachesOnly(x, EnsureSync(x, b))
<1> DEFINE z == [browse |-> b, changed |-> <<>>]
           y == [x EXCEPT !.sync = z]
<1>1. z \in SyncType /\ z.browse = b
    BY DEF SyncType
<1> HIDE DEF z
<1>2. /\ y \in ParserType /\ y.browse = x.browse /\ y.blist = x.blist /\ y.sync = z
      /\ CachesOnly(x, y)
    BY <1>1 DEF Browsing, ParserType, CachesOnly
<1> HIDE DEF y
<1>3. x.sync = None => y \in Browsing
  <2> SUFFICES ASSUME x.sync = None PROVE y \in Browsing
      OBVIOUS
  <2>1. \A d : ~Syncs(x, d)
      BY DEF Syncs
  <2>2. ASSUME NEW d, ChangesNoted(x, d) PROVE ChangesNoted(y, d)
    <3>1. \A i : ~NotedIn(y, d, i)
        BY <1>1, <1>2 DEF NotedIn, Range, z
    <3> QED
        BY <1>2, <2>1, <2>2, <3>1 DEF ChangesNoted, NotedIn
  <2> QED
      BY <1>1, <1>2, <2>2 DEF Browsing, BrowsesKept, Pointers, CachesOnly
<1> QED
    BY <1>2, <1>3 DEF EnsureSync, CachesOnly, y, z

\* The cache that is synchronised is one.
LEMMA CacheIs ==
    ASSUME Ready, NEW x \in Browsing, NEW b \in Range(blist), Syncs(x, b)
    PROVE  Cache(x, b) \in CacheType
<1>1. x.browse[b] \in BrowseType /\ OnePerInstance(x.browse[b].results)
    BY HitIs
<1>2. x.browse[b].results \in Seq(ResultType)
    BY <1>1 DEF BrowseType
<1>3. x.sync.changed \in Seq(Datum)
    BY DEF Browsing, ParserType, SyncType, Syncs
<1> QED
    BY <1>1, <1>2, <1>3 DEF Cache, CacheType

\* A browse may get another cache.
LEMMA CachedKept ==
    ASSUME Ready, NEW x \in Browsing, NEW b \in Range(blist), NEW c, 
           Syncs(x, b) => c \in CacheType /\ Noting(Cache(x, b), c)
    PROVE  Cached(x, b, c) \in Browsing /\ CachesOnly(x, Cached(x, b, c))
<1>1. CASE ~Syncs(x, b)
    BY <1>1 DEF Cached, CachesOnly
<1>2. CASE Syncs(x, b)
  <2>1. b \in Browses /\ x.browse[b] \in BrowseType
      BY HitIs
  <2>2. x.sync \in SyncType /\ x.sync.browse = b
      BY <1>2 DEF Browsing, ParserType, Syncs
  <2> DEFINE br == [x.browse[b] EXCEPT !.results = c.results]
             f  == [x.browse EXCEPT ![b] = br]
             z  == [x.sync EXCEPT !.changed = c.changed]
             y  == [x EXCEPT !.browse = f, !.sync = z]
  <2>3. br \in BrowseType /\ br.results = c.results
      BY <1>2, <2>1 DEF BrowseType, CacheType
  <2>4. z \in SyncType /\ z.browse = b
      BY <1>2, <2>2 DEF CacheType, SyncType
  <2>5. Cached(x, b, c) = y
      BY <1>2 DEF Cached
  <2> HIDE DEF br, z
  <2>6. /\ f \in [Browses -> BrowseType \cup {None}]
        /\ \A d \in Browses : f[d] = IF d = b THEN br ELSE x.browse[d]
      BY <2>1, <2>3 DEF Browsing, ParserType
  <2> HIDE DEF f
  <2>7. /\ y \in ParserType /\ y.browse = f /\ y.blist = x.blist /\ y.sync = z
        /\ CachesOnly(x, y)
      BY <2>4, <2>6 DEF Browsing, ParserType, CachesOnly
  <2> HIDE DEF y
  <2>8. br # None /\ x.browse[b] # None
      BY <2>1, <2>3, NoneIsNone
  <2>9. BrowsesKept(y)
    <3>1. \A e : Syncs(y, e) <=> Syncs(x, e)
        BY <2>2, <2>4, <2>7, NoneIsNone DEF Syncs
    <3>2. \A e \in Browses : e # b /\ ChangesNoted(x, e) => ChangesNoted(y, e)
        BY <2>2, <2>6, <2>7, <3>1 DEF ChangesNoted, NotedIn, Syncs
    <3>3. ChangesNoted(x, b)
        BY <2>1, <2>8 DEF Browsing, BrowsesKept
    <3>4. Noting(Cache(x, b), c) /\ y.browse[b].results = c.results /\ z.changed = c.changed
        BY <1>2, <2>1, <2>3, <2>6, <2>7 DEF z
    <3>5. ChangesNoted(y, b)
        BY <1>2, <2>7, <3>1, <3>3, <3>4 DEF ChangesNoted, NotedIn, Noting, Cache
    <3> QED
        BY <1>2, <2>3, <2>6, <2>7, <2>8, <3>2, <3>5 DEF Browsing, BrowsesKept, CacheType
  <2>10. Pointers(y)
      BY <2>4, <2>7 DEF Browsing, Pointers, CachesOnly
  <2> QED
      BY <2>5, <2>7, <2>9, <2>10 DEF Browsing
<1> QED
    BY <1>1, <1>2

\* What a browse finds for a record is in the list.
LEMMA BrowseFound ==
    ASSUME Ready, NEW x \in Parsing, NEW r
    PROVE  /\ BrowseFind(x, r) # None => BrowseFind(x, r) \in Range(blist)
           /\ BrowseFindPtr(x, r.svc) # None => BrowseFindPtr(x, r.svc) \in Range(blist)
<1> DEFINE n == Len(x.blist)
           I == {i \in 1 .. n : IF r.type = "A" THEN \E j \in DOMAIN x.browse[x.blist[i]].results :
                                       x.browse[x.blist[i]].results[j].host = r.name
                                ELSE x.browse[x.blist[i]].svc = r.svc}
           J == {i \in 1 .. n : x.browse[x.blist[i]].svc = r.svc}
<1>1. x.blist = blist /\ n \in Nat /\ DOMAIN x.blist = 1 .. n
    BY DEF Parsing, Browsing, BrowsesKept, Ready, TypeOK
<1>2. /\ I # {} => Min(I) \in I
      /\ J # {} => Min(J) \in J
  <2>1. I \in SUBSET (1 .. n) /\ J \in SUBSET (1 .. n)
      OBVIOUS
  <2> HIDE DEF I, J, n
  <2> QED
      BY <1>1, <2>1, MinIn
<1>3. BrowseFind(x, r) = LET k == IF I # {} THEN Min(I) ELSE 0
                         IN  IF r.type = "PTR" \/ k = 0 THEN None ELSE x.blist[k]
    BY DEF BrowseFind, SelectInSeq
<1>4. BrowseFindPtr(x, r.svc) = LET k == IF J # {} THEN Min(J) ELSE 0
                                IN  IF k = 0 THEN None ELSE x.blist[k]
    BY DEF BrowseFindPtr, SelectInSeq
<1>5. I \subseteq DOMAIN blist /\ J \subseteq DOMAIN blist
    BY <1>1
<1> HIDE DEF I, J, n
<1> QED
    BY <1>1, <1>2, <1>3, <1>4, <1>5 DEF Range

\* What a record finds wants it.
LEMMA QueryFound ==
    ASSUME Ready, NEW x \in Parsing, NEW r, QueryFind(x, r) # None
    PROVE  QueryFind(x, r) \in Range(slist) /\ Wants(x.search[QueryFind(x, r)], r)
<1> DEFINE n == Len(x.slist)
           I == {i \in 1 .. n : Wants(x.search[x.slist[i]], r)}
<1>1. x.slist = slist /\ n \in Nat /\ DOMAIN x.slist = 1 .. n
    BY DEF Parsing, Browsing, SearchesKept, Ready, TypeOK
<1>2. I # {} => Min(I) \in I
  <2>1. I \in SUBSET (1 .. n)
      OBVIOUS
  <2> HIDE DEF I, n
  <2> QED
      BY <1>1, <2>1, MinIn
<1>3. QueryFind(x, r) = LET k == IF I # {} THEN Min(I) ELSE 0
                        IN  IF k = 0 THEN None ELSE x.slist[k]
    BY DEF QueryFind, SelectInSeq
<1>4. I # {} => Min(I) \in DOMAIN slist /\ Wants(x.search[x.slist[Min(I)]], r)
    BY <1>1, <1>2
<1> HIDE DEF I, n
<1> QED
    BY <1>1, <1>3, <1>4 DEF Range

\* To find the search and the browse a record is for changes neither.
LEMMA LookKept ==
    ASSUME Ready, NEW x \in Parsing, NEW r \in Record
    PROVE  Look(x, r) \in Parsing /\ Meant(Look(x, r), r)
<1> DEFINE b == BrowseFind(x, r)
           s == QueryFind(x, r)
           y == [x EXCEPT !.found = s, !.hit = b]
           inst == IF r.type = "A" THEN x.instance ELSE r.name
           z == [y EXCEPT !.packet = b, !.instance = inst]
<1>1. CASE IsOwn(r)
    BY <1>1 DEF Look, IsOwn, Meant
<1>2. CASE ~IsOwn(r)
  <2>1. /\ s # None => s \in Range(slist) /\ s \in Searches /\ Wants(x.search[s], r)
        /\ b # None => b \in Range(blist) /\ b \in Browses
      BY QueryFound, BrowseFound, ListsIn
  <2>2. inst \in Datum
      BY DEF Parsing, Browsing, ParserType, Record
  <2>3. Look(x, r) = IF b = None THEN y ELSE EnsureSync(z, b)
      BY <1>2 DEF Look
  <2> HIDE DEF b, s, inst
  <2>4. /\ y \in ParserType /\ y.search = x.search /\ y.slist = x.slist /\ y.browse = x.browse
        /\ y.blist = x.blist /\ y.found = s /\ y.hit = b /\ y.packet = x.packet /\ y.sync = x.sync
      BY <2>1 DEF Parsing, Browsing, ParserType
  <2> HIDE DEF y
  <2>5. b # None =>
        /\ z \in ParserType /\ z.search = x.search /\ z.slist = x.slist /\ z.browse = x.browse
        /\ z.blist = x.blist /\ z.found = s /\ z.hit = b /\ z.packet = b /\ z.sync = x.sync
      BY <2>1, <2>2, <2>4 DEF ParserType
  <2> HIDE DEF z
  <2>6. y \in Parsing /\ (b # None => z \in Parsing)
    <3>1. BrowsesKept(y) /\ (b # None => BrowsesKept(z))
        BY <2>4, <2>5, BrowsesStillKept DEF Parsing, Browsing
    <3> QED
        BY <2>1, <2>4, <2>5, <3>1 DEF Parsing, Browsing, SearchesKept, Pointers
  <2>7. Meant(y, r) /\ (b # None => Meant(z, r))
      BY <2>1, <2>4, <2>5 DEF Meant, Search
  <2>8. b # None => /\ EnsureSync(z, b) \in Parsing
                    /\ CachesOnly(z, EnsureSync(z, b))
      BY <2>1, <2>6, EnsureSyncKept, CachesOnlyKept DEF Parsing
  <2>9. b # None => Meant(EnsureSync(z, b), r)
      BY <2>7, <2>8 DEF CachesOnly, Meant, Search
  <2> QED
      BY <2>3, <2>6, <2>7, <2>8, <2>9
<1> QED
    BY <1>1, <1>2

\* A PTR record.
LEMMA ParsePtrKept ==
    ASSUME Ready, NEW x \in Parsing, NEW r \in Record
    PROVE  ParsePtr(x, r) \in Parsing
<1> DEFINE b == BrowseFindPtr(x, r.svc)
           z == [x EXCEPT !.packet = b]
           y == EnsureSync(z, b)
           c == BrowseAddPtr(Cache(y, b), r.svc, r.data, r.ttl)
<1>1. r.svc \in Datum /\ r.data \in Datum /\ r.ttl \in Nat
    BY DEF Record
<1>2. CASE r.data # None /\ b # None
  <2>1. b \in Range(blist) /\ b \in Browses
      BY <1>2, BrowseFound, ListsIn
  <2>2. ParsePtr(x, r) = Cached(y, b, c)
      BY <1>2 DEF ParsePtr
  <2> HIDE DEF b
  <2>3. /\ z \in ParserType /\ z.search = x.search /\ z.slist = x.slist /\ z.browse = x.browse
        /\ z.blist = x.blist /\ z.found = x.found /\ z.hit = x.hit /\ z.packet = b
        /\ z.sync = x.sync
      BY <2>1 DEF Parsing, Browsing, ParserType
  <2> HIDE DEF z
  <2>4. z \in Parsing
    <3>1. BrowsesKept(z)
        BY <2>3, BrowsesStillKept DEF Parsing, Browsing
    <3> QED
        BY <2>1, <2>3, <3>1 DEF Parsing, Browsing, SearchesKept, Pointers
  <2>5. y \in Parsing
      BY <2>1, <2>4, EnsureSyncKept, CachesOnlyKept DEF Parsing
  <2> HIDE DEF y
  <2>6. Syncs(y, b) => c \in CacheType /\ Noting(Cache(y, b), c)
      BY <1>1, <2>1, <2>5, CacheIs, BrowseAddPtrKept DEF Parsing
  <2> HIDE DEF c
  <2> QED
      BY <2>1, <2>2, <2>5, <2>6, CachedKept, CachesOnlyKept DEF Parsing
<1>3. CASE r.data # None /\ b = None /\ x.found # None
  <2>1. ParsePtr(x, r) = InSearch(x, QueryAddPtr(Search(x), r.data, r.svc))
      BY <1>3 DEF ParsePtr
  <2>2. Search(x) \in SearchType /\ Good(Search(x))
      BY <1>3, FoundIs DEF Parsing, Browsing, Pointers, Search
  <2> QED
      BY <1>1, <1>3, <2>1, <2>2, AddPtrGrows, InSearchKept
<1>4. CASE r.data = None \/ (b = None /\ x.found = None)
    BY <1>4 DEF ParsePtr
<1> QED
    BY <1>2, <1>3, <1>4

\* The search a record other than an address is for.
LEMMA SearchFound ==
    ASSUME Ready, NEW x \in Parsing, x.found # None
    PROVE  Search(x) \in SearchType /\ Good(Search(x))
BY FoundIs DEF Parsing, Browsing, Pointers, Search

\* The instance an SRV or a TXT record names is added to the search.
LEMMA WithInstanceKept ==
    ASSUME Ready, NEW x \in Parsing, NEW r \in Record
    PROVE  LET y == WithInstance(x, r)
           IN  y \in Parsing /\ y.hit = x.hit /\ y.browse = x.browse
<1>1. r.name \in Datum /\ r.svc \in Datum
    BY DEF Record
<1>2. CASE IsPtrSearch(x)
  <2>1. x.found # None
      BY <1>2 DEF IsPtrSearch
  <2>2. Grown(Search(x), QueryAddPtr(Search(x), r.name, r.svc))
      BY <1>1, <2>1, SearchFound, AddPtrGrows
  <2>3. WithInstance(x, r) = InSearch(x, QueryAddPtr(Search(x), r.name, r.svc))
      BY <1>2 DEF WithInstance
  <2>4. \A q : InSearch(x, q).hit = x.hit /\ InSearch(x, q).browse = x.browse
      BY DEF InSearch, Parsing, Browsing, ParserType
  <2> QED
      BY <2>1, <2>2, <2>3, <2>4, InSearchKept
<1>3. CASE ~IsPtrSearch(x)
    BY <1>3 DEF WithInstance
<1> QED
    BY <1>2, <1>3

\* The browse an SRV or a TXT record is for may get another cache.
LEMMA InBrowseKept ==
    ASSUME Ready, NEW x \in Parsing, NEW c,
           x.hit # None /\ Syncs(x, x.hit) => c \in CacheType /\ Noting(Cache(x, x.hit), c)
    PROVE  /\ InBrowse(x, c) \in Parsing
           /\ CachesOnly(x, InBrowse(x, c))
<1>1. CASE x.hit = None
    BY <1>1 DEF InBrowse, CachesOnly
<1>2. CASE x.hit # None /\ Syncs(x, x.hit) /\ x.instance = None
  <2> DEFINE y == [x EXCEPT !.bad = TRUE]
  <2>1. InBrowse(x, c) = y
      BY <1>2 DEF InBrowse
  <2>2. /\ y \in ParserType /\ y.browse = x.browse /\ y.blist = x.blist /\ y.sync = x.sync
        /\ CachesOnly(x, y)
      BY DEF Parsing, Browsing, ParserType, CachesOnly
  <2> HIDE DEF y
  <2>3. y \in Browsing
      BY <2>2, BrowsesStillKept DEF Parsing, Browsing, Pointers, CachesOnly
  <2> QED
      BY <2>1, <2>2, <2>3, CachesOnlyKept
<1>3. CASE x.hit # None /\ ~(Syncs(x, x.hit) /\ x.instance = None)
  <2>1. InBrowse(x, c) = Cached(x, x.hit, c)
      BY <1>3 DEF InBrowse
  <2>2. x.hit \in Range(blist)
      BY <1>3 DEF Parsing, Browsing, Pointers
  <2> QED
      BY <1>3, <2>1, <2>2, CachedKept, CachesOnlyKept DEF Parsing
<1> QED
    BY <1>1, <1>2, <1>3

\* What is put into the cache of the browse a record has hit.
LEMMA HitCache ==
    ASSUME Ready, NEW x \in Parsing, NEW r \in Record,
           x.hit # None /\ Syncs(x, x.hit)
    PROVE  \A c \in {BrowseAddSrv(Cache(x, x.hit), x.browse[x.hit].svc, x.instance, r.data, r.ttl),
                     BrowseAddTxt(Cache(x, x.hit), x.browse[x.hit].svc, x.instance, r.data, r.ttl)} :
             c \in CacheType /\ Noting(Cache(x, x.hit), c)
<1>1. x.hit \in Range(blist) /\ x.instance \in Datum
    BY DEF Parsing, Browsing, ParserType, Pointers
<1>2. x.browse[x.hit].svc \in Datum /\ Cache(x, x.hit) \in CacheType
    BY <1>1, HitIs, CacheIs DEF Parsing
<1>3. r.data \in Datum /\ r.ttl \in Nat
    BY DEF Record
<1> QED
    BY <1>1, <1>2, <1>3, BrowseAddSrvTxtKept

\* What a search that is found gets of a record.
LEMMA FoundKept ==
    ASSUME Ready, NEW x \in Parsing, NEW r \in Record, x.found # None
    PROVE  /\ IsPtrSearch(x) /\ InstanceIndex(Search(x), r) # 0 =>
                \A q \in {FirstHost(Search(x), InstanceIndex(Search(x), r), r.data),
                          FirstTxt(Search(x), InstanceIndex(Search(x), r), r.data)} :
                   InSearch(x, q) \in Parsing
           /\ \A q \in {QueryAddSrv(Search(x), r.data), QueryAddTxt(Search(x), r.data)} :
                   InSearch(x, q) \in Parsing
<1> DEFINE p == Search(x)
           k == InstanceIndex(p, r)
<1>1. r.data \in Datum
    BY DEF Record
<1>2. p \in SearchType /\ Good(p)
    BY SearchFound
<1>3. k # 0 => k \in DOMAIN p.results
    BY <1>2, InstanceIndexIn
<1>4. p.type = "PTR" /\ k # 0 => Grown(p, FirstHost(p, k, r.data)) /\ Grown(p, FirstTxt(p, k, r.data))
  <2> HIDE DEF k, p
  <2> QED
      BY <1>1, <1>2, <1>3, FirstGrows
<1>5. Grown(p, QueryAddSrv(p, r.data)) /\ Grown(p, QueryAddTxt(p, r.data))
    BY <1>1, <1>2, AddSrvGrows, AddTxtGrows
<1>6. IsPtrSearch(x) => p.type = "PTR"
    BY DEF IsPtrSearch
<1> QED
    BY <1>4, <1>5, <1>6, InSearchKept

\* An SRV record.
LEMMA ParseSrvKept ==
    ASSUME Ready, NEW x \in Parsing, NEW r \in Record
    PROVE  ParseSrv(x, r) \in Parsing
<1> DEFINE y == WithInstance(x, r)
           c == BrowseAddSrv(Cache(y, y.hit), y.browse[y.hit].svc, y.instance, r.data, r.ttl)
           z == InBrowse(y, c)
<1>1. y \in Parsing
    BY WithInstanceKept
<1> DEFINE skipped == NoRoom(y, r) \/ r.data = None
<1>2. ParseSrv(x, r) =
        CASE skipped -> y
          [] ~skipped /\ IsPtrSearch(y) ->
               InSearch(z, FirstHost(Search(z), InstanceIndex(Search(z), r), r.data))
          [] ~skipped /\ ~IsPtrSearch(y) /\ y.found # None -> InSearch(z, QueryAddSrv(Search(z), r.data))
          [] OTHER -> z
    BY DEF ParseSrv
<1> HIDE DEF y
<1>3. y.hit # None /\ Syncs(y, y.hit) => c \in CacheType /\ Noting(Cache(y, y.hit), c)
    BY <1>1, HitCache
<1> HIDE DEF c
<1>4. z \in Parsing /\ CachesOnly(y, z)
    BY <1>1, <1>3, InBrowseKept
<1> HIDE DEF z
<1>5. CASE skipped
    BY <1>1, <1>2, <1>5
<1>6. CASE ~skipped /\ IsPtrSearch(y)
  <2>1. z.found # None /\ Search(z) = Search(y)
      BY <1>4, <1>6 DEF CachesOnly, IsPtrSearch, Search
  <2>2. IsPtrSearch(z) /\ InstanceIndex(Search(z), r) # 0
      BY <1>6, <2>1 DEF NoRoom, IsPtrSearch
  <2>3. ParseSrv(x, r) = InSearch(z, FirstHost(Search(z), InstanceIndex(Search(z), r), r.data))
      BY <1>2, <1>6
  <2> QED
      BY <1>4, <2>1, <2>2, <2>3, FoundKept
<1>7. CASE ~skipped /\ ~IsPtrSearch(y) /\ y.found # None
  <2>1. z.found # None
      BY <1>4, <1>7 DEF CachesOnly
  <2>2. ParseSrv(x, r) = InSearch(z, QueryAddSrv(Search(z), r.data))
      BY <1>2, <1>7, <2>1
  <2> QED
      BY <1>4, <2>1, <2>2, FoundKept
<1>8. CASE ~skipped /\ ~IsPtrSearch(y) /\ y.found = None
  <2>1. ParseSrv(x, r) = z
      BY <1>2, <1>8
  <2> QED
      BY <1>4, <2>1
<1> QED
    BY <1>5, <1>6, <1>7, <1>8

\* A TXT record.
LEMMA ParseTxtKept ==
    ASSUME Ready, NEW x \in Parsing, NEW r \in Record
    PROVE  ParseTxt(x, r) \in Parsing
<1> DEFINE c == BrowseAddTxt(Cache(x, x.hit), x.browse[x.hit].svc, x.instance, r.data, r.ttl)
           y == InBrowse(x, c)
           z == WithInstance(y, r)
<1>1. ParseTxt(x, r) =
        CASE NoRoom(z, r) -> z
          [] ~NoRoom(z, r) /\ IsPtrSearch(z) ->
               InSearch(z, FirstTxt(Search(z), InstanceIndex(Search(z), r), r.data))
          [] ~IsPtrSearch(z) /\ z.found # None -> InSearch(z, QueryAddTxt(Search(z), r.data))
          [] OTHER -> z
    BY DEF ParseTxt
<1>2. x.hit # None /\ Syncs(x, x.hit) => c \in CacheType /\ Noting(Cache(x, x.hit), c)
    BY HitCache
<1> HIDE DEF c
<1>3. y \in Parsing
    BY <1>2, InBrowseKept
<1> HIDE DEF y
<1>4. z \in Parsing
    BY <1>3, WithInstanceKept
<1> HIDE DEF z
<1>5. CASE NoRoom(z, r)
    BY <1>1, <1>4, <1>5 DEF NoRoom
<1>6. CASE ~NoRoom(z, r) /\ IsPtrSearch(z)
  <2>1. z.found # None /\ InstanceIndex(Search(z), r) # 0
      BY <1>6 DEF NoRoom, IsPtrSearch
  <2>2. ParseTxt(x, r) = InSearch(z, FirstTxt(Search(z), InstanceIndex(Search(z), r), r.data))
      BY <1>1, <1>6
  <2> QED
      BY <1>4, <1>6, <2>1, <2>2, FoundKept DEF IsPtrSearch
<1>7. CASE ~IsPtrSearch(z) /\ z.found # None
  <2>1. ParseTxt(x, r) = InSearch(z, QueryAddTxt(Search(z), r.data))
      BY <1>1, <1>7 DEF NoRoom
  <2> QED
      BY <1>4, <1>7, <2>1, FoundKept
<1>8. CASE ~IsPtrSearch(z) /\ z.found = None
  <2>1. ParseTxt(x, r) = z
      BY <1>1, <1>8 DEF NoRoom
  <2> QED
      BY <1>4, <2>1
<1> QED
    BY <1>5, <1>6, <1>7, <1>8

\* An address goes to the search that is found and to those after it that want it.
LEMMA AddIpToAllKept ==
    ASSUME Ready, NEW x \in Parsing, x.found # None, NEW p \in Packets, NEW i \in DOMAIN p,
           p[i] \in Record, p[i].type = "A", Meant(x, p[i])
    PROVE  QueryAddIpToAll(x, p[i]) \in Parsing
<1> DEFINE r == p[i]
           f == [s \in Searches |-> IF GetsAddress(x, s, r)
                                    THEN QueryAddIp(x.search[s], r.name, r.data) ELSE x.search[s]]
           y == [x EXCEPT !.found = None, !.search = f]
<1>1. QueryAddIpToAll(x, r) = y
    BY DEF QueryAddIpToAll
<1>2. x.slist = slist /\ x.found \in Range(slist)
    BY DEF Parsing, Browsing, SearchesKept, Pointers
<1>10. ASSUME NEW s \in Searches, GetsAddress(x, s, r)
       PROVE  s \in Range(slist) /\ (Wants(x.search[s], r) \/ IsOwn(r))
    BY <1>2, <1>10 DEF GetsAddress, Before, Meant, Search, Range
<1>3. ASSUME NEW s \in Searches, search[s] # None PROVE Grown(search[s], f[s])
  <2>1. Grown(search[s], x.search[s])
      BY <1>3 DEF Parsing, Browsing, SearchesKept
  <2>2. CASE GetsAddress(x, s, r)
    <3>1. Grown(x.search[s], QueryAddIp(x.search[s], r.name, r.data))
        BY <1>10, <2>2, FoundIs, AddIpGrows
    <3>2. f[s] = QueryAddIp(x.search[s], r.name, r.data)
        BY <2>2
    <3> QED
        BY <2>1, <3>1, <3>2, GrownTwice
  <2>3. CASE ~GetsAddress(x, s, r)
    <3>1. f[s] = x.search[s]
        BY <2>3
    <3> QED
        BY <2>1, <3>1
  <2> QED
      BY <2>2, <2>3
<1>4. ASSUME NEW s \in Searches, search[s] = None PROVE f[s] = None
  <2>1. s \notin Range(slist) /\ x.search[s] = None
      BY <1>4 DEF Ready, Parsing, Browsing, SearchesKept
  <2> QED
      BY <1>10, <2>1
<1>5. DOMAIN f = Searches /\ f = [s \in Searches |-> f[s]]
    OBVIOUS
<1> HIDE DEF f
<1>6. f \in [Searches -> SearchType \cup {None}]
    BY <1>3, <1>4, <1>5 DEF Grown
<1>7. /\ y \in ParserType /\ y.search = f /\ y.slist = x.slist /\ y.browse = x.browse
      /\ y.blist = x.blist /\ y.found = None /\ y.hit = x.hit /\ y.packet = x.packet
      /\ y.sync = x.sync
    BY <1>6 DEF Parsing, Browsing, ParserType
<1> HIDE DEF y
<1>8. SearchesKept(y)
    BY <1>2, <1>3, <1>4, <1>7 DEF SearchesKept
<1>9. BrowsesKept(y) /\ Pointers(y)
    BY <1>7, BrowsesStillKept DEF Parsing, Browsing, Pointers
<1> QED
    BY <1>1, <1>7, <1>8, <1>9 DEF Parsing, Browsing

\* An address: kept for the browse, and added to the searches.
LEMMA ParseAddressKept ==
    ASSUME Ready, NEW x \in Parsing, NEW p \in Packets, NEW i \in DOMAIN p,
           p[i] \in Record, p[i].type = "A", Meant(x, p[i])
    PROVE  ParseAddress(x, p[i]) \in Parsing
<1> DEFINE r == p[i]
           b == IF x.hit # None THEN x.hit ELSE x.packet
           z == EnsureSync(x, b)
           staged == <<r>> \o z.staged
           w == [z EXCEPT !.staged = staged]
           y == IF b = None THEN x ELSE w
<1>1. b # None => b \in Range(blist) /\ b \in Browses
    BY ListsIn DEF Parsing, Browsing, Pointers
<1>2. b # None => z \in Parsing /\ CachesOnly(x, z)
    BY <1>1, EnsureSyncKept, CachesOnlyKept DEF Parsing
<1>3. ParseAddress(x, r) \in {x, y} \/ (y.found # None /\ ParseAddress(x, r) = QueryAddIpToAll(y, r))
    BY DEF ParseAddress
<1> HIDE DEF b, z
<1>4. b # None => w \in Parsing /\ w.search = x.search /\ w.found = x.found
  <2> SUFFICES ASSUME b # None PROVE w \in Parsing /\ w.search = x.search /\ w.found = x.found
      OBVIOUS
  <2>1. staged \in Seq(Record)
      BY <1>2 DEF Parsing, Browsing, ParserType
  <2> HIDE DEF staged
  <2>2. /\ w \in ParserType /\ w.search = z.search /\ w.slist = z.slist /\ w.browse = z.browse
        /\ w.blist = z.blist /\ w.found = z.found /\ w.hit = z.hit /\ w.packet = z.packet
        /\ w.sync = z.sync
      BY <1>2, <2>1 DEF Parsing, Browsing, ParserType
  <2> HIDE DEF w
  <2>3. w.search = x.search /\ w.found = x.found
      BY <1>2, <2>2 DEF CachesOnly
  <2> QED
      BY <1>2, <2>2, <2>3, BrowsesStillKept DEF Parsing, Browsing, SearchesKept, Pointers
<1>5. y \in Parsing /\ Meant(y, r)
    BY <1>4 DEF Meant, Search
<1> HIDE DEF y
<1> QED
    BY <1>3, <1>5, AddIpToAllKept

\* Any record of a packet.
LEMMA ParseRecordKept ==
    ASSUME Ready, NEW x \in Parsing, NEW p \in Packets,
           NEW i \in DOMAIN p
    PROVE  ParseRecord(x, p[i]) \in Parsing
<1> DEFINE r == p[i]
           y == Look(x, r)
           w == [x EXCEPT !.cut = TRUE]
<1>1. r \in Record
    BY ClientAssumption
<1>2. y \in Parsing /\ Meant(y, r)
    BY <1>1, LookKept
<1>3. r.type \in {"A", "PTR", "SRV", "TXT", "BAD"}
    BY <1>1 DEF Record
<1>4. ParseReadable(x, r) = CASE r.type = "PTR" -> ParsePtr(y, r)
                              [] r.type = "SRV" -> ParseSrv(y, r)
                              [] r.type = "TXT" -> ParseTxt(y, r)
                              [] r.type = "A" -> ParseAddress(y, r)
    BY DEF ParseReadable
<1> HIDE DEF y
<1>5. r.type = "PTR" => ParsePtr(y, r) \in Parsing
    BY <1>1, <1>2, ParsePtrKept
<1>6. r.type = "SRV" => ParseSrv(y, r) \in Parsing
    BY <1>1, <1>2, ParseSrvKept
<1>7. r.type = "TXT" => ParseTxt(y, r) \in Parsing
    BY <1>1, <1>2, ParseTxtKept
<1>8. r.type = "A" => ParseAddress(y, r) \in Parsing
    BY <1>1, <1>2, ParseAddressKept
<1>9. r.type # "BAD" => ParseReadable(x, r) \in Parsing
    BY <1>3, <1>4, <1>5, <1>6, <1>7, <1>8
<1>10. w \in Parsing
  <2>1. /\ w \in ParserType /\ w.search = x.search /\ w.slist = x.slist /\ w.browse = x.browse
        /\ w.blist = x.blist /\ w.found = x.found /\ w.hit = x.hit /\ w.packet = x.packet
        /\ w.sync = x.sync
      BY DEF Parsing, Browsing, ParserType
  <2> HIDE DEF w
  <2> QED
      BY <2>1, BrowsesStillKept DEF Parsing, Browsing, SearchesKept, Pointers
<1>11. ParseRecord(x, r) \in {x, w} \/ (r.type # "BAD" /\ ParseRecord(x, r) = ParseReadable(x, r))
    BY DEF ParseRecord
<1> HIDE DEF w
<1> QED
    BY <1>9, <1>10, <1>11

\* After the last record of a packet.
Parsed(records) ==
    LET parsed[i \in 0 .. Len(records)] ==
          IF i = 0 THEN Parser ELSE ParseRecord(parsed[i - 1], records[i])
    IN  parsed[Len(records)]
\* The parser is as it should be after every record, so after the last.
LEMMA ParsedIn ==
    ASSUME Ready, NEW p \in Packets
    PROVE  /\ Parsed(p) \in Parsing
           /\ ParsePacket(p) = IF Parsed(p).cut THEN Parsed(p)
                               ELSE ApplyStaged(QueryDone(Parsed(p)))
<1> DEFINE n == Len(p)
           S == Parsing
           step == [ix \in (1 .. n) \X S |-> ParseRecord(ix[2], p[ix[1]])]
           Next1(g, i) == IF i = 0 THEN Parser ELSE ParseRecord(g[i - 1], p[i])
           parsed == CHOOSE g : g = [i \in 0 .. n |-> Next1(g, i)]
<1>1. n \in Nat /\ DOMAIN p = 1 .. n
    BY ClientAssumption
<1>2. /\ Parsed(p) = parsed[n]
      /\ ParsePacket(p) = IF parsed[n].cut THEN parsed[n] ELSE ApplyStaged(QueryDone(parsed[n]))
    BY DEF Parsed, ParsePacket
<1>3. ASSUME NEW i \in 1 .. n, NEW x \in S
      PROVE  ParseRecord(x, p[i]) \in S /\ step[<<i, x>>] = ParseRecord(x, p[i])
    BY <1>1, ParseRecordKept
<1>4. step \in [(1 .. n) \X S -> S]
    BY <1>3
<1>5. Parser \in S
    BY ParserStarts
<1> HIDE DEF n, S, step, parsed
<1>6. PICK g \in [0 .. n -> S] : Recurs(n, Parser, step, g)
    BY <1>1, <1>4, <1>5, Recursion
<1>7. g = [i \in 0 .. n |-> Next1(g, i)]
  <2>1. ASSUME NEW i \in 0 .. n PROVE g[i] = Next1(g, i)
    <3>1. CASE i = 0
        BY <1>6, <3>1 DEF Recurs
    <3>2. CASE i \in 1 .. n
      <4>1. g[i] = step[<<i, g[i - 1]>>]
          BY <1>6, <3>2 DEF Recurs
      <4>2. g[i - 1] \in S /\ i # 0
          BY <1>1, <1>6, <3>2
      <4> QED
          BY <1>3, <3>2, <4>1, <4>2
    <3> QED
        BY <1>1, <3>1, <3>2
  <2> QED
      BY <2>1
<1>8. parsed = [i \in 0 .. n |-> Next1(parsed, i)]
  <2> HIDE DEF Next1
  <2> QED
      BY <1>7 DEF parsed
<1> DEFINE T == {i \in 0 .. n : parsed[i] \in S}
<1>9. 0 \in T
    BY <1>1, <1>5, <1>8
<1>10. \A i \in 0 .. n - 1 : i \in T => i + 1 \in T
  <2> SUFFICES ASSUME NEW i \in 0 .. n - 1, parsed[i] \in S
               PROVE  i + 1 \in 0 .. n /\ parsed[i + 1] \in S
      OBVIOUS
  <2>1. i + 1 \in 1 .. n /\ i + 1 \in 0 .. n /\ i + 1 # 0 /\ (i + 1) - 1 = i
      BY <1>1
  <2>2. parsed[i + 1] = Next1(parsed, i + 1)
      BY <1>8, <2>1
  <2>3. parsed[i + 1] = ParseRecord(parsed[i], p[i + 1])
      BY <2>1, <2>2
  <2> QED
      BY <1>3, <2>1, <2>3
<1>11. 0 .. n \subseteq T
  <2> HIDE DEF T
  <2> QED
      BY <1>1, <1>9, <1>10, UpFromZero
<1> QED
    BY <1>1, <1>2, <1>11 DEF S

\* A search that is finished keeps what it has.
LEMMA FinishedIs ==
    ASSUME NEW q \in SearchType, Good(q)
    PROVE  LET y == Finished(q)
           IN  /\ y \in SearchType /\ Good(y) /\ y.done /\ y.state = "off"
               /\ q.expired \/ Enough(q) => y.ended = "rightly"
<1> DEFINE y == Finished(q)
<1>1. /\ y \in SearchType /\ y.done /\ y.state = "off" /\ y.results = q.results
      /\ y.max = q.max /\ y.type = q.type /\ y.svc = q.svc /\ y.name = q.name
      /\ y.ended = IF q.expired \/ Enough(q) THEN "rightly" ELSE "early"
    BY DEF Finished, SearchType
<1> HIDE DEF y
<1>2. Good(y)
    BY <1>1 DEF Good, Belongs
<1> QED
    BY <1>1, <1>2 DEF y

\* What is finished leaves the list; nothing else changes.
LEMMA FinishAllIs ==
    ASSUME Ready, NEW x \in Parsing, NEW over, over \subseteq Range(slist)
    PROVE  LET y == FinishAll(x, over)
           IN  /\ y \in Browsing
               /\ y.slist = Without(slist, over)
               /\ \A s \in Searches : y.search[s] = IF s \in over THEN Finished(x.search[s])
                                                    ELSE x.search[s]
               /\ y.browse = x.browse /\ y.sync = x.sync
<1> DEFINE f == [s \in Searches |-> IF s \in over THEN Finished(x.search[s]) ELSE x.search[s]]
           w == Without(x.slist, over)
           y == [x EXCEPT !.slist = w, !.search = f]
<1>1. x.slist = slist /\ slist \in Seq(Searches)
    BY DEF Parsing, SearchesKept, Ready, TypeOK
<1>2. w \in Seq(Searches)
    BY <1>1, WithoutIs
<1>3. FinishAll(x, over) = y
    BY DEF FinishAll
<1>4. f \in [Searches -> SearchType \cup {None}]
  <2>1. ASSUME NEW s \in Searches PROVE f[s] \in SearchType \cup {None}
    <3>1. s \in over => Finished(x.search[s]) \in SearchType
        BY FoundIs, FinishedIs
    <3>2. x.search[s] \in SearchType \cup {None}
        BY DEF Parsing, Browsing, ParserType
    <3> QED
        BY <3>1, <3>2
  <2> QED
      BY <2>1
<1>5. \A s \in Searches : f[s] = IF s \in over THEN Finished(x.search[s]) ELSE x.search[s]
    OBVIOUS
<1> HIDE DEF f, w
<1>6. /\ y \in ParserType /\ y.search = f /\ y.slist = w /\ y.browse = x.browse
      /\ y.blist = x.blist /\ y.found = x.found /\ y.hit = x.hit /\ y.packet = x.packet
      /\ y.sync = x.sync
    BY <1>2, <1>4 DEF Parsing, Browsing, ParserType
<1> HIDE DEF y
<1>7. y \in Browsing
    BY <1>6, BrowsesStillKept DEF Parsing, Browsing, Pointers
<1> QED
    BY <1>1, <1>3, <1>5, <1>6, <1>7 DEF w

\* The addresses that were kept go to the cache; the searches stay.
LEMMA ApplyStagedKept ==
    ASSUME Ready, NEW x \in Browsing
    PROVE  ApplyStaged(x) \in Browsing /\ CachesOnly(x, ApplyStaged(x))
<1> DEFINE b == IF x.packet # None THEN x.packet ELSE IF x.sync # None THEN x.sync.browse ELSE None
           y == EnsureSync(x, b)
           c == BrowseAddIps(Cache(y, b), x.staged)
<1>1. ApplyStaged(x) = IF x.staged = <<>> \/ b = None THEN x ELSE Cached(y, b, c)
    BY DEF ApplyStaged
<1>2. b # None => b \in Range(blist) /\ b \in Browses
    BY ListsIn DEF Browsing, Pointers
<1>3. x.staged \in Seq(Record)
    BY DEF Browsing, ParserType
<1> HIDE DEF b
<1>4. CASE b # None
  <2>1. y \in Browsing /\ CachesOnly(x, y)
      BY <1>2, <1>4, EnsureSyncKept
  <2> HIDE DEF y
  <2>2. Syncs(y, b) => c \in CacheType /\ Noting(Cache(y, b), c)
      BY <1>2, <1>3, <1>4, <2>1, CacheIs, BrowseAddIpsKept
  <2> HIDE DEF c
  <2>3. Cached(y, b, c) \in Browsing /\ CachesOnly(y, Cached(y, b, c))
      BY <1>2, <1>4, <2>1, <2>2, CachedKept
  <2> QED
      BY <1>1, <2>1, <2>3 DEF CachesOnly
<1>5. CASE b = None
    BY <1>1, <1>5 DEF CachesOnly
<1> QED
    BY <1>4, <1>5

\* What becomes of a search when a packet is received: it has grown, or it has left the
\* list because it has enough, which is not looked at when the packet is cut.
LEMMA ParsePacketIs ==
    ASSUME Ready, NEW p \in Packets
    PROVE  LET x == ParsePacket(p)
               over == {s \in Range(slist) : ~Parsed(p).cut /\ Enough(Parsed(p).search[s])}
           IN  /\ x \in Browsing
               /\ x.slist \in Seq(Searches) /\ Range(x.slist) = {s \in Range(slist) : s \notin over}
               /\ IsInjective(slist) => IsInjective(x.slist)
               /\ \A s \in Searches :
                    IF search[s] = None THEN x.search[s] = None
                    ELSE IF s \in over
                    THEN /\ x.search[s] \in SearchType /\ Good(x.search[s])
                         /\ x.search[s].ended = "rightly"
                    ELSE Grown(search[s], x.search[s])
<1> DEFINE z == Parsed(p)
           over == {s \in Range(slist) : ~z.cut /\ Enough(z.search[s])}
           y == FinishAll(z, over)
           x == ParsePacket(p)
<1>1. z \in Parsing /\ x = IF z.cut THEN z ELSE ApplyStaged(QueryDone(z))
    BY ParsedIn
<1> HIDE DEF z
<1>2. z.slist = slist /\ slist \in Seq(Searches)
    BY <1>1 DEF Parsing, SearchesKept, Ready, TypeOK
<1>3. CASE z.cut
  <2>1. x = z
      BY <1>1, <1>3
  <2> HIDE DEF x
  <2>2. over = {}
      BY <1>3
  <2> HIDE DEF over
  <2> QED
      BY <1>1, <1>2, <2>1, <2>2 DEF Parsing, SearchesKept, x, z, over
<1>4. CASE ~z.cut
  <2>1. x = ApplyStaged(QueryDone(z))
      BY <1>1, <1>4
  <2>2. QueryDone(z) = y
      BY <1>2, <1>4 DEF QueryDone
  <2>3. over \subseteq Range(slist)
      OBVIOUS
  <2>4. \A s \in over : Enough(z.search[s])
      OBVIOUS
  <2> HIDE DEF x, over
  <2>5. /\ y \in Browsing /\ y.slist = Without(slist, over)
        /\ \A s \in Searches : y.search[s] = IF s \in over THEN Finished(z.search[s]) ELSE z.search[s]
      BY <1>1, <2>3, FinishAllIs
  <2> HIDE DEF y
  <2>6. x \in Browsing /\ x.search = y.search /\ x.slist = y.slist
      BY <2>1, <2>2, <2>5, ApplyStagedKept DEF CachesOnly
  <2>7. /\ x.slist \in Seq(Searches) /\ Range(x.slist) = {s \in Range(slist) : s \notin over}
        /\ IsInjective(slist) => IsInjective(x.slist)
      BY <1>2, <2>5, <2>6, WithoutIs
  <2>8. ASSUME NEW s \in Searches
        PROVE  IF search[s] = None THEN x.search[s] = None
               ELSE IF s \in over
               THEN /\ x.search[s] \in SearchType /\ Good(x.search[s])
                    /\ x.search[s].ended = "rightly"
               ELSE Grown(search[s], x.search[s])
    <3>1. CASE s \in over
      <4>1. search[s] # None /\ Enough(z.search[s]) /\ s \in Range(slist)
          BY <2>3, <2>4, <3>1 DEF Ready
      <4>2. z.search[s] \in SearchType /\ Good(z.search[s])
          BY <1>1, <4>1, FoundIs
      <4>3. x.search[s] = Finished(z.search[s])
          BY <2>5, <2>6, <3>1
      <4> QED
          BY <3>1, <4>1, <4>2, <4>3, FinishedIs
    <3>2. CASE s \notin over
      <4>1. x.search[s] = z.search[s]
          BY <2>5, <2>6, <3>2
      <4> QED
          BY <1>1, <3>2, <4>1 DEF Parsing, SearchesKept
    <3> QED
        BY <3>1, <3>2
  <2> QED
      BY <2>6, <2>7, <2>8 DEF z, x, over
<1> QED
    BY <1>3, <1>4

\* What is posted is a notice for a browse in the list.
LEMMA SyncActionIs ==
    ASSUME Ready, NEW x \in Browsing, SyncAction(x) # <<>>
    PROVE  LET a == SyncAction(x)[1]
           IN  /\ a \in ActionType /\ a.type = "browse_sync" /\ a.arg.browse \in Range(blist)
               /\ a.arg.live
               /\ \A b, i : a.arg.browse = b /\ i \in Range(a.arg.changed) <=> NotedIn(x, b, i)
<1> DEFINE n == [browse |-> x.sync.browse, changed |-> x.sync.changed, live |-> TRUE]
<1>1. x.sync # None /\ SyncAction(x) = <<Action("browse_sync", n)>>
    BY DEF SyncAction
<1>2. n \in NotifyType /\ n.browse \in Range(blist) /\ n.live
    BY <1>1 DEF Browsing, ParserType, SyncType, Pointers, NotifyType
<1>3. \A b, i : n.browse = b /\ i \in Range(n.changed) <=> NotedIn(x, b, i)
    BY <1>1 DEF NotedIn, Syncs
<1> HIDE DEF n
<1> QED
    BY <1>1, <1>2, <1>3 DEF Action, ActionType

-----------------------------------------------------------------------------
(* The line: the action that is executed and those that wait, in their order. *)

\* What is executed, and what waits for it.
Line == (IF running = None THEN <<>> ELSE <<running>>) \o queue
\* The search_add of a search, and its search_end.
Add(s) == Action("search_add", s)
End(s) == Action("search_end", s)

\* One place in two lines: a notice may have lost its browse.
SamePlace(a, b) == a = b \/ (a.type = "browse_sync" /\ b.type = "browse_sync" /\ ~b.arg.live)
\* The line has moved up by k, and one of "more" may have joined it.
Moves(k, more, old, new) ==
    \A i \in DOMAIN new :
      /\ i \in Nat
      /\ \/ i + k \in DOMAIN old /\ SamePlace(old[i + k], new[i])
         \/ i = Len(new) /\ i + k = Len(old) + 1 /\ new[i] \in more

\* Where the queue is in the line.
LEMMA LineIs ==
    ASSUME TypeOK
    PROVE  /\ Line \in Seq(ActionType) /\ DOMAIN Line = 1 .. Len(Line) /\ Len(Line) \in Nat
           /\ running = None => Line = queue
           /\ running # None => /\ Len(Line) = Len(queue) + 1 /\ Line[1] = running
                                /\ \A i \in DOMAIN queue : Line[i + 1] = queue[i]
<1>1. queue \in Seq(ActionType) /\ running \in ActionType \cup {None}
    BY DEF TypeOK
<1>2. CASE running = None
    BY <1>1, <1>2 DEF Line
<1>3. CASE running # None
  <2>1. Line = <<running>> \o queue /\ running \in ActionType
      BY <1>1, <1>3 DEF Line
  <2> QED
      BY <1>1, <1>3, <2>1
<1> QED
    BY <1>2, <1>3

\* The line is a sequence of actions.
LEMMA LineType ==
    ASSUME TypeOK
    PROVE  Line \in Seq(ActionType) /\ DOMAIN Line = 1 .. Len(Line) /\ Len(Line) \in Nat
BY LineIs

\* A push keeps the limit of the queue.
LEMMA PushIs ==
    ASSUME TypeOK, NEW a \in ActionType
    PROVE  /\ Push(queue, a) \in Seq(ActionType) /\ Len(Push(queue, a)) <= QueueLen
           /\ Push(queue, a) = IF Full THEN queue ELSE Append(queue, a)
BY ClientAssumption DEF TypeOK, Push, Full

\* A step that touches neither leaves the line.
LEMMA LineStays ==
    ASSUME TypeOK, UNCHANGED <<running, queue>>
    PROVE  Line' = Line /\ Moves(0, {}, Line, Line')
<1>1. Line' = Line
    BY DEF Line
<1>2. \A i \in DOMAIN Line : i \in Nat /\ i + 0 = i
    BY LineType
<1> QED
    BY <1>1, <1>2 DEF Moves, SamePlace

\* To take the head of the queue leaves the line.
LEMMA LineTaken ==
    ASSUME TypeOK, Take
    PROVE  Moves(0, {}, Line, Line')
<1>1. /\ queue \in Seq(ActionType) /\ queue # <<>> /\ running = None
      /\ running' = Head(queue) /\ queue' = Tail(queue)
    BY DEF TypeOK, Take
<1>2. Head(queue) \in ActionType /\ queue = <<Head(queue)>> \o Tail(queue)
    BY <1>1
<1>3. running' # None
    BY <1>1, <1>2, NoneIsNone
<1>4. Line = queue /\ Line' = <<Head(queue)>> \o Tail(queue)
    BY <1>1, <1>3, LineIs DEF Line
<1>5. Line' = Line
    BY <1>2, <1>4
<1>6. \A i \in DOMAIN Line : i \in Nat /\ i + 0 = i
    BY LineType
<1> QED
    BY <1>5, <1>6 DEF Moves, SamePlace

\* A push puts the action at the end of the line, unless the queue is full.
LEMMA LineGrows ==
    ASSUME TypeOK, NEW a \in ActionType, running' = running,
           queue' = Push(queue, a)
    PROVE  Moves(0, IF Full THEN {} ELSE {a}, Line, Line')
<1>1. CASE Full
  <2>1. queue' = queue
      BY <1>1, PushIs
  <2> QED
      BY <1>1, <2>1, LineStays
<1>2. CASE ~Full
  <2>1. queue' = Append(queue, a) /\ queue \in Seq(ActionType)
      BY <1>2, PushIs DEF TypeOK
  <2>2. Line' = Append(Line, a)
    <3>1. CASE running = None
        BY <2>1, <3>1, LineIs DEF Line
    <3>2. CASE running # None
      <4>1. Line = <<running>> \o queue /\ Line' = <<running>> \o Append(queue, a)
          BY <2>1, <3>2 DEF Line
      <4>2. running \in ActionType
          BY <3>2 DEF TypeOK
      <4> QED
          BY <2>1, <4>1, <4>2
    <3> QED
        BY <3>1, <3>2
  <2>3. /\ DOMAIN Line' = 1 .. Len(Line) + 1 /\ Len(Line') = Len(Line) + 1
        /\ \A i \in 1 .. Len(Line) : Line'[i] = Line[i]
        /\ Line'[Len(Line) + 1] = a
      BY <2>2, LineType
  <2>4. \A i \in DOMAIN Line' : i \in Nat /\ i + 0 = i /\ (i \in DOMAIN Line \/ i = Len(Line) + 1)
      BY <2>3, LineType
  <2> QED
      BY <1>2, <2>3, <2>4, LineType DEF Moves, SamePlace
<1> QED
    BY <1>1, <1>2

\* What is executed leaves the line.
LEMMA LineMovesUp ==
    ASSUME TypeOK, running # None, running' = None, queue' = queue
    PROVE  Moves(1, {}, Line, Line')
<1>1. Line' = queue /\ queue \in Seq(ActionType)
    BY DEF TypeOK, Line
<1>2. \A i \in DOMAIN queue : i \in Nat /\ i + 1 \in DOMAIN Line /\ Line[i + 1] = queue[i]
    BY <1>1, LineIs
<1> QED
    BY <1>1, <1>2 DEF Moves, SamePlace

\* What is executed leaves the line, and what it posts joins it.
LEMMA LineMovesAndGrows ==
    ASSUME TypeOK, running # None, running' = None, NEW a \in ActionType,
           queue' = Push(queue, a)
    PROVE  Moves(1, {a}, Line, Line')
<1>1. Line' = queue' /\ queue \in Seq(ActionType)
    BY PushIs DEF TypeOK, Line
<1>2. \A i \in DOMAIN queue : i \in Nat /\ i + 1 \in DOMAIN Line /\ Line[i + 1] = queue[i]
    BY <1>1, LineIs
<1>3. CASE Full
    BY <1>1, <1>2, <1>3, PushIs DEF Moves, SamePlace
<1>4. CASE ~Full
  <2>1. queue' = Append(queue, a)
      BY <1>4, PushIs
  <2>2. \A i \in DOMAIN queue' :
          i \in Nat /\ (i \in DOMAIN queue \/ (i = Len(queue') /\ i = Len(queue) + 1))
    <3> DEFINE n == Len(queue)
    <3>1. n \in Nat /\ DOMAIN queue = 1 .. n
        BY <1>1
    <3>2. Len(queue') = n + 1 /\ DOMAIN queue' = 1 .. n + 1
        BY <1>1, <2>1
    <3> HIDE DEF n
    <3>3. \A i \in 1 .. n + 1 : i \in Nat /\ (i \in 1 .. n \/ i = n + 1)
        BY <3>1
    <3> QED
        BY <3>1, <3>2, <3>3 DEF n
  <2>3. queue'[Len(queue) + 1] = a /\ \A i \in DOMAIN queue : queue'[i] = queue[i]
      BY <1>1, <2>1
  <2>4. Len(queue) + 1 + 1 = Len(Line) + 1
      BY <1>1, LineIs
  <2> QED
      BY <1>1, <1>2, <2>2, <2>3, <2>4 DEF Moves, SamePlace
<1> QED
    BY <1>3, <1>4

\* What has not joined a line was there.
LEMMA OldPlace ==
    ASSUME TypeOK, NEW k \in {0, 1}, NEW more, Moves(k, more, Line, Line'),
           NEW i \in DOMAIN Line',
           Line'[i].type # "browse_sync", Line'[i] \notin more
    PROVE  i + k \in DOMAIN Line /\ Line[i + k] = Line'[i]
BY DEF Moves, SamePlace

-----------------------------------------------------------------------------
(* The inductive invariant.                                                   *)

\* A search whose search_add waits in the line is as it was made and in no list, it is
\* added once, and no search_end is behind the search_add: that of an earlier search at
\* the address is in front of it, and finds nothing in the list.
Waiting(s) == /\ search[s] # None /\ search[s].state = "init" /\ ~search[s].done
              /\ s \notin Range(slist)
AddsInOrder ==
    \A s \in Searches, i \in DOMAIN Line : Line[i] = Add(s) =>
      /\ Waiting(s)
      /\ \A j \in DOMAIN Line : (j # i => Line[j] # Add(s)) /\ (j > i => Line[j] # End(s))
\* A search in the list is there, and one that is to end is over.
Listed(s) == search[s] # None /\ ~search[s].done
EndsExpired ==
    \A s \in Range(slist) :
      Listed(s) /\ ((\E i \in DOMAIN Line : Line[i] = End(s)) => search[s].expired)
\* The list has no search twice, and the timer walks over searches of the list.
ListInv == IsInjective(slist) /\ EndsExpired /\ Range(scan) \subseteq Range(slist)
\* A browse that waits to be added is there and in no list; a notice that lives has a
\* browse in the list.
Joining(b) == browse[b] # None /\ b \notin Range(blist)
BrowseAdds ==
    \A b \in Browses, i \in DOMAIN Line : Line[i] = Action("browse_add", b) =>
      Joining(b) /\ \A j \in DOMAIN Line : j # i => Line[j] # Line[i]
NoticesLive ==
    \A i \in DOMAIN Line : Line[i].type = "browse_sync" /\ Line[i].arg.live
                             => Line[i].arg.browse \in Range(blist)
\* The browses of the list, and those the line leads to, are there.
BrowseInv == (\A b \in Range(blist) : browse[b] # None) /\ BrowseAdds /\ NoticesLive
\* The inductive invariant.
IInv == TypeOK /\ AddsInOrder /\ ListInv /\ EndsRightly /\ ResultsGood /\ BrowseInv

\* A packet may be received at any time.
LEMMA IInvReady == ASSUME IInv PROVE Ready
BY DEF IInv, ListInv, EndsExpired, Listed, BrowseInv, Ready

\* What an action is made of.
LEMMA ActionIs ==
    \A t, a : Action(t, a).type = t /\ Action(t, a).arg = a
BY DEF Action

\* The order of the line is kept when the line only moves up, and what joins it is no
\* search_add, nor the search_end of a search that is in no list.
LEMMA AddsKept ==
    ASSUME TypeOK, AddsInOrder, NEW k \in {0, 1}, NEW more, Moves(k, more,
           Line, Line'),
           \A s \in Searches : Add(s) \notin more,
           \A s \in Searches : End(s) \in more => s \in Range(slist),
           \A s \in Searches :
             Waiting(s) /\ (\E i \in DOMAIN Line' : Line'[i] = Add(s)) => Waiting(s)'
    PROVE  AddsInOrder'
<1> SUFFICES ASSUME NEW s \in Searches, NEW i \in DOMAIN Line', Line'[i] = Add(s)
             PROVE  /\ Waiting(s)'
                    /\ \A j \in DOMAIN Line' : (j # i => Line'[j] # Add(s)) /\ (j > i => Line'[j] # End(s))
    BY DEF AddsInOrder
<1>1. Add(s).type = "search_add" /\ End(s).type = "search_end"
    BY ActionIs DEF Add, End
<1>2. i + k \in DOMAIN Line /\ Line[i + k] = Add(s)
    BY <1>1, OldPlace
<1>3. /\ Waiting(s)
      /\ \A j \in DOMAIN Line :
           (j # i + k => Line[j] # Add(s)) /\ (j > i + k => Line[j] # End(s))
    BY <1>2 DEF AddsInOrder
<1>4. ASSUME NEW j \in DOMAIN Line', j # i PROVE Line'[j] # Add(s)
  <2> SUFFICES ASSUME Line'[j] = Add(s) PROVE FALSE
      OBVIOUS
  <2>1. j + k \in DOMAIN Line /\ Line[j + k] = Add(s)
      BY <1>1, OldPlace
  <2>2. i \in Nat /\ j \in Nat
      BY DEF Moves
  <2> QED
      BY <1>3, <1>4, <2>1, <2>2
<1>5. ASSUME NEW j \in DOMAIN Line', j > i PROVE Line'[j] # End(s)
  <2> SUFFICES ASSUME Line'[j] = End(s) PROVE FALSE
      OBVIOUS
  <2>1. End(s) \notin more
      BY <1>3 DEF Waiting
  <2>2. j + k \in DOMAIN Line /\ Line[j + k] = End(s)
      BY <1>1, <2>1, OldPlace
  <2>3. i \in Nat /\ j \in Nat
      BY DEF Moves
  <2> QED
      BY <1>3, <1>5, <2>2, <2>3
<1>6. Waiting(s)'
    BY <1>3
<1> QED
    BY <1>4, <1>5, <1>6

\* A search that is to end stays over.
LEMMA EndsKept ==
    ASSUME TypeOK, EndsExpired, NEW k \in {0, 1}, NEW more, Moves(k, more,
           Line, Line'),
           \A s \in Range(slist') :
             /\ s \in Range(slist) /\ Listed(s)'
             /\ search[s].expired \/ End(s) \in more => search'[s].expired
    PROVE  EndsExpired'
<1> SUFFICES ASSUME NEW s \in Range(slist'), NEW i \in DOMAIN Line', Line'[i] = End(s)
             PROVE  search'[s].expired
    BY DEF EndsExpired
<1>1. End(s).type = "search_end"
    BY ActionIs DEF End
<1>2. End(s) \notin more => search[s].expired
  <2> SUFFICES ASSUME End(s) \notin more PROVE search[s].expired
      OBVIOUS
  <2>1. i + k \in DOMAIN Line /\ Line[i + k] = End(s)
      BY <1>1, OldPlace
  <2> QED
      BY <2>1 DEF EndsExpired
<1> QED
    BY <1>2

\* A step that leaves the searches alone.
LEMMA SearchesStay ==
    ASSUME IInv, UNCHANGED <<search, slist>>,
           Range(scan') \subseteq Range(slist),
           NEW k \in {0, 1}, NEW more, Moves(k, more, Line, Line'),
           \A a \in more : a.type \notin {"search_add", "search_end"}
    PROVE  AddsInOrder' /\ ListInv' /\ EndsRightly' /\ ResultsGood'
<1>1. \A s : Add(s) \notin more /\ End(s) \notin more
    BY ActionIs DEF Add, End
<1>2. AddsInOrder'
    BY <1>1, AddsKept DEF IInv, Waiting
<1>3. EndsExpired'
    BY <1>1, EndsKept DEF IInv, ListInv, EndsExpired, Listed
<1> QED
    BY <1>2, <1>3 DEF IInv, ListInv, EndsRightly, ResultsGood

\* The browses that wait to be added are still there, and in no list.
LEMMA BrowseAddsKept ==
    ASSUME TypeOK, BrowseAdds, NEW k \in {0, 1}, NEW more, Moves(k, more,
           Line, Line'),
           \A a \in more : a.type # "browse_add",
           \A b \in Browses :
             /\ Joining(b)
             /\ \E i \in DOMAIN Line' : Line'[i] = Action("browse_add", b)
             => Joining(b)'
    PROVE  BrowseAdds'
<1> SUFFICES ASSUME NEW b \in Browses, NEW i \in DOMAIN Line', Line'[i] = Action("browse_add", b)
             PROVE  Joining(b)' /\ \A j \in DOMAIN Line' : j # i => Line'[j] # Line'[i]
    BY DEF BrowseAdds
<1>1. i + k \in DOMAIN Line /\ Line[i + k] = Action("browse_add", b)
    BY ActionIs, OldPlace
<1>2. Joining(b) /\ \A j \in DOMAIN Line : j # i + k => Line[j] # Action("browse_add", b)
    BY <1>1 DEF BrowseAdds
<1>3. ASSUME NEW j \in DOMAIN Line', j # i, Line'[j] = Action("browse_add", b)
      PROVE FALSE
  <2>1. j + k \in DOMAIN Line /\ Line[j + k] = Action("browse_add", b)
      BY <1>3, ActionIs, OldPlace
  <2>2. i \in Nat /\ j \in Nat
      BY DEF Moves
  <2> QED
      BY <1>2, <1>3, <2>1, <2>2
<1> QED
    BY <1>2, <1>3

\* No browse with a notice on its way leaves the list.
LEMMA NoticesKept ==
    ASSUME NoticesLive, NEW k \in {0, 1}, NEW more, Moves(k, more, Line,
           Line'),
           Range(blist) \subseteq Range(blist'),
           \A a \in more : a.type = "browse_sync" => a.arg.browse \in Range(blist')
    PROVE  NoticesLive'
<1> SUFFICES ASSUME NEW i \in DOMAIN Line', Line'[i].type = "browse_sync", Line'[i].arg.live
             PROVE  Line'[i].arg.browse \in Range(blist')
    BY DEF NoticesLive
<1>1. (i + k \in DOMAIN Line /\ Line[i + k] = Line'[i]) \/ Line'[i] \in more
    BY DEF Moves, SamePlace
<1> QED
    BY <1>1 DEF NoticesLive

\* A step that leaves the browses alone.
LEMMA BrowsesStay ==
    ASSUME IInv, UNCHANGED <<browse, blist>>, NEW k \in {0, 1}, NEW more,
           Moves(k, more, Line, Line'),
           \A a \in more : a.type \notin {"browse_add", "browse_sync"}
    PROVE  BrowseInv'
<1>1. BrowseAdds'
    BY BrowseAddsKept DEF IInv, BrowseInv, Joining
<1>2. NoticesLive'
    BY NoticesKept DEF IInv, BrowseInv
<1> QED
    BY <1>1, <1>2 DEF IInv, BrowseInv

\* A search that is there is as it should be.
LEMMA SearchAt ==
    ASSUME IInv, NEW s \in Searches, search[s] # None
    PROVE  search[s] \in SearchType /\ Good(search[s]) /\ search[s].ended # "early"
BY DEF IInv, TypeOK, ResultsGood, EndsRightly

\* The lists, as far as searches are concerned.
LEMMA ListedIn ==
    ASSUME IInv
    PROVE  /\ Range(scan) \subseteq Range(slist) /\ Range(slist) \subseteq Searches
           /\ \A s \in Range(slist) : search[s] # None /\ ~search[s].done
           /\ IsInjective(slist)
<1>1. Range(slist) \subseteq Searches
    BY IInvReady, ListsIn
<1> QED
    BY <1>1 DEF IInv, ListInv, EndsExpired, Listed

\* A step that changes one search.
LEMMA OneSearch ==
    ASSUME IInv, NEW t \in Searches,
           \A s \in Searches : s # t => search'[s] = search[s],
           UNCHANGED <<browse, blist>>,
           IsInjective(slist'), Range(slist') \subseteq Range(slist),
           Range(scan') \subseteq Range(slist'),
           NEW k \in {0, 1}, NEW more, Moves(k, more, Line, Line'),
           \A a \in more : \/ a.type = "search_send"
                           \/ a = End(t) /\ t \in Range(slist) /\ search'[t].expired,
           Waiting(t) => Waiting(t)',
           t \in Range(slist') => Listed(t)' /\ (search[t].expired => search'[t].expired),
           search'[t] # None => Good(search'[t]) /\ search'[t].ended # "early"
    PROVE  AddsInOrder' /\ ListInv' /\ EndsRightly' /\ ResultsGood' /\ BrowseInv'
<1>1. \A a \in more : a.type \in {"search_send", "search_end"}
    BY ActionIs DEF End
<1>2. \A s : /\ Add(s) \notin more
             /\ End(s) \in more => s = t /\ t \in Range(slist) /\ search'[t].expired
  <2>1. \A s : Add(s).type = "search_add" /\ End(s).type = "search_end" /\ End(s).arg = s
      BY ActionIs DEF Add, End
  <2> QED
      BY <1>1, <2>1
<1>3. AddsInOrder'
  <2>1. \A s \in Searches : Waiting(s) => Waiting(s)'
      BY DEF Waiting
  <2> QED
      BY <1>2, <2>1, AddsKept DEF IInv
<1>4. EndsExpired'
  <2>1. ASSUME NEW s \in Range(slist')
        PROVE  /\ s \in Range(slist) /\ Listed(s)'
               /\ search[s].expired \/ End(s) \in more => search'[s].expired
    <3>1. s \in Searches /\ s \in Range(slist)
        BY ListedIn
    <3>2. CASE s = t
        BY <1>2, <3>1, <3>2
    <3>3. CASE s # t
        BY <1>2, <3>1, <3>3, ListedIn DEF Listed
    <3> QED
        BY <3>2, <3>3
  <2> QED
      BY <2>1, EndsKept DEF IInv, ListInv
<1>5. EndsRightly' /\ ResultsGood'
    BY DEF IInv, EndsRightly, ResultsGood
<1>6. BrowseInv'
    BY <1>1, BrowsesStay
<1> QED
    BY <1>3, <1>4, <1>5, <1>6 DEF ListInv

\* A caller that is woken frees a search that is done, which no list leads to.
LEMMA QueryReturnsKeeps ==
  ASSUME IInv, NEW t \in Searches, QueryReturns(t) PROVE IInv'
<1>1. TypeOK'
    BY DEF IInv, TypeOK, QueryReturns, UnchangedService
<1>2. t \notin Range(slist) /\ ~Waiting(t)
    BY ListedIn DEF QueryReturns, Waiting
<1>3. Moves(0, {}, Line, Line')
    BY LineStays DEF IInv, QueryReturns, UnchangedService
<1>4. /\ search'[t] = None /\ \A s \in Searches : s # t => search'[s] = search[s]
      /\ UNCHANGED <<slist, browse, blist, scan>>
    BY DEF IInv, TypeOK, QueryReturns, UnchangedService
<1>5. AddsInOrder' /\ ListInv' /\ EndsRightly' /\ ResultsGood' /\ BrowseInv'
    BY <1>2, <1>3, <1>4, OneSearch, ListedIn
<1> QED
    BY <1>1, <1>5 DEF IInv

\* The results of a search that is done are taken.
LEMMA GetResultsKeeps ==
  ASSUME IInv, NEW t \in Searches, GetResults(t) PROVE IInv'
<1> DEFINE q == [search[t] EXCEPT !.done = FALSE]
<1>1. search[t] \in SearchType /\ Good(search[t]) /\ search[t].ended # "early"
    BY SearchAt DEF GetResults
<1>2. q \in SearchType /\ Good(q) /\ q.ended # "early"
    BY <1>1 DEF SearchType, Good, Belongs
<1>3. search' = [search EXCEPT ![t] = q]
    BY DEF GetResults
<1> HIDE DEF q
<1>4. TypeOK'
    BY <1>2, <1>3 DEF IInv, TypeOK, GetResults, UnchangedService
<1>5. t \notin Range(slist) /\ ~Waiting(t)
    BY ListedIn DEF GetResults, Waiting
<1>6. Moves(0, {}, Line, Line')
    BY LineStays DEF IInv, GetResults, UnchangedService
<1>7. /\ search'[t] = q /\ \A s \in Searches : s # t => search'[s] = search[s]
      /\ UNCHANGED <<slist, browse, blist, scan>>
    BY <1>3 DEF IInv, TypeOK, GetResults, UnchangedService
<1>8. AddsInOrder' /\ ListInv' /\ EndsRightly' /\ ResultsGood' /\ BrowseInv'
    BY <1>2, <1>5, <1>6, <1>7, OneSearch, ListedIn
<1> QED
    BY <1>4, <1>8 DEF IInv

\* A search is taken out of the list before it is freed, with the lock held.
LEMMA AsyncDeleteKeeps ==
  ASSUME IInv, NEW t \in Searches, AsyncDelete(t) PROVE IInv'
<1>1. /\ slist' \in Seq(Searches) /\ Range(slist') = {s \in Range(slist) : s # t}
      /\ IsInjective(slist')
  <2>1. slist \in Seq(Searches) /\ IsInjective(slist) /\ slist' = Without(slist, {t})
      BY ListedIn DEF IInv, TypeOK, AsyncDelete
  <2> QED
      BY <2>1, WithoutIs
<1>2. TypeOK'
    BY <1>1 DEF IInv, TypeOK, AsyncDelete, UnchangedService
<1>3. ~Waiting(t) /\ Range(scan') \subseteq Range(slist')
  <2>1. scan = <<>> /\ scan' = scan
      BY DEF AsyncDelete, Locked, UnchangedService
  <2>2. Range(scan') = {}
      BY <2>1 DEF Range
  <2> QED
      BY <2>2 DEF AsyncDelete, Waiting
<1>4. Moves(0, {}, Line, Line')
    BY LineStays DEF IInv, AsyncDelete, UnchangedService
<1>5. /\ search'[t] = None /\ \A s \in Searches : s # t => search'[s] = search[s]
      /\ UNCHANGED <<browse, blist>>
    BY DEF IInv, TypeOK, AsyncDelete, UnchangedService
<1>6. AddsInOrder' /\ ListInv' /\ EndsRightly' /\ ResultsGood' /\ BrowseInv'
    BY <1>1, <1>3, <1>4, <1>5, OneSearch
<1> QED
    BY <1>2, <1>6 DEF IInv

\* The time of a search is over.
LEMMA ExpireKeeps == ASSUME IInv, NEW t \in Searches, Expire(t) PROVE IInv'
<1> DEFINE q == [search[t] EXCEPT !.expired = TRUE]
<1>1. search[t] \in SearchType /\ Good(search[t]) /\ search[t].ended # "early"
    BY SearchAt DEF Expire
<1>2. /\ q \in SearchType /\ Good(q) /\ q.ended # "early" /\ q.expired
      /\ q.state = search[t].state /\ q.done = search[t].done
    BY <1>1 DEF SearchType, Good, Belongs
<1>3. search' = [search EXCEPT ![t] = q]
    BY DEF Expire
<1> HIDE DEF q
<1>4. TypeOK'
    BY <1>2, <1>3 DEF IInv, TypeOK, Expire, UnchangedService
<1>5. Moves(0, {}, Line, Line')
    BY LineStays DEF IInv, Expire, UnchangedService
<1>6. /\ search'[t] = q /\ q # None /\ \A s \in Searches : s # t => search'[s] = search[s]
      /\ UNCHANGED <<slist, browse, blist, scan>>
    BY <1>2, <1>3, NoneIsNone DEF IInv, TypeOK, Expire, UnchangedService
<1>7. /\ Waiting(t) => Waiting(t)'
      /\ t \in Range(slist) => Listed(t)'
    BY <1>2, <1>6, ListedIn DEF Waiting, Listed
<1>8. AddsInOrder' /\ ListInv' /\ EndsRightly' /\ ResultsGood' /\ BrowseInv'
    BY <1>2, <1>5, <1>6, <1>7, OneSearch, ListedIn
<1> QED
    BY <1>4, <1>8 DEF IInv

\* A search is due to be sent again.
LEMMA SecondPassesKeeps ==
  ASSUME IInv, NEW t \in Searches, SecondPasses(t) PROVE IInv'
<1> DEFINE q == [search[t] EXCEPT !.due = TRUE]
<1>1. search[t] \in SearchType /\ Good(search[t]) /\ search[t].ended # "early"
    BY SearchAt DEF SecondPasses
<1>2. /\ q \in SearchType /\ Good(q) /\ q.ended # "early" /\ q.expired = search[t].expired
      /\ q.state = search[t].state /\ q.done = search[t].done
    BY <1>1 DEF SearchType, Good, Belongs
<1>3. search' = [search EXCEPT ![t] = q]
    BY DEF SecondPasses
<1> HIDE DEF q
<1>4. TypeOK'
    BY <1>2, <1>3 DEF IInv, TypeOK, SecondPasses, UnchangedService
<1>5. Moves(0, {}, Line, Line')
    BY LineStays DEF IInv, SecondPasses, UnchangedService
<1>6. /\ search'[t] = q /\ q # None /\ \A s \in Searches : s # t => search'[s] = search[s]
      /\ UNCHANGED <<slist, browse, blist, scan>>
    BY <1>2, <1>3, NoneIsNone DEF IInv, TypeOK, SecondPasses, UnchangedService
<1>7. /\ Waiting(t) => Waiting(t)'
      /\ t \in Range(slist) => Listed(t)'
    BY <1>2, <1>6, ListedIn DEF Waiting, Listed
<1>8. AddsInOrder' /\ ListInv' /\ EndsRightly' /\ ResultsGood' /\ BrowseInv'
    BY <1>2, <1>5, <1>6, <1>7, OneSearch, ListedIn
<1> QED
    BY <1>4, <1>8 DEF IInv

\* A step that leaves searches and browses as they are.
LEMMA NothingElse ==
    ASSUME IInv, UNCHANGED <<search, slist, browse, blist>>,
           Range(scan') \subseteq Range(slist),
           NEW k \in {0, 1}, NEW more, Moves(k, more, Line, Line'),
           \A a \in more : a.type \notin {"search_add", "search_end", "browse_add", "browse_sync"},
           TypeOK'
    PROVE  IInv'
<1>1. AddsInOrder' /\ ListInv' /\ EndsRightly' /\ ResultsGood'
    BY SearchesStay
<1>2. BrowseInv'
    BY BrowsesStay
<1> QED
    BY <1>1, <1>2 DEF IInv

\* The timer takes the searches it has work for from the list.
LEMMA TimerRunsKeeps == ASSUME IInv, TimerRuns PROVE IInv'
<1>1. scan' \in Seq(Searches) /\ Range(scan') \subseteq Range(slist)
  <2> DEFINE idle == {s \in Range(slist) : ~HasWork(search[s])}
  <2>1. slist \in Seq(Searches) /\ scan' = Without(slist, idle)
      BY DEF IInv, TypeOK, TimerRuns
  <2> HIDE DEF idle
  <2> QED
      BY <2>1, WithoutIs
<1>2. TypeOK'
    BY <1>1 DEF IInv, TypeOK, TimerRuns, UnchangedButTimer
<1>3. Moves(0, {}, Line, Line')
    BY LineStays DEF IInv, TimerRuns, UnchangedButTimer
<1> QED
    BY <1>1, <1>2, <1>3, NothingElse DEF TimerRuns, UnchangedButTimer

\* The timer looks at the next search, which is still there; it ends one that is over.
LEMMA TimerStepKeeps == ASSUME IInv, TimerStep PROVE IInv'
<1>0. PICK t : t = Head(scan)
    OBVIOUS
<1> DEFINE q == search'[t]
           a == Action(IF search[t].expired THEN "search_end" ELSE "search_send", t)
           more == IF Full THEN {} ELSE {a}
<1>1. /\ scan \in Seq(Searches) /\ scan # <<>> /\ scan' = Tail(scan)
      /\ t \in Range(scan) /\ Range(scan') \subseteq Range(scan) /\ scan' \in Seq(Searches)
  <2>1. scan \in Seq(Searches) /\ scan # <<>> /\ scan' = Tail(scan)
      BY DEF IInv, TypeOK, TimerStep
  <2> QED
      BY <1>0, <2>1 DEF Range
<1>2. t \in Range(slist) /\ t \in Searches /\ search[t] # None /\ ~search[t].done
    BY <1>1, ListedIn
<1>3. search[t] \in SearchType /\ Good(search[t]) /\ search[t].ended # "early"
    BY <1>2, SearchAt
<1>4. a \in ActionType
    BY <1>2 DEF Action, ActionType
<1>5. /\ queue' = Push(queue, a) /\ UNCHANGED <<slist, browse, blist, running, blocked>>
      /\ UNCHANGED <<undefined, told, lost, inputs>>
    BY <1>0 DEF TimerStep, SearchEnd, SearchSend, UnchangedButTimer
<1>6. /\ q \in SearchType /\ Good(q) /\ q.ended = search[t].ended /\ q.done = search[t].done
      /\ q.expired = search[t].expired
      /\ search' \in [Searches -> SearchType \cup {None}]
      /\ \A s \in Searches : s # t => search'[s] = search[s]
  <2>1. search \in [Searches -> SearchType \cup {None}]
      BY DEF IInv, TypeOK
  <2>2. CASE SearchEnd(t)
    <3> DEFINE r == [search[t] EXCEPT !.state = IF Full THEN "running" ELSE "off"]
    <3>1. search' = [search EXCEPT ![t] = r]
        BY <2>2 DEF SearchEnd
    <3>2. /\ r \in SearchType /\ Good(r) /\ r.ended = search[t].ended /\ r.done = search[t].done
          /\ r.expired = search[t].expired
        BY <1>3 DEF SearchType, Good, Belongs
    <3> HIDE DEF r
    <3> QED
        BY <1>2, <2>1, <3>1, <3>2
  <2>3. CASE SearchSend(t)
    <3> DEFINE r == [search[t] EXCEPT !.state = "running", !.due = Full]
    <3>1. search' = [search EXCEPT ![t] = r]
        BY <2>3 DEF SearchSend
    <3>2. Full \in BOOLEAN
        BY DEF Full
    <3>3. /\ r \in SearchType /\ Good(r) /\ r.ended = search[t].ended /\ r.done = search[t].done
          /\ r.expired = search[t].expired
        BY <1>3, <3>2 DEF SearchType, Good, Belongs
    <3> HIDE DEF r
    <3> QED
        BY <1>2, <2>1, <3>1, <3>3
  <2> QED
      BY <1>0, <2>2, <2>3 DEF TimerStep
<1>7. TypeOK'
    BY <1>1, <1>4, <1>5, <1>6, PushIs DEF IInv, TypeOK
<1>8. Moves(0, more, Line, Line')
    BY <1>4, <1>5, LineGrows DEF IInv
<1>9. \A e \in more : e.type = "search_send" \/ (e = End(t) /\ search'[t].expired)
    BY <1>6, ActionIs DEF End
<1>10. q # None
    BY <1>6, NoneIsNone
<1> HIDE DEF a, more, q
<1>11. AddsInOrder' /\ ListInv' /\ EndsRightly' /\ ResultsGood' /\ BrowseInv'
  <2>1. /\ IsInjective(slist') /\ Range(slist') \subseteq Range(slist)
        /\ Range(scan') \subseteq Range(slist')
      BY <1>1, <1>5, ListedIn
  <2>2. ~Waiting(t)
      BY <1>2 DEF Waiting
  <2>3. t \in Range(slist') => Listed(t)' /\ (search[t].expired => search'[t].expired)
      BY <1>2, <1>6, <1>10 DEF Listed, q
  <2>4. search'[t] # None => Good(search'[t]) /\ search'[t].ended # "early"
      BY <1>3, <1>6 DEF q
  <2> QED
      BY <1>2, <1>5, <1>6, <1>8, <1>9, <2>1, <2>2, <2>3, <2>4, OneSearch
<1> QED
    BY <1>7, <1>11 DEF IInv

\* A browse is to end: an action is posted, nothing else changes.
LEMMA BrowseDeleteKeeps == ASSUME IInv, BrowseDelete PROVE IInv'
<1>1. PICK v \in Services : queue' = Push(queue, Action("browse_end", v))
    BY DEF BrowseDelete
<1> DEFINE a == Action("browse_end", v)
<1>2. a \in ActionType /\ a.type = "browse_end"
    BY DEF Action, ActionType
<1> HIDE DEF a
<1>3. queue' = Push(queue, a) /\ inputs < MaxInputs /\ inputs' = inputs + 1
      /\ UNCHANGED <<search, slist, browse, blist, running,
                   scan, blocked, undefined, told, lost>>
    BY <1>1 DEF BrowseDelete, Input, UnchangedService, a
<1>4. TypeOK'
    BY <1>2, <1>3, PushIs, ClientAssumption DEF IInv, TypeOK
<1>5. Moves(0, IF Full THEN {} ELSE {a}, Line, Line')
    BY <1>2, <1>3, LineGrows DEF IInv
<1> QED
    BY <1>2, <1>3, <1>4, <1>5, ListedIn, NothingElse

\* A packet waits in the queue.
LEMMA PacketComesKeeps == ASSUME IInv, PacketComes PROVE IInv'
<1>1. PICK p \in Packets : queue' = Push(queue, Action("rx", p))
    BY DEF PacketComes
<1> DEFINE a == Action("rx", p)
<1>2. a \in ActionType /\ a.type = "rx"
    BY DEF Action, ActionType
<1> HIDE DEF a
<1>3. queue' = Push(queue, a) /\ inputs < MaxInputs /\ inputs' = inputs + 1
      /\ UNCHANGED <<search, slist, browse, blist, running,
                   scan, blocked, undefined, told, lost>>
    BY <1>1 DEF PacketComes, Input, UnchangedService, a
<1>4. TypeOK'
    BY <1>2, <1>3, PushIs, ClientAssumption DEF IInv, TypeOK
<1>5. Moves(0, IF Full THEN {} ELSE {a}, Line, Line')
    BY <1>2, <1>3, LineGrows DEF IInv
<1> QED
    BY <1>2, <1>3, <1>4, <1>5, ListedIn, NothingElse

\* The task takes an action: the line stays.
LEMMA TakeKeeps == ASSUME IInv, Take PROVE IInv'
<1>1. /\ queue' = Tail(queue) /\ running' = Head(queue) /\ queue # <<>> /\ running = None
      /\ UNCHANGED <<search, slist, browse, blist,
                   scan, blocked, undefined, told, lost, inputs>>
    BY DEF Take
<1>2. /\ queue' \in Seq(ActionType) /\ Len(queue') <= QueueLen /\ running' \in ActionType
  <2>1. queue \in Seq(ActionType) /\ Len(queue) <= QueueLen /\ QueueLen \in Nat
      BY ClientAssumption DEF IInv, TypeOK
  <2> QED
      BY <1>1, <2>1
<1>3. TypeOK'
    BY <1>1, <1>2 DEF IInv, TypeOK
<1>4. Moves(0, {}, Line, Line')
    BY LineTaken DEF IInv
<1> QED
    BY <1>1, <1>3, <1>4, ListedIn, NothingElse

\* A search is sent.
LEMMA SearchSentKeeps == ASSUME IInv, SearchSent PROVE IInv'
<1>1. /\ running # None /\ running' = None
      /\ UNCHANGED <<search, slist, browse, blist, queue,
                   scan, blocked, undefined, told, lost, inputs>>
    BY DEF SearchSent, Execute, Quietly
<1>2. ~blocked
    BY DEF SearchSent, Execute, Locked
<1>3. TypeOK'
    BY <1>1, <1>2 DEF IInv, TypeOK
<1>4. Moves(1, {}, Line, Line')
    BY <1>1, LineMovesUp DEF IInv
<1> QED
    BY <1>1, <1>3, <1>4, ListedIn, NothingElse

\* A notice to a browse that has been freed.
LEMMA BrowseSyncOrphanedKeeps == ASSUME IInv, BrowseSyncOrphaned PROVE IInv'
<1>1. /\ running # None /\ running' = None /\ undefined' = TRUE
      /\ UNCHANGED <<search, slist, browse, blist, queue, scan, blocked, told, lost, inputs>>
    BY DEF BrowseSyncOrphaned, Execute
<1>2. ~blocked
    BY DEF BrowseSyncOrphaned, Execute, Locked
<1>3. TypeOK'
    BY <1>1, <1>2 DEF IInv, TypeOK
<1>4. Moves(1, {}, Line, Line')
    BY <1>1, LineMovesUp DEF IInv
<1> QED
    BY <1>1, <1>3, <1>4, ListedIn, NothingElse

\* What the task executes is at the head of the line.
LEMMA AtHead ==
    ASSUME IInv, running # None
    PROVE  1 \in DOMAIN Line /\ Line[1] = running /\ running \in ActionType
BY LineIs DEF IInv, TypeOK

\* A search joins the list: it is in no list yet, and nothing in the line ends it.
LEMMA SearchAddKeeps == ASSUME IInv, SearchAdd PROVE IInv'
<1>1. /\ running # None /\ running.type = "search_add" /\ running' = None
      /\ slist' = <<running.arg>> \o slist /\ scan = <<>> /\ ~blocked
      /\ UNCHANGED <<search, browse, blist, queue,
                   scan, blocked, undefined, told, lost, inputs>>
    BY DEF SearchAdd, Execute, Quietly, Locked
<1>2. PICK t \in Searches : running = Add(t) /\ running.arg = t
  <2>1. running.arg \in Searches /\ running = Action("search_add", running.arg)
      BY <1>1, AtHead DEF ActionType, NotifyType, Action
  <2> QED
      BY <2>1 DEF Add
<1>3. 1 \in DOMAIN Line /\ Line[1] = Add(t)
    BY <1>1, <1>2, AtHead
<1>4. /\ Waiting(t)
      /\ \A j \in DOMAIN Line : (j # 1 => Line[j] # Add(t)) /\ (j > 1 => Line[j] # End(t))
    BY <1>3 DEF IInv, AddsInOrder
<1>5. /\ slist' \in Seq(Searches) /\ IsInjective(slist') /\ Range(slist') = Range(slist) \cup {t}
  <2>1. slist \in Seq(Searches) /\ IsInjective(slist) /\ slist' = <<t>> \o slist
      BY <1>1, <1>2, ListedIn DEF IInv, TypeOK
  <2>2. /\ slist' \in Seq(Searches) /\ DOMAIN slist' \subseteq Nat
        /\ \A i \in DOMAIN slist' : i = 1 \/ i - 1 \in DOMAIN slist
        /\ \A i \in DOMAIN slist' : slist'[i] = IF i = 1 THEN t ELSE slist[i - 1]
      BY <2>1
  <2>3. \A i \in DOMAIN slist : i # 0 /\ i + 1 \in DOMAIN slist' /\ slist'[i + 1] = slist[i]
      BY <2>1
  <2>4. 1 \in DOMAIN slist'
      BY <2>1
  <2>5. t \notin Range(slist)
      BY <1>4 DEF Waiting
  <2>6. IsInjective(slist')
    <3> SUFFICES ASSUME NEW i \in DOMAIN slist', NEW j \in DOMAIN slist', slist'[i] = slist'[j]
                 PROVE  i = j
        BY DEF IsInjective
    <3>1. CASE i = 1 \/ j = 1
        BY <2>2, <2>5, <3>1 DEF Range
    <3>2. CASE i # 1 /\ j # 1
      <4>1. i - 1 = j - 1
          BY <2>1, <2>2, <3>2 DEF IsInjective
      <4> QED
          BY <2>2, <4>1
    <3> QED
        BY <3>1, <3>2
  <2>7. Range(slist') = Range(slist) \cup {t}
      BY <2>2, <2>3, <2>4 DEF Range
  <2> QED
      BY <2>2, <2>6, <2>7
<1>6. TypeOK'
    BY <1>1, <1>5 DEF IInv, TypeOK
<1>7. Moves(1, {}, Line, Line')
    BY <1>1, LineMovesUp DEF IInv
<1>8. \A i \in DOMAIN Line' : Line'[i] # Add(t) /\ Line'[i] # End(t)
  <2> SUFFICES ASSUME NEW i \in DOMAIN Line', Line'[i] \in {Add(t), End(t)}
               PROVE FALSE
      OBVIOUS
  <2>1. Line'[i].type # "browse_sync"
      BY ActionIs DEF Add, End
  <2>2. i + 1 \in DOMAIN Line /\ Line[i + 1] = Line'[i]
      BY <1>7, <2>1, OldPlace DEF IInv
  <2>3. i + 1 \in Nat /\ i \in Nat /\ i + 1 # 1
    <3>1. DOMAIN Line \subseteq Nat \ {0} /\ i \in Nat
        BY <1>7, LineType DEF IInv, Moves
    <3>2. Line' = queue /\ queue \in Seq(ActionType)
        BY <1>1 DEF IInv, TypeOK, Line
    <3> QED
        BY <3>1, <3>2
  <2> QED
      BY <1>4, <2>2, <2>3
<1>9. AddsInOrder'
  <2>1. \A s \in Searches : Waiting(s) /\ (\E i \in DOMAIN Line' : Line'[i] = Add(s)) => Waiting(s)'
      BY <1>1, <1>5, <1>8 DEF Waiting
  <2> QED
      BY <1>7, <2>1, AddsKept DEF IInv
<1>10. EndsExpired'
  <2> SUFFICES ASSUME NEW s \in Range(slist')
               PROVE  /\ Listed(s)'
                      /\ (\E i \in DOMAIN Line' : Line'[i] = End(s)) => search'[s].expired
      BY DEF EndsExpired
  <2>1. CASE s = t
      BY <1>1, <1>4, <1>8, <2>1 DEF Waiting, Listed
  <2>2. CASE s \in Range(slist)
    <3>1. Listed(s) /\ ((\E i \in DOMAIN Line : Line[i] = End(s)) => search[s].expired)
        BY <2>2 DEF IInv, ListInv, EndsExpired
    <3>2. \A i \in DOMAIN Line' : Line'[i] = End(s) => i + 1 \in DOMAIN Line /\ Line[i + 1] = End(s)
        BY <1>7, ActionIs, OldPlace DEF IInv, End
    <3> QED
        BY <1>1, <3>1, <3>2 DEF Listed
  <2> QED
      BY <1>5, <2>1, <2>2
<1>11. Range(scan') \subseteq Range(slist')
    BY <1>1, <1>5, ListedIn
<1>12. EndsRightly' /\ ResultsGood'
    BY <1>1 DEF IInv, EndsRightly, ResultsGood
<1>13. BrowseInv'
    BY <1>1, <1>7, BrowsesStay
<1> QED
    BY <1>5, <1>6, <1>9, <1>10, <1>11, <1>12, <1>13 DEF IInv, ListInv

\* A search is finished if it is in the list; then it is the one that was over.
LEMMA SearchEndedKeeps == ASSUME IInv, SearchEnded PROVE IInv'
<1>1. /\ running # None /\ running.type = "search_end" /\ running' = None /\ scan = <<>> /\ ~blocked
      /\ UNCHANGED <<browse, blist, queue, scan, blocked, undefined, told, lost, inputs>>
      /\ search' = SearchFinish(Parser, running.arg).search
      /\ slist' = SearchFinish(Parser, running.arg).slist
    BY DEF SearchEnded, Execute, Quietly, Locked
<1>2. PICK t \in Searches : running = End(t) /\ running.arg = t
  <2>1. running.arg \in Searches /\ running = Action("search_end", running.arg)
      BY <1>1, AtHead DEF ActionType, NotifyType, Action
  <2> QED
      BY <2>1 DEF End
<1>3. Moves(1, {}, Line, Line')
    BY <1>1, LineMovesUp DEF IInv
<1>4. CASE t \notin Range(slist)
  <2>1. search' = search /\ slist' = slist
      BY <1>1, <1>2, <1>4 DEF SearchFinish, Parser
  <2>2. TypeOK'
      BY <1>1, <2>1 DEF IInv, TypeOK
  <2> QED
      BY <1>1, <1>3, <2>1, <2>2, ListedIn, NothingElse
<1>5. CASE t \in Range(slist)
  <2> DEFINE x == FinishAll(Parser, {t})
  <2>1. search' = x.search /\ slist' = x.slist
      BY <1>1, <1>2, <1>5 DEF SearchFinish, Parser
  <2>2. /\ x \in Browsing /\ x.slist = Without(slist, {t})
        /\ \A s \in Searches : x.search[s] = IF s = t THEN Finished(search[s]) ELSE search[s]
    <3>1. Parser \in Parsing /\ {t} \subseteq Range(slist) /\ Parser.search = search
        BY <1>5, IInvReady, ParserStarts DEF Parser
    <3> QED
        BY <3>1, IInvReady, FinishAllIs
  <2> HIDE DEF x
  <2>3. search' \in [Searches -> SearchType \cup {None}]
      BY <2>1, <2>2 DEF Browsing, ParserType
  <2>4. /\ slist' \in Seq(Searches) /\ Range(slist') = {s \in Range(slist) : s # t}
        /\ IsInjective(slist')
    <3>1. slist \in Seq(Searches) /\ IsInjective(slist)
        BY ListedIn DEF IInv, TypeOK
    <3> QED
        BY <2>1, <2>2, <3>1, WithoutIs
  <2>5. TypeOK'
      BY <1>1, <2>3, <2>4 DEF IInv, TypeOK
  <2>6. search[t] # None /\ search[t].expired
    <3>1. 1 \in DOMAIN Line /\ Line[1] = End(t)
        BY <1>1, <1>2, AtHead
    <3> QED
        BY <1>5, <3>1 DEF IInv, ListInv, EndsExpired, Listed
  <2>7. Good(search'[t]) /\ search'[t].ended # "early"
    <3>1. search'[t] = Finished(search[t]) /\ search[t] \in SearchType /\ Good(search[t])
        BY <2>1, <2>2, <2>6, SearchAt
    <3>2. Good(Finished(search[t])) /\ Finished(search[t]).ended = "rightly"
        BY <2>6, <3>1, FinishedIs
    <3> QED
        BY <3>1, <3>2
  <2>8. Range(scan') \subseteq Range(slist') /\ ~Waiting(t)
      BY <1>1, <1>5 DEF Range, Waiting
  <2>9. AddsInOrder' /\ ListInv' /\ EndsRightly' /\ ResultsGood' /\ BrowseInv'
    <3>1. \A s \in Searches : s # t => search'[s] = search[s]
        BY <2>1, <2>2
    <3>2. Range(slist') \subseteq Range(slist) /\ t \notin Range(slist')
        BY <2>4
    <3> QED
        BY <1>1, <1>3, <2>4, <2>7, <2>8, <3>1, <3>2, OneSearch
  <2> QED
      BY <2>5, <2>9 DEF IInv
<1> QED
    BY <1>4, <1>5

\* A search as it is made.
LEMMA SearchInitIs ==
    ASSUME NEW d \in Queries
    PROVE  LET q == SearchInit(d)
           IN  /\ q \in SearchType /\ Good(q) /\ q.ended # "early" /\ q.state = "init" /\ ~q.done
<1>1. d \in [type : QueryTypes, name : Datum, svc : Datum, max : Nat, async : BOOLEAN]
    BY ClientAssumption
<1>2. /\ SearchInit(d) \in SearchType /\ SearchInit(d).results = <<>>
      /\ SearchInit(d).ended = "no" /\ SearchInit(d).state = "init" /\ ~SearchInit(d).done
      /\ SearchInit(d).max \in Nat
    BY <1>1 DEF SearchInit, SearchType
<1>3. Good(SearchInit(d))
    BY <1>2 DEF Good
<1> QED
    BY <1>2, <1>3

\* A search is made at an address that is free: what the line holds for the address is a
\* search_end in front of the new search_add.
LEMMA QueryKeeps == ASSUME IInv, NEW t \in Searches, Query(t) PROVE IInv'
<1>1. PICK d \in Queries :
        search' = IF Full THEN search ELSE [search EXCEPT ![t] = SearchInit(d)]
    BY DEF Query
<1> DEFINE q == SearchInit(d)
           a == Add(t)
<1>2. /\ search[t] = None /\ inputs < MaxInputs /\ inputs' = inputs + 1 /\ queue' = Push(queue, a)
      /\ UNCHANGED <<slist, browse, blist, running, scan, blocked, undefined, told, lost>>
    BY DEF Query, Input, UnchangedService, Add
<1>3. a \in ActionType /\ a.type = "search_add" /\ a.arg = t
    BY DEF Add, Action, ActionType
<1>4. q \in SearchType /\ Good(q) /\ q.ended # "early" /\ q.state = "init" /\ ~q.done /\ q # None
    BY SearchInitIs, NoneIsNone
<1>5. search' = IF Full THEN search ELSE [search EXCEPT ![t] = q]
    BY <1>1
<1> HIDE DEF q, a
<1>6. TypeOK'
    BY <1>2, <1>3, <1>4, <1>5, PushIs, ClientAssumption DEF IInv, TypeOK
<1>7. Moves(0, IF Full THEN {} ELSE {a}, Line, Line')
    BY <1>2, <1>3, LineGrows DEF IInv
<1>8. CASE Full
  <2>1. search' = search
      BY <1>5, <1>8
  <2>2. Moves(0, {}, Line, Line')
      BY <1>7, <1>8
  <2> QED
      BY <1>2, <1>6, <2>1, <2>2, ListedIn, NothingElse
<1>9. CASE ~Full
  <2>1. search'[t] = q /\ \A s \in Searches : s # t => search'[s] = search[s]
      BY <1>5, <1>9 DEF IInv, TypeOK
  <2>2. Moves(0, {a}, Line, Line')
      BY <1>7, <1>9
  <2>3. t \notin Range(slist)
      BY <1>2, ListedIn
  <2>4. AddsInOrder'
    <3> SUFFICES ASSUME NEW s \in Searches, NEW i \in DOMAIN Line', Line'[i] = Add(s)
                 PROVE  /\ Waiting(s)'
                        /\ \A j \in DOMAIN Line' : (j # i => Line'[j] # Add(s)) /\ (j > i => Line'[j] # End(s))
        BY DEF AddsInOrder
    <3>1. /\ Add(s).type = "search_add" /\ End(s).type = "search_end" /\ Add(s).arg = s
          /\ Add(s) # End(s)
        BY ActionIs DEF Add, End
    <3>2. \A j \in DOMAIN Line' : j \in Nat /\ j + 0 = j
        BY <2>2 DEF Moves
    <3>3. \A j \in DOMAIN Line' : Line'[j] \in {Add(s), End(s)} /\ Line'[j] # a
                                    => j \in DOMAIN Line /\ Line[j] = Line'[j]
        BY <2>2, <3>1, <3>2, OldPlace DEF IInv
    <3>4. CASE s = t
      <4>1. \A j \in DOMAIN Line : Line[j] # Add(t)
          BY <1>2 DEF IInv, AddsInOrder, Waiting
      <4>2. \A j \in DOMAIN Line' : Line'[j] = Add(t) => j = Len(Line') /\ j = Len(Line) + 1
          BY <1>3, <2>2, <3>1, <3>2, <3>4, <4>1 DEF Moves, SamePlace
      <4>3. \A j \in DOMAIN Line' : Line'[j] = End(t) => j \in 1 .. Len(Line)
          BY <3>1, <3>3, <3>4, LineType DEF IInv, a
      <4>4. Waiting(t)'
          BY <1>2, <1>4, <2>1, <2>3 DEF Waiting
      <4>5. Len(Line) \in Nat
          BY LineType DEF IInv
      <4> HIDE DEF Line
      <4> QED
          BY <3>4, <4>2, <4>3, <4>4, <4>5
    <3>5. CASE s # t
      <4>1. Add(s) # a /\ End(s) # a
          BY <1>3, <3>1, <3>5
      <4>2. i \in DOMAIN Line /\ Line[i] = Add(s)
          BY <3>3, <4>1
      <4>3. /\ Waiting(s)
            /\ \A j \in DOMAIN Line : (j # i => Line[j] # Add(s)) /\ (j > i => Line[j] # End(s))
          BY <4>2 DEF IInv, AddsInOrder
      <4>4. Waiting(s)'
          BY <1>2, <2>1, <3>5, <4>3 DEF Waiting
      <4> QED
          BY <3>3, <4>1, <4>3, <4>4
    <3> QED
        BY <3>4, <3>5
  <2>5. EndsExpired'
    <3>1. \A s : End(s) # a
        BY <1>3, ActionIs DEF End
    <3>2. \A s \in Range(slist') : /\ s \in Range(slist) /\ Listed(s)'
                                   /\ search[s].expired \/ End(s) \in {a} => search'[s].expired
        BY <1>2, <2>1, <2>3, <3>1, ListedIn DEF Listed
    <3> QED
        BY <2>2, <3>2, EndsKept DEF IInv, ListInv
  <2>6. EndsRightly' /\ ResultsGood'
      BY <1>4, <2>1 DEF IInv, EndsRightly, ResultsGood
  <2>7. BrowseInv'
      BY <1>2, <1>3, <2>2, BrowsesStay
  <2> QED
      BY <1>2, <1>6, <2>4, <2>5, <2>6, <2>7 DEF IInv, ListInv
<1> QED
    BY <1>8, <1>9

\* The browses of the list are there.
LEMMA BrowseAt ==
    ASSUME IInv
    PROVE  /\ Range(blist) \subseteq Browses
           /\ \A b \in Range(blist) : browse[b] # None /\ browse[b] \in BrowseType
           /\ \A b \in Browses : browse[b] # None =>
                browse[b] \in BrowseType /\ OnePerInstance(browse[b].results)
<1>1. Range(blist) \subseteq Browses
    BY IInvReady, ListsIn
<1>2. browse \in [Browses -> BrowseType \cup {None}]
    BY DEF IInv, TypeOK
<1>3. \A b \in Range(blist) : browse[b] # None
    BY DEF IInv, BrowseInv
<1>4. \A b \in Browses : browse[b] # None => OnePerInstance(browse[b].results)
    BY DEF IInv, TypeOK
<1> QED
    BY <1>1, <1>2, <1>3, <1>4

\* A browse is made and waits to be added.
LEMMA BrowseNewKeeps ==
  ASSUME IInv, NEW t \in Browses, BrowseNew(t) PROVE IInv'
<1>1. PICK v \in Services : browse' = IF Full THEN browse
                                      ELSE [browse EXCEPT ![t] = [svc |-> v, results |-> <<>>]]
    BY DEF BrowseNew
<1> DEFINE q == [svc |-> v, results |-> <<>>]
           a == Action("browse_add", t)
<1>2. /\ browse[t] = None /\ inputs < MaxInputs /\ inputs' = inputs + 1 /\ queue' = Push(queue, a)
      /\ UNCHANGED <<search, slist, blist, running, scan, blocked, undefined>>
      /\ lost' = [lost EXCEPT ![t] = {}]
    BY DEF BrowseNew, Input
<1>3. a \in ActionType /\ a.type = "browse_add"
    BY DEF Action, ActionType
<1>4. q \in BrowseType /\ OnePerInstance(q.results) /\ q # None
  <2>1. q \in BrowseType /\ OnePerInstance(q.results)
      BY DEF BrowseType, OnePerInstance
  <2> HIDE DEF q
  <2> QED
      BY <2>1, NoneIsNone
<1>5. browse' = IF Full THEN browse ELSE [browse EXCEPT ![t] = q]
    BY <1>1
<1> HIDE DEF q
<1>6. TypeOK'
  <2>1. queue' \in Seq(ActionType) /\ Len(queue') <= QueueLen /\ inputs' \in 0 .. MaxInputs
      BY <1>2, <1>3, PushIs, ClientAssumption DEF IInv, TypeOK
  <2>2. /\ browse' \in [Browses -> BrowseType \cup {None}]
        /\ \A b \in Browses : browse'[b] # None => OnePerInstance(browse'[b].results)
      BY <1>4, <1>5 DEF IInv, TypeOK
  <2> QED
      BY <1>2, <2>1, <2>2 DEF IInv, TypeOK
<1>7. Moves(0, IF Full THEN {} ELSE {a}, Line, Line')
    BY <1>2, <1>3, LineGrows DEF IInv
<1>8. CASE Full
  <2>1. browse' = browse
      BY <1>5, <1>8
  <2>2. Moves(0, {}, Line, Line')
      BY <1>7, <1>8
  <2> QED
      BY <1>2, <1>6, <2>1, <2>2, ListedIn, NothingElse
<1>9. CASE ~Full
  <2>1. browse'[t] = q /\ \A b \in Browses : b # t => browse'[b] = browse[b]
      BY <1>5, <1>9 DEF IInv, TypeOK
  <2>2. Moves(0, {a}, Line, Line')
      BY <1>7, <1>9
  <2>3. t \notin Range(blist) /\ Range(blist) \subseteq Browses
      BY <1>2, BrowseAt
  <2>4. \A b \in Range(blist') : browse'[b] # None
      BY <1>2, <2>1, <2>3, BrowseAt
  <2>5. \A j \in DOMAIN Line' : j \in Nat /\ j + 0 = j
      BY <2>2 DEF Moves
  <2>6. BrowseAdds'
    <3> SUFFICES ASSUME NEW b \in Browses, NEW i \in DOMAIN Line',
                        Line'[i] = Action("browse_add", b)
                 PROVE  Joining(b)' /\ \A j \in DOMAIN Line' : Line'[j] = Line'[i] => j = i
        BY DEF BrowseAdds
    <3> DEFINE e == Action("browse_add", b)
    <3>1. e.type = "browse_add" /\ e.arg = b /\ a.arg = t
        BY ActionIs
    <3> HIDE DEF a, e
    <3>2. \A j \in DOMAIN Line' : Line'[j] = e /\ e # a => j \in DOMAIN Line /\ Line[j] = e
        BY <2>2, <2>5, <3>1, OldPlace DEF IInv
    <3>3. CASE b = t
      <4>1. \A j \in DOMAIN Line : Line[j] # e
          BY <1>2, <3>3 DEF IInv, BrowseInv, BrowseAdds, Joining, e
      <4>2. \A j \in DOMAIN Line' : Line'[j] = e => j = Len(Line')
          BY <2>2, <2>5, <3>1, <4>1 DEF Moves, SamePlace
      <4>3. Joining(b)'
          BY <1>2, <1>4, <2>1, <2>3, <3>3 DEF Joining
      <4> QED
          BY <4>2, <4>3 DEF e
    <3>4. CASE b # t
      <4>1. i \in DOMAIN Line /\ Line[i] = e /\ e # a
          BY <3>1, <3>2, <3>4 DEF e
      <4>2. Joining(b) /\ \A j \in DOMAIN Line : Line[j] = e => j = i
          BY <4>1 DEF IInv, BrowseInv, BrowseAdds, e
      <4>3. Joining(b)'
          BY <1>2, <2>1, <3>4, <4>2 DEF Joining
      <4> QED
          BY <3>2, <4>1, <4>2, <4>3 DEF e
    <3> QED
        BY <3>3, <3>4
  <2>7. NoticesLive'
    <3> SUFFICES ASSUME NEW i \in DOMAIN Line', Line'[i].type = "browse_sync", Line'[i].arg.live
                 PROVE  Line'[i].arg.browse \in Range(blist')
        BY DEF NoticesLive
    <3>1. i \in DOMAIN Line /\ Line[i] = Line'[i]
        BY <1>3, <2>2, <2>5 DEF Moves, SamePlace
    <3> QED
        BY <1>2, <3>1 DEF IInv, BrowseInv, NoticesLive
  <2>8. AddsInOrder' /\ ListInv' /\ EndsRightly' /\ ResultsGood'
      BY <1>2, <1>3, <2>2, ListedIn, SearchesStay
  <2> QED
      BY <1>6, <2>4, <2>6, <2>7, <2>8 DEF IInv, BrowseInv
<1> QED
    BY <1>8, <1>9

\* A browse joins the list, or is freed because its service has one.
LEMMA BrowseAddKeeps == ASSUME IInv, BrowseAdd PROVE IInv'
<1>1. /\ running # None /\ running.type = "browse_add" /\ running' = None /\ scan = <<>> /\ ~blocked
      /\ UNCHANGED <<search, slist, queue, scan, blocked, undefined, told, lost, inputs>>
      /\ \/ browse' = [browse EXCEPT ![running.arg] = None] /\ blist' = blist
         \/ blist' = <<running.arg>> \o blist /\ browse' = browse
    BY DEF BrowseAdd, Execute, Quietly, Locked
<1>2. PICK t \in Browses : running = Action("browse_add", t) /\ running.arg = t
    BY <1>1, AtHead DEF ActionType, NotifyType, Action
<1>3. 1 \in DOMAIN Line /\ Line[1] = Action("browse_add", t)
    BY <1>1, <1>2, AtHead
<1>4. Joining(t) /\ \A j \in DOMAIN Line : j # 1 => Line[j] # Action("browse_add", t)
    BY <1>3 DEF IInv, BrowseInv, BrowseAdds
<1>5. Moves(1, {}, Line, Line')
    BY <1>1, LineMovesUp DEF IInv
<1>6. \A i \in DOMAIN Line' : Line'[i] # Action("browse_add", t)
  <2> SUFFICES ASSUME NEW i \in DOMAIN Line', Line'[i] = Action("browse_add", t)
               PROVE FALSE
      OBVIOUS
  <2>1. i + 1 \in DOMAIN Line /\ Line[i + 1] = Action("browse_add", t)
      BY <1>5, ActionIs, OldPlace DEF IInv
  <2>2. i \in Nat \ {0}
    <3>1. Line' = queue /\ queue \in Seq(ActionType)
        BY <1>1 DEF IInv, TypeOK, Line
    <3> QED
        BY <3>1
  <2> QED
      BY <1>4, <2>1, <2>2
<1>7. /\ blist' \in Seq(Browses)
      /\ Range(blist) \subseteq Range(blist') /\ Range(blist') \subseteq Range(blist) \cup {t}
      /\ \A b \in Browses : b # t => browse'[b] = browse[b]
      /\ browse' \in [Browses -> BrowseType \cup {None}]
      /\ \A b \in Browses : browse'[b] # None => browse'[b] = browse[b]
      /\ t \in Range(blist') => browse'[t] = browse[t]
  <2>1. /\ blist \in Seq(Browses) /\ browse \in [Browses -> BrowseType \cup {None}]
        /\ t \notin Range(blist)
      BY <1>4 DEF IInv, TypeOK, Joining
  <2>2. CASE browse' = [browse EXCEPT ![t] = None] /\ blist' = blist
      BY <2>1, <2>2
  <2>3. CASE blist' = <<t>> \o blist /\ browse' = browse
    <3>1. /\ blist' \in Seq(Browses)
          /\ \A i \in DOMAIN blist' : i = 1 \/ i - 1 \in DOMAIN blist
          /\ \A i \in DOMAIN blist' : blist'[i] = IF i = 1 THEN t ELSE blist[i - 1]
        BY <2>1, <2>3
    <3>2. \A i \in DOMAIN blist : i + 1 \in DOMAIN blist' /\ blist'[i + 1] = blist[i]
        BY <2>1, <2>3
    <3>3. Range(blist) \subseteq Range(blist') /\ Range(blist') \subseteq Range(blist) \cup {t}
        BY <3>1, <3>2 DEF Range
    <3> QED
        BY <2>1, <2>3, <3>1, <3>3
  <2> QED
      BY <1>1, <1>2, <2>2, <2>3
<1>8. TypeOK'
    BY <1>1, <1>7 DEF IInv, TypeOK
<1>9. BrowseInv'
  <2>1. \A b \in Browses :
          Joining(b) /\ (\E i \in DOMAIN Line' : Line'[i] = Action("browse_add", b)) => Joining(b)'
      BY <1>6, <1>7 DEF Joining
  <2>2. BrowseAdds'
      BY <1>5, <2>1, BrowseAddsKept DEF IInv, BrowseInv
  <2>3. NoticesLive'
      BY <1>5, <1>7, NoticesKept DEF IInv, BrowseInv
  <2>4. \A b \in Range(blist') : browse'[b] # None
      BY <1>4, <1>7, BrowseAt DEF Joining
  <2> QED
      BY <2>2, <2>3, <2>4 DEF BrowseInv
<1>10. AddsInOrder' /\ ListInv' /\ EndsRightly' /\ ResultsGood'
    BY <1>1, <1>5, ListedIn, SearchesStay
<1> QED
    BY <1>8, <1>9, <1>10 DEF IInv

\* The browses of a service leave the list and are freed; a notice to one loses it.
LEMMA BrowseEndKeeps == ASSUME IInv, BrowseEnd PROVE IInv'
<1>1. PICK gone : gone = {b \in Browses : Contains(blist, b) /\ browse[b].svc = running.arg}
    OBVIOUS
<1>2. /\ running # None /\ running' = None /\ scan = <<>> /\ ~blocked
      /\ UNCHANGED <<search, slist, scan, blocked, undefined, inputs>>
      /\ blist' = Without(blist, gone)
      /\ browse' = [b \in Browses |-> IF b \in gone THEN None ELSE browse[b]]
      /\ queue' = [i \in DOMAIN queue |-> IF Orphaned(queue[i], gone)
                                          THEN [queue[i] EXCEPT !.arg.live = FALSE] ELSE queue[i]]
      /\ lost' = [b \in Browses |-> IF b \in gone THEN {} ELSE lost[b]]
    BY <1>1 DEF BrowseEnd, Execute, Locked
<1>3. gone \subseteq Range(blist)
    BY <1>1 DEF Contains, Range
<1>4. blist' \in Seq(Browses) /\ Range(blist') = {b \in Range(blist) : b \notin gone}
    BY <1>2, WithoutIs DEF IInv, TypeOK
<1>5. /\ browse' \in [Browses -> BrowseType \cup {None}]
      /\ \A b \in Browses : browse'[b] = IF b \in gone THEN None ELSE browse[b]
    BY <1>2 DEF IInv, TypeOK
<1>6. queue \in Seq(ActionType) /\ Len(queue) \in Nat /\ DOMAIN queue = 1 .. Len(queue)
    BY DEF IInv, TypeOK
<1>7. ASSUME NEW i \in DOMAIN queue
      PROVE  /\ queue'[i] \in ActionType /\ SamePlace(queue[i], queue'[i])
             /\ queue'[i].type = queue[i].type
             /\ queue'[i].type = "browse_sync" /\ queue'[i].arg.live =>
                  queue'[i] = queue[i] /\ queue'[i].arg.browse \notin gone
  <2>1. queue'[i] = IF Orphaned(queue[i], gone) THEN [queue[i] EXCEPT !.arg.live = FALSE]
                    ELSE queue[i]
      BY <1>2
  <2>2. queue[i] \in ActionType
      BY <1>6
  <2>3. CASE Orphaned(queue[i], gone)
    <3>1. queue[i].type = "browse_sync" /\ queue[i].arg \in NotifyType
        BY <2>2, <2>3 DEF Orphaned, ActionType
    <3>2. queue[i] \in [type : {"browse_sync"}, arg : NotifyType]
        BY <2>2, <3>1 DEF ActionType
    <3> DEFINE n == [queue[i].arg EXCEPT !.live = FALSE]
    <3>3. n \in NotifyType /\ ~n.live
        BY <3>1 DEF NotifyType
    <3>4. queue'[i] = [queue[i] EXCEPT !.arg = n]
        BY <2>1, <2>3
    <3> HIDE DEF n
    <3>5. queue'[i] \in [type : {"browse_sync"}, arg : NotifyType] /\ queue'[i].arg = n
        BY <3>2, <3>3, <3>4
    <3> QED
        BY <3>1, <3>3, <3>5 DEF ActionType, SamePlace
  <2>4. CASE ~Orphaned(queue[i], gone)
      BY <2>1, <2>2, <2>4 DEF Orphaned, SamePlace
  <2> QED
      BY <2>3, <2>4
<1>8. DOMAIN queue' = DOMAIN queue /\ Len(queue') = Len(queue) /\ queue' \in Seq(ActionType)
  <2>1. queue' \in [1 .. Len(queue) -> ActionType]
      BY <1>2, <1>6, <1>7
  <2> QED
      BY <1>6, <2>1
<1>9. Line' = queue'
    BY <1>2, <1>8 DEF Line
<1>10. \A i \in DOMAIN queue : i \in Nat /\ i + 1 \in DOMAIN Line /\ Line[i + 1] = queue[i]
    BY <1>2, <1>6, LineIs DEF IInv
<1>11. Moves(1, {}, Line, Line')
    BY <1>7, <1>8, <1>9, <1>10 DEF Moves
<1>12. TypeOK'
    BY <1>2, <1>4, <1>5, <1>8 DEF IInv, TypeOK
<1>13. BrowseInv'
  <2>1. \A b \in Browses : Joining(b) => Joining(b)'
      BY <1>3, <1>4, <1>5 DEF Joining
  <2>2. BrowseAdds'
      BY <1>11, <2>1, BrowseAddsKept DEF IInv, BrowseInv
  <2>3. NoticesLive'
    <3> SUFFICES ASSUME NEW i \in DOMAIN queue, queue'[i].type = "browse_sync", queue'[i].arg.live
                 PROVE  queue'[i].arg.browse \in Range(blist')
        BY <1>8, <1>9 DEF NoticesLive
    <3>1. i + 1 \in DOMAIN Line /\ Line[i + 1] = queue'[i] /\ queue'[i].arg.browse \notin gone
        BY <1>7, <1>10
    <3> QED
        BY <1>4, <3>1 DEF IInv, BrowseInv, NoticesLive
  <2>4. \A b \in Range(blist') : browse'[b] # None
      BY <1>4, <1>5, BrowseAt
  <2> QED
      BY <2>2, <2>3, <2>4 DEF BrowseInv
<1>14. AddsInOrder' /\ ListInv' /\ EndsRightly' /\ ResultsGood'
    BY <1>2, <1>11, ListedIn, SearchesStay
<1> QED
    BY <1>12, <1>13, <1>14 DEF IInv

\* Taking out what is gone leaves one result for an instance.
LEMMA OnePerInstanceWithout ==
    ASSUME NEW results \in Seq(ResultType), OnePerInstance(results), NEW gone
    PROVE  LET w == Without(results, gone) IN w \in Seq(ResultType) /\ OnePerInstance(w)
<1> DEFINE w == Without(results, gone)
<1>1. IsInjective(results)
    BY DEF OnePerInstance, IsInjective
<1>2. w \in Seq(ResultType) /\ Range(w) \subseteq Range(results) /\ IsInjective(w)
    BY <1>1, WithoutIs
<1> HIDE DEF w
<1>3. OnePerInstance(w)
  <2> SUFFICES ASSUME NEW i \in DOMAIN w, NEW j \in DOMAIN w, w[i].inst = w[j].inst
               PROVE  i = j
      BY DEF OnePerInstance
  <2>1. w[i] \in Range(results) /\ w[j] \in Range(results)
      BY <1>2 DEF Range
  <2>2. w[i] = w[j]
      BY <2>1 DEF OnePerInstance, Range
  <2> QED
      BY <1>2, <2>2 DEF IsInjective
<1> QED
    BY <1>2, <1>3 DEF w

\* A notice is delivered to a browse that is in the list.
LEMMA BrowseSyncKeeps == ASSUME IInv, BrowseSync PROVE IInv'
<1>1. PICK t : t = running.arg.browse
    OBVIOUS
<1>2. /\ running # None /\ running.type = "browse_sync" /\ running.arg.live
      /\ ~blocked /\ scan = <<>>
      /\ UNCHANGED <<search, slist, blist, queue, scan, undefined, inputs>>
    BY DEF BrowseSync, Locked
<1>3. PICK gone : browse' \in {browse, [browse EXCEPT ![t].results = Without(@, gone)]}
  <2> DEFINE changed == [i \in DOMAIN running.arg.changed |->
                           browse[t].results[
                             BrowseIndex(browse[t].results, running.arg.changed[i])]]
             bye == SelectInSeq(changed, LAMBDA e : e.ttl = 0)
             over == {e \in Range(browse[t].results) : e.inst = changed[bye].inst}
  <2>1. browse' = [browse EXCEPT ![t].results = IF bye = 0 THEN @ ELSE Without(@, over)]
      BY <1>1 DEF BrowseSync
  <2>2. t \in Range(blist)
      BY <1>1, <1>2, AtHead DEF IInv, BrowseInv, NoticesLive
  <2>3. browse[t] \in BrowseType /\ browse \in [Browses -> BrowseType \cup {None}] /\ t \in Browses
      BY <2>2, BrowseAt DEF IInv, TypeOK
  <2> HIDE DEF changed, bye, over
  <2>4. CASE bye = 0
      BY <2>1, <2>3, <2>4 DEF BrowseType
  <2>5. CASE bye # 0
      BY <2>1, <2>5
  <2> QED
      BY <2>4, <2>5
<1>4. /\ running' = None \/ running' = running
      /\ blocked' \in BOOLEAN /\ (blocked' => running' = running)
    BY DEF BrowseSync
<1>5. t \in Range(blist) /\ t \in Browses
    BY <1>1, <1>2, AtHead, BrowseAt DEF IInv, BrowseInv, NoticesLive
<1>6. /\ browse' \in [Browses -> BrowseType \cup {None}]
      /\ \A b \in Browses : /\ browse'[b] = None <=> browse[b] = None
                            /\ browse'[b] # None => OnePerInstance(browse'[b].results)
  <2> DEFINE w == Without(browse[t].results, gone)
             q == [browse[t] EXCEPT !.results = w]
  <2>1. /\ browse[t] \in BrowseType /\ OnePerInstance(browse[t].results)
        /\ browse[t].results \in Seq(ResultType)
      BY <1>5, BrowseAt DEF BrowseType
  <2>2. w \in Seq(ResultType) /\ OnePerInstance(w)
      BY <2>1, OnePerInstanceWithout
  <2>3. browse' \in {browse, [browse EXCEPT ![t] = q]}
      BY <1>3
  <2> HIDE DEF w
  <2>4. q \in BrowseType /\ q.results = w
      BY <2>1, <2>2 DEF BrowseType
  <2> HIDE DEF q
  <2> QED
      BY <1>5, <2>1, <2>2, <2>3, <2>4, NoneIsNone DEF IInv, TypeOK
<1>11. lost' \in [Browses -> SUBSET Datum]
  <2>1. \E out : lost' = [lost EXCEPT ![t] = @ \ out]
      BY <1>1 DEF BrowseSync
  <2> QED
      BY <2>1 DEF IInv, TypeOK
<1>7. TypeOK'
    BY <1>2, <1>4, <1>6, <1>11 DEF IInv, TypeOK
<1>8. PICK k \in {0, 1} : Moves(k, {}, Line, Line')
    BY <1>2, <1>4, LineStays, LineMovesUp DEF IInv
<1>9. BrowseInv'
  <2>1. BrowseAdds'
      BY <1>2, <1>6, <1>8, BrowseAddsKept DEF IInv, BrowseInv, Joining
  <2>2. NoticesLive'
      BY <1>2, <1>8, NoticesKept DEF IInv, BrowseInv
  <2> QED
      BY <1>2, <1>6, <2>1, <2>2, BrowseAt DEF BrowseInv
<1>10. AddsInOrder' /\ ListInv' /\ EndsRightly' /\ ResultsGood'
    BY <1>2, <1>8, ListedIn, SearchesStay
<1> QED
    BY <1>7, <1>9, <1>10 DEF IInv

\* A packet is parsed: searches grow or leave the list, and a notice is posted for a browse
\* in the list.
LEMMA ReceiveKeeps == ASSUME IInv, Receive PROVE IInv'
<1>1. PICK p, x : p = running.arg /\ x = ParsePacket(p)
    OBVIOUS
<1>2. /\ running # None /\ running.type = "rx" /\ running' = None /\ scan = <<>> /\ ~blocked
      /\ UNCHANGED <<blist, scan, blocked, told, inputs>>
      /\ search' = x.search /\ slist' = x.slist /\ browse' = x.browse
      /\ queue' = IF SyncAction(x) = <<>> \/ x.cut THEN queue ELSE Push(queue, SyncAction(x)[1])
      /\ lost' = IF SyncAction(x) = <<>> \/ ~(x.cut \/ Full) THEN lost
                 ELSE [lost EXCEPT ![x.sync.browse] = @ \cup Range(x.sync.changed)]
      /\ undefined' = (undefined \/ x.bad)
    BY <1>1 DEF Receive, Execute, Locked
<1>3. p \in Packets
    BY <1>1, <1>2, AtHead DEF ActionType
<1> DEFINE over == {s \in Range(slist) : ~Parsed(p).cut /\ Enough(Parsed(p).search[s])}
<1>4. /\ x \in Browsing
      /\ x.slist \in Seq(Searches) /\ Range(x.slist) = {s \in Range(slist) : s \notin over}
      /\ IsInjective(slist) => IsInjective(x.slist)
      /\ \A s \in Searches :
           IF search[s] = None THEN x.search[s] = None
           ELSE IF s \in over THEN /\ x.search[s] \in SearchType /\ Good(x.search[s])
                                   /\ x.search[s].ended = "rightly"
           ELSE Grown(search[s], x.search[s])
    BY <1>1, <1>3, IInvReady, ParsePacketIs
<1>5. over \subseteq Range(slist)
    OBVIOUS
<1> HIDE DEF over
<1>6. /\ slist' \in Seq(Searches) /\ Range(slist') = {s \in Range(slist) : s \notin over}
      /\ IsInjective(slist')
  <2>1. IsInjective(slist)
      BY ListedIn DEF IInv
  <2> QED
      BY <1>2, <1>4, <2>1
<1>7. /\ search' \in [Searches -> SearchType \cup {None}]
      /\ browse' \in [Browses -> BrowseType \cup {None}] /\ undefined' \in BOOLEAN
      /\ \A b \in Browses : /\ browse'[b] = None <=> browse[b] = None
                            /\ browse'[b] # None => OnePerInstance(browse'[b].results)
    BY <1>2, <1>4 DEF Browsing, ParserType, BrowsesKept, IInv, TypeOK
<1>8. PICK more : /\ Moves(1, more, Line, Line')
                  /\ \A a \in more : a.type = "browse_sync" /\ a.arg.browse \in Range(blist)
                  /\ queue' \in Seq(ActionType) /\ Len(queue') <= QueueLen
  <2>1. CASE SyncAction(x) = <<>> \/ x.cut
    <3>1. queue' = queue
        BY <1>2, <2>1
    <3>2. Moves(1, {}, Line, Line')
        BY <1>2, <3>1, LineMovesUp DEF IInv
    <3> QED
        BY <3>1, <3>2 DEF IInv, TypeOK
  <2>2. CASE ~(SyncAction(x) = <<>> \/ x.cut)
    <3>1. PICK a : a = SyncAction(x)[1]
        OBVIOUS
    <3>2. a \in ActionType /\ a.type = "browse_sync" /\ a.arg.browse \in Range(blist)
        BY <1>4, <2>2, <3>1, IInvReady, SyncActionIs
    <3>3. queue' = Push(queue, a)
        BY <1>2, <2>2, <3>1
    <3>4. Moves(1, {a}, Line, Line')
        BY <1>2, <3>2, <3>3, LineMovesAndGrows DEF IInv
    <3> QED
        BY <3>2, <3>3, <3>4, PushIs DEF IInv
  <2> QED
      BY <2>1, <2>2
<1>15. lost' \in [Browses -> SUBSET Datum]
  <2>1. lost \in [Browses -> SUBSET Datum]
      BY DEF IInv, TypeOK
  <2>2. SyncAction(x) # <<>> => x.sync.changed \in Seq(Datum) /\ x.sync.browse \in Browses
      BY <1>4 DEF SyncAction, Browsing, ParserType, SyncType
  <2>3. SyncAction(x) # <<>> => Range(x.sync.changed) \subseteq Datum
      BY <2>2 DEF Range
  <2> QED
      BY <1>2, <2>1, <2>2, <2>3
<1>9. TypeOK'
    BY <1>2, <1>6, <1>7, <1>8, <1>15 DEF IInv, TypeOK
<1>10. \A s \in Searches : s \notin over /\ search[s] # None =>
         /\ search'[s] # None
         /\ search'[s].state = search[s].state /\ search'[s].done = search[s].done
         /\ search'[s].expired = search[s].expired /\ search'[s].ended = search[s].ended
         /\ Good(search'[s])
    BY <1>2, <1>4, NoneIsNone DEF Grown
<1>11. AddsInOrder'
  <2>1. \A s \in Searches : Waiting(s) => Waiting(s)'
      BY <1>5, <1>6, <1>10 DEF Waiting
  <2>2. \A s : Add(s) \notin more /\ End(s) \notin more
      BY <1>8, ActionIs DEF Add, End
  <2> QED
      BY <1>8, <2>1, <2>2, AddsKept DEF IInv
<1>12. ListInv'
  <2>1. \A s : End(s) \notin more
      BY <1>8, ActionIs DEF End
  <2>2. \A s \in Range(slist') : /\ s \in Range(slist) /\ Listed(s)'
                                 /\ search[s].expired \/ End(s) \in more => search'[s].expired
      BY <1>6, <1>10, <2>1, ListedIn DEF Listed
  <2>3. EndsExpired'
      BY <1>8, <2>2, EndsKept DEF IInv, ListInv
  <2>4. Range(scan') = {}
      BY <1>2 DEF Range
  <2> QED
      BY <1>6, <2>3, <2>4 DEF ListInv
<1>13. EndsRightly' /\ ResultsGood'
  <2> SUFFICES ASSUME NEW s \in Searches, search'[s] # None
               PROVE  Good(search'[s]) /\ search'[s].ended # "early"
      BY DEF EndsRightly, ResultsGood
  <2>1. search[s] # None
      BY <1>2, <1>4
  <2>2. CASE s \in over
      BY <1>2, <1>4, <2>1, <2>2
  <2>3. CASE s \notin over
      BY <1>10, <2>1, <2>3, SearchAt
  <2> QED
      BY <2>2, <2>3
<1>14. BrowseInv'
  <2>1. BrowseAdds'
      BY <1>2, <1>7, <1>8, BrowseAddsKept DEF IInv, BrowseInv, Joining
  <2>2. NoticesLive'
      BY <1>2, <1>8, NoticesKept DEF IInv, BrowseInv
  <2> QED
      BY <1>2, <1>7, <2>1, <2>2, BrowseAt DEF BrowseInv
<1> QED
    BY <1>9, <1>11, <1>12, <1>13, <1>14 DEF IInv

-----------------------------------------------------------------------------
(* The invariant holds.                                                       *)

\* At the start the lists and the line are empty.
LEMMA InitHolds == ASSUME Init PROVE IInv
<1>1. Range(slist) = {} /\ Range(scan) = {} /\ Range(blist) = {} /\ IsInjective(slist)
    BY DEF Init, Range, IsInjective
<1>2. Line = <<>>
    BY DEF Init, Line
<1>3. TypeOK
  <2>1. 0 \in 0 .. MaxInputs /\ 0 <= QueueLen
      BY ClientAssumption
  <2>2. /\ search \in [Searches -> SearchType \cup {None}]
        /\ browse \in [Browses -> BrowseType \cup {None}]
        /\ \A b \in Browses : browse[b] = None
      BY DEF Init
  <2>3. /\ <<>> \in Seq(Searches) /\ <<>> \in Seq(Browses) /\ <<>> \in Seq(ActionType)
        /\ Len(<<>>) = 0
      OBVIOUS
  <2> QED
      BY <2>1, <2>2, <2>3 DEF Init, TypeOK
<1>4. AddsInOrder /\ BrowseAdds /\ NoticesLive
    BY <1>2 DEF AddsInOrder, BrowseAdds, NoticesLive
<1>5. EndsRightly /\ ResultsGood
    BY DEF Init, EndsRightly, ResultsGood
<1> QED
    BY <1>1, <1>3, <1>4, <1>5 DEF IInv, ListInv, EndsExpired, BrowseInv

\* Nothing happens.
LEMMA StutterKeeps == ASSUME IInv, UNCHANGED vars PROVE IInv'
<1>1. /\ UNCHANGED <<search, slist, browse, blist, queue, running, scan, blocked>>
      /\ UNCHANGED <<undefined, told, lost, inputs>>
    BY DEF vars
<1>2. TypeOK'
    BY <1>1 DEF IInv, TypeOK
<1>3. Moves(0, {}, Line, Line')
    BY <1>1, LineStays DEF IInv
<1> QED
    BY <1>1, <1>2, <1>3, ListedIn, NothingElse

\* Every step keeps the invariant.
LEMMA StepKeeps == ASSUME IInv, [Next]_vars PROVE IInv'
<1>1. CASE Application
    BY <1>1, QueryKeeps, QueryReturnsKeeps, GetResultsKeeps, AsyncDeleteKeeps,
       BrowseNewKeeps,
       BrowseDeleteKeeps DEF Application
<1>2. CASE Clock
    BY <1>2, ExpireKeeps, SecondPassesKeeps DEF Clock
<1>3. CASE Timer
    BY <1>3, TimerRunsKeeps, TimerStepKeeps DEF Timer
<1>4. CASE PacketComes
    BY <1>4, PacketComesKeeps
<1>5. CASE Task
    BY <1>5, TakeKeeps, SearchAddKeeps, SearchSentKeeps, SearchEndedKeeps,
       ReceiveKeeps,
       BrowseAddKeeps, BrowseEndKeeps, BrowseSyncKeeps,
       BrowseSyncOrphanedKeeps DEF Task
<1>6. CASE UNCHANGED vars
    BY <1>6, StutterKeeps
<1> QED
    BY <1>1, <1>2, <1>3, <1>4, <1>5, <1>6 DEF Next

\* The invariant holds of the specification.
LEMMA IInvHolds == Spec => []IInv
<1>1. Init => IInv
    BY InitHolds
<1>2. IInv /\ [Next]_vars => IInv'
    BY StepKeeps
<1> QED
    BY <1>1, <1>2, PTL DEF Spec

\* What waits to be added is in the line, and there.
LEMMA SearchInvFollows == ASSUME IInv PROVE SearchInv
<1>1. TypeOK
    BY DEF IInv
<1>2. \A s \in Searches : Adds(s) => \E i \in DOMAIN Line : Line[i] = Add(s)
  <2> SUFFICES ASSUME NEW s \in Searches, Adds(s)
               PROVE  \E i \in DOMAIN Line : Line[i] = Add(s)
      OBVIOUS
  <2>1. CASE running = Add(s) /\ running # None
      BY <2>1, AtHead
  <2>2. CASE Add(s) \in Range(queue)
    <3>1. PICK i \in DOMAIN queue : queue[i] = Add(s)
        BY <2>2 DEF Range
    <3>2. running = None => i \in DOMAIN Line /\ Line[i] = queue[i]
        BY <1>1, <3>1, LineIs
    <3>3. running # None => i + 1 \in DOMAIN Line /\ Line[i + 1] = queue[i]
      <4>1. queue \in Seq(ActionType)
          BY <1>1 DEF TypeOK
      <4>2. i \in 1 .. Len(queue) /\ Len(queue) \in Nat
          BY <3>1, <4>1
      <4> QED
          BY <1>1, <3>1, <4>2, LineIs
    <3> QED
        BY <3>1, <3>2, <3>3
  <2> QED
      BY <2>1, <2>2 DEF Adds, Pending, Add
<1>3. \A s \in Searches : Adds(s) => search[s] # None /\ s \notin Range(slist)
    BY <1>2 DEF IInv, AddsInOrder, Waiting
<1>4. NoFreedSearch
    BY <1>3, ListedIn DEF NoFreedSearch, Contains, Range
<1>5. MaxRespected
    BY DEF IInv, ResultsGood, Good, MaxRespected
<1> QED
    BY <1>1, <1>4, <1>5 DEF SearchInv

\* The addresses of a result are those of its host.
LEMMA AddressesFollow == ASSUME IInv PROVE AddressesBelong
<1> SUFFICES ASSUME NEW s \in Searches, search[s] # None,
                    NEW e \in Range(search[s].results), NEW ip \in e.addr
             PROVE  \/ Announced(e.host, ip)
                    \/ /\ search[s].type \in {"A", "ANY"}
                       /\ Announced(search[s].name, ip) \/ AnnouncedAsOwn(ip)
    BY DEF AddressesBelong
<1>1. PICK i \in DOMAIN search[s].results : e = search[s].results[i]
    BY DEF Range
<1>2. Belongs(search[s], e)
    BY <1>1 DEF IInv, ResultsGood, Good
<1> QED
    BY <1>2 DEF Belongs

-----------------------------------------------------------------------------
(* The notices: what the application has been told of a browse, and what it   *)
(* has still to be told.                                                      *)

\* The last of a set of positions that has the last there is.
LEMMA MaxIs ==
    ASSUME NEW k \in Nat, NEW s \in SUBSET (1 .. k), k \in s
    PROVE  Max(s) = k
<1>1. \A x \in s : (\A y \in s : x >= y) => x = k
    OBVIOUS
<1>2. \A y \in s : k >= y
    OBVIOUS
<1> QED
    BY <1>1, <1>2 DEF Max

\* A fold goes through the sets of positions: a set of the first k + 1 is one of the
\* first k, or one of these with k + 1 in front of which it comes.
LEMMA PlacesUpTo ==
    ASSUME NEW k \in Nat, NEW s \in SUBSET (1 .. k + 1)
    PROVE  /\ k + 1 \in s => Max(s) = k + 1 /\ s # {} /\ s \ {k + 1} \in SUBSET (1 .. k)
           /\ k + 1 \notin s => s \in SUBSET (1 .. k) /\ s \ {Max(s)} \in SUBSET (1 .. k)
<1>1. ASSUME k + 1 \in s PROVE Max(s) = k + 1
  <2>1. k + 1 \in Nat
      OBVIOUS
  <2> QED
      BY <1>1, <2>1, MaxIs
<1>2. k + 1 \in s => s \ {k + 1} \in SUBSET (1 .. k)
    OBVIOUS
<1>3. k + 1 \notin s => s \in SUBSET (1 .. k)
    OBVIOUS
<1>4. k + 1 \notin s => s \ {Max(s)} \in SUBSET (1 .. k)
    BY <1>3
<1> QED
    BY <1>1, <1>2, <1>3, <1>4

\* The sets a fold over n places passes: those of the first i.
LEMMA PlacesBefore ==
    ASSUME NEW n \in Nat, NEW i \in 1 .. n
    PROVE  /\ 1 .. i \in SUBSET (1 .. n) /\ 1 .. i # {}
           /\ Max(1 .. i) = i /\ (1 .. i) \ {Max(1 .. i)} = 1 .. i - 1
<1>1. i \in Nat /\ 1 .. i \in SUBSET (1 .. i) /\ i \in 1 .. i
    OBVIOUS
<1>2. Max(1 .. i) = i
    BY <1>1, MaxIs
<1>3. (1 .. i) \ {i} = 1 .. i - 1
    OBVIOUS
<1>4. 1 .. i \in SUBSET (1 .. n)
    OBVIOUS
<1>5. 1 .. i # {}
    BY <1>1
<1>6. (1 .. i) \ {Max(1 .. i)} = 1 .. i - 1
    BY <1>2, <1>3
<1> QED
    BY <1>2, <1>4, <1>5, <1>6

\* What is known after each of the results the notifier is called for, from known on.
Telling(r, known, s, n) ==
    /\ r[0] = known /\ r[n] = TellAll(known, s)
    /\ \A i \in 1 .. n : r[i] = Tell(r[i - 1], s[i])

\* The results the notifier is called for, one after the other.
LEMMA TellFold ==
    ASSUME NEW known, NEW seq,
           NEW n \in Nat, DOMAIN seq = 1 .. n
    PROVE  \E r : Telling(r, known, seq, n)
<1> DEFINE Op(x, i) == Tell(x, seq[i])
           After(g, s) == IF s = {} THEN known ELSE Op(g[s \ {Max(s)}], Max(s))
           Is(k, g) == g = [s \in SUBSET (1 .. k) |-> After(g, s)]
           fold == CHOOSE g : Is(n, g)
           T == {k \in 0 .. n : \E g : Is(k, g)}
<1>1. TellAll(known, seq) = fold[1 .. n]
    BY DEF TellAll, FoldLeft, MapThenFoldSet
<1> HIDE DEF Op
<1>2. Is(0, [s \in SUBSET (1 .. 0) |-> known])
    OBVIOUS
<1>3. ASSUME NEW k \in 0 .. n - 1, NEW g, Is(k, g) PROVE \E h : Is(k + 1, h)
  <2> DEFINE h == [s \in SUBSET (1 .. k + 1) |->
                     IF k + 1 \in s THEN Op(g[s \ {k + 1}], k + 1) ELSE g[s]]
  <2>0. \A s \in SUBSET (1 .. k) : g[s] = After(g, s)
      BY <1>3
  <2>1. /\ \A s \in SUBSET (1 .. k) : h[s] = g[s]
        /\ \A s \in SUBSET (1 .. k + 1) : k + 1 \in s => h[s] = Op(g[s \ {k + 1}], k + 1)
        /\ h = [s \in SUBSET (1 .. k + 1) |-> h[s]]
      OBVIOUS
  <2> HIDE DEF h
  <2>2. \A s \in SUBSET (1 .. k + 1) : h[s] = After(h, s)
      BY k \in Nat, <2>0, <2>1, PlacesUpTo
  <2> QED
      BY <2>1, <2>2
<1>4. Is(n, fold)
  <2> HIDE DEF Is
  <2>1. 0 \in T /\ \A k \in 0 .. n - 1 : k \in T => k + 1 \in T
      BY <1>2, <1>3
  <2> HIDE DEF T
  <2>2. 0 .. n \subseteq T
      BY <2>1, UpFromZero
  <2> QED
      BY <2>2 DEF T
<1> HIDE DEF fold
<1> DEFINE r == [i \in 0 .. n |-> fold[1 .. i]]
<1>5. r[0] = known /\ r[n] = fold[1 .. n]
  <2>1. 1 .. 0 = {} /\ r[0] = fold[1 .. 0] /\ r[n] = fold[1 .. n]
      OBVIOUS
  <2>2. fold[{}] = known
      BY <1>4
  <2> QED
      BY <2>1, <2>2
<1>6. ASSUME NEW i \in 1 .. n PROVE r[i] = Op(r[i - 1], i)
  <2>1. r[i] = fold[1 .. i] /\ r[i - 1] = fold[1 .. i - 1]
      OBVIOUS
  <2>2. fold[1 .. i] = Op(fold[(1 .. i) \ {Max(1 .. i)}], Max(1 .. i))
      BY <1>4, PlacesBefore
  <2> HIDE DEF r
  <2> QED
      BY <2>1, <2>2, PlacesBefore
<1> HIDE DEF r
<1>7. Telling(r, known, seq, n)
    BY <1>1, <1>5, <1>6 DEF Op, Telling
<1> QED
    BY <1>7
\* What is known of an instance.
Known(w, inst) == {k \in w : k.inst = inst}

\* What is known of an instance after the notifier has been called: what was known, if
\* it was not called for it, else the result it was called for.
LEMMA ToldAfter ==
    ASSUME NEW known, NEW n \in Nat, NEW s, DOMAIN s = 1 .. n, NEW inst
    PROVE  /\ (\A j \in 1 .. n : s[j].inst # inst)
                 => Known(TellAll(known, s), inst) = Known(known, inst)
           /\ \A e : /\ e.ttl # 0 /\ \E j \in 1 .. n : s[j].inst = inst
                     /\ \A j \in 1 .. n : s[j].inst = inst => s[j] = e
                     => Known(TellAll(known, s), inst) = {Seen(e)}
<1> DEFINE At(w) == {k \in w : k.inst = inst}
           Of(i) == {j \in 1 .. i : s[j].inst = inst}
           After(i, w) == /\ Of(i) = {} => At(w) = At(known)
                          /\ \A e : Of(i) # {} /\ (\A j \in Of(i) : s[j] = e) /\ e.ttl # 0
                                      => At(w) = {Seen(e)}
<1>0. PICK r : Telling(r, known, s, n)
    BY TellFold
<1>1. /\ r[0] = known /\ r[n] = TellAll(known, s)
      /\ \A i \in 1 .. n : r[i] = Tell(r[i - 1], s[i])
    BY <1>0 DEF Telling
<1> DEFINE T == {i \in 0 .. n : After(i, r[i])}
<1>2. 0 \in T
  <2>1. Of(0) = {} /\ 0 \in 0 .. n
      OBVIOUS
  <2> QED
      BY <1>1, <2>1
<1>3. ASSUME NEW i \in 0 .. n - 1, After(i, r[i]) PROVE After(i + 1, r[i + 1])
  <2> DEFINE e == s[i + 1]
  <2>1. r[i + 1] = Tell(r[i], e)
    <3>1. i + 1 \in 1 .. n /\ (i + 1) - 1 = i
        OBVIOUS
    <3> QED
        BY <1>1, <3>1
  <2>2. Of(i + 1) = Of(i) \cup (IF e.inst = inst THEN {i + 1} ELSE {})
    <3>1. 1 .. i + 1 = (1 .. i) \cup {i + 1}
        OBVIOUS
    <3> QED
        BY <3>1
  <2> HIDE DEF e
  <2>3. Seen(e).inst = e.inst
      BY DEF Seen
  <2>4. CASE e.inst # inst
    <3>1. At(r[i + 1]) = At(r[i])
        BY <2>1, <2>3, <2>4 DEF Tell
    <3>2. Of(i + 1) = Of(i)
        BY <2>2, <2>4
    <3> HIDE DEF At, Of
    <3> QED
        BY <1>3, <3>1, <3>2
  <2>5. CASE e.inst = inst
    <3>1. e.ttl # 0 => At(r[i + 1]) = {Seen(e)}
        BY <2>1, <2>3, <2>5 DEF Tell
    <3>2. i + 1 \in Of(i + 1) /\ s[i + 1] = e
        BY <2>2, <2>5 DEF e
    <3> HIDE DEF At, Of
    <3> QED
        BY <3>1, <3>2
  <2> QED
      BY <2>4, <2>5
<1>4. 0 .. n \subseteq T
  <2>1. \A i \in 0 .. n - 1 : i \in T => i + 1 \in T
    <3>1. \A i \in 0 .. n - 1 : i + 1 \in 0 .. n
        OBVIOUS
    <3> HIDE DEF After
    <3> QED
        BY <1>3, <3>1
  <2> HIDE DEF T
  <2> QED
      BY <1>2, <2>1, UpFromZero
<1>5. After(n, TellAll(known, s))
  <2>1. n \in T
      BY <1>4
  <2> QED
      BY <1>1, <2>1
<1> QED
    BY <1>5 DEF Known

\* The notices on their way to a browse that is there, and what they are about.
Notices == {a \in Pending : a.type = "browse_sync" /\ a.arg.live}
Noticed(b, inst) == \E a \in Notices : a.arg.browse = b /\ inst \in Range(a.arg.changed)

\* What the application knows of an instance is what the cache holds, unless a notice of
\* it is on its way or that of its last change has been lost.
InStep(b, inst) == ToldOf(b, inst) = SeenAt(browse[b].results, inst)
ChangesTold ==
    \A b \in Browses : browse[b] # None =>
      \A i : InStep(b, i) \/ Noticed(b, i) \/ i \in lost[b]
\* What a notice is about is in the cache.
ChangesThere ==
    ~blocked => \A b \in Browses : \A i : Noticed(b, i) => SeenAt(browse[b].results, i) # {}
NoticeInv == told = [b \in Browses |-> told[b]] /\ ChangesTold /\ ChangesThere

\* What is pending is in the line.
LEMMA PendingInLine ==
    ASSUME TypeOK, NEW a \in Pending
    PROVE  \E i \in DOMAIN Line : Line[i] = a
<1>1. CASE a = running /\ running # None
    BY <1>1, LineIs
<1>2. CASE a \in Range(queue)
  <2>1. PICK i \in DOMAIN queue : queue[i] = a
      BY <1>2 DEF Range
  <2>2. running = None => i \in DOMAIN Line /\ Line[i] = queue[i]
      BY <2>1, LineIs
  <2>3. running # None => i + 1 \in DOMAIN Line /\ Line[i + 1] = queue[i]
    <3>1. i \in 1 .. Len(queue) /\ Len(queue) \in Nat
        BY <2>1 DEF TypeOK
    <3> QED
        BY <2>1, <3>1, LineIs
  <2> QED
      BY <2>1, <2>2, <2>3
<1> QED
    BY <1>1, <1>2 DEF Pending

\* The browse of a notice that lives is in the list.
LEMMA NoticedListed ==
    ASSUME IInv, NEW b, NEW i, Noticed(b, i)
    PROVE  b \in Range(blist) /\ b \in Browses /\ browse[b] # None
<1>1. b \in Range(blist)
    BY PendingInLine DEF Noticed, Notices, IInv, BrowseInv, NoticesLive
<1> QED
    BY <1>1, BrowseAt

\* A push adds what is pushed to what is pending, unless the queue is full.
LEMMA PendingPushed ==
    ASSUME TypeOK, NEW a \in ActionType, queue' = Push(queue, a)
    PROVE  Range(queue') = Range(queue) \cup (IF Full THEN {} ELSE {a})
<1>1. Range(Append(queue, a)) = Range(queue) \cup {a}
  <2>1. queue \in Seq(ActionType)
      BY DEF TypeOK
  <2>2. /\ DOMAIN Append(queue, a) = DOMAIN queue \cup {Len(queue) + 1}
        /\ Append(queue, a)[Len(queue) + 1] = a
        /\ \A i \in DOMAIN queue : Append(queue, a)[i] = queue[i]
      BY <2>1
  <2> QED
      BY <2>2 DEF Range
<1> QED
    BY <1>1, PushIs

\* To take an action leaves what is pending.
LEMMA PendingTaken ==
    ASSUME TypeOK, Take
    PROVE  Pending' = Pending
<1>1. /\ queue \in Seq(ActionType) /\ queue # <<>> /\ running = None
      /\ running' = Head(queue) /\ queue' = Tail(queue)
    BY DEF TypeOK, Take
<1>2. Head(queue) \in ActionType
    BY <1>1
<1>3. queue = <<Head(queue)>> \o Tail(queue) /\ Tail(queue) \in Seq(ActionType)
    BY <1>1
<1>4. Range(queue) = Range(Tail(queue)) \cup {Head(queue)}
    BY <1>2, <1>3, RangeOfMore
<1>5. running' # None
    BY <1>1, <1>2, NoneIsNone
<1> QED
    BY <1>1, <1>4, <1>5 DEF Pending

\* A step that leaves the caches, what has been told and the notices.
LEMMA NoticesStay ==
    ASSUME NoticeInv, UNCHANGED <<browse, told, lost, blocked>>, Notices' = Notices
    PROVE  NoticeInv'
<1>1. \A b, i : Noticed(b, i)' = Noticed(b, i)
    BY DEF Noticed
<1>2. \A b, i : InStep(b, i)' = InStep(b, i)
    BY DEF InStep, ToldOf
<1> QED
    BY <1>1, <1>2 DEF NoticeInv, ChangesTold, ChangesThere

\* The actions of the application, the timer and the network post no notice.
LEMMA InputsKeepNotices ==
    ASSUME IInv, NoticeInv, UNCHANGED <<browse, told, lost, blocked, running>>,
           queue' = queue \/ \E a \in ActionType : a.type # "browse_sync" /\ queue' = Push(queue, a)
    PROVE  NoticeInv'
<1>1. CASE queue' = queue
    BY <1>1, NoticesStay DEF Notices, Pending
<1>2. CASE \E a \in ActionType : a.type # "browse_sync" /\ queue' = Push(queue, a)
  <2>1. PICK a \in ActionType : a.type # "browse_sync" /\ queue' = Push(queue, a)
      BY <1>2
  <2>2. Range(queue') \in {Range(queue), Range(queue) \cup {a}}
      BY <2>1, PendingPushed DEF IInv
  <2>3. Notices' = Notices
      BY <2>1, <2>2 DEF Notices, Pending
  <2> QED
      BY <2>3, NoticesStay
<1> QED
    BY <1>1, <1>2

\* What the task is done with, if it was no notice that lives, leaves the notices.
LEMMA DoneKeepsNotices ==
    ASSUME NoticeInv, UNCHANGED <<browse, told, lost, blocked, queue>>,
           running' = None, running.type = "browse_sync" => ~running.arg.live
    PROVE  NoticeInv'
<1>1. Notices' = Notices
    BY DEF Notices, Pending
<1> QED
    BY <1>1, NoticesStay

\* What neither makes, frees nor serves a browse leaves the notices as they are.
LEMMA OthersKeepNotices ==
    ASSUME IInv, NoticeInv,
           \/ \E s \in Searches : Query(s) \/ QueryReturns(s) \/ GetResults(s) \/ AsyncDelete(s)
           \/ BrowseDelete \/ Clock \/ Timer \/ PacketComes
           \/ Take \/ SearchAdd \/ SearchSent \/ SearchEnded \/ BrowseSyncOrphaned
    PROVE  NoticeInv'
<1>1. CASE \E s \in Searches : Query(s)
  <2>1. PICK s \in Searches : Query(s)
      BY <1>1
  <2>2. Action("search_add", s) \in ActionType /\ Action("search_add", s).type # "browse_sync"
      BY DEF Action, ActionType
  <2>3. /\ UNCHANGED <<browse, told, lost, blocked, running>>
        /\ queue' = Push(queue, Action("search_add", s))
      BY <2>1 DEF Query, UnchangedService
  <2> QED
      BY <2>2, <2>3, InputsKeepNotices
<1>2. CASE BrowseDelete
  <2>1. PICK v \in Services : queue' = Push(queue, Action("browse_end", v))
      BY <1>2 DEF BrowseDelete
  <2>2. Action("browse_end", v) \in ActionType /\ Action("browse_end", v).type # "browse_sync"
      BY DEF Action, ActionType
  <2>3. UNCHANGED <<browse, told, lost, blocked, running>>
      BY <1>2 DEF BrowseDelete, UnchangedService
  <2> QED
      BY <2>1, <2>2, <2>3, InputsKeepNotices
<1>3. CASE PacketComes
  <2>1. PICK p \in Packets : queue' = Push(queue, Action("rx", p))
      BY <1>3 DEF PacketComes
  <2>2. Action("rx", p) \in ActionType /\ Action("rx", p).type # "browse_sync"
      BY DEF Action, ActionType
  <2>3. UNCHANGED <<browse, told, lost, blocked, running>>
      BY <1>3 DEF PacketComes, UnchangedService
  <2> QED
      BY <2>1, <2>2, <2>3, InputsKeepNotices
<1>4. CASE TimerStep
  <2>1. PICK s : s = Head(scan)
      OBVIOUS
  <2>2. s \in Searches
      BY <1>4, <2>1 DEF TimerStep, IInv, TypeOK
  <2>3. \A t \in {"search_end", "search_send"} :
          Action(t, s) \in ActionType /\ Action(t, s).type # "browse_sync"
      BY <2>2 DEF Action, ActionType
  <2>4. queue' \in {Push(queue, Action("search_end", s)), Push(queue, Action("search_send", s))}
      BY <1>4, <2>1 DEF TimerStep, SearchEnd, SearchSend
  <2>5. UNCHANGED <<browse, told, lost, blocked, running>>
      BY <1>4 DEF TimerStep, UnchangedButTimer
  <2> QED
      BY <2>3, <2>4, <2>5, InputsKeepNotices
<1>5. CASE TimerRuns
  <2>1. UNCHANGED <<browse, told, lost, blocked, running, queue>>
      BY <1>5 DEF TimerRuns, UnchangedButTimer
  <2> QED
      BY <2>1, InputsKeepNotices
<1>6. CASE \/ \E s \in Searches : QueryReturns(s) \/ GetResults(s) \/ AsyncDelete(s)
           \/ Clock
  <2>1. UNCHANGED <<browse, told, lost, blocked, running, queue>>
      BY <1>6 DEF QueryReturns, GetResults, AsyncDelete, Clock, Expire, SecondPasses,
                  UnchangedService
  <2> QED
      BY <2>1, InputsKeepNotices
<1>7. CASE Take
  <2>1. Pending' = Pending
      BY <1>7, PendingTaken DEF IInv
  <2>2. Notices' = Notices
      BY <2>1 DEF Notices
  <2>3. UNCHANGED <<browse, told, lost, blocked>>
      BY <1>7 DEF Take
  <2> QED
      BY <2>2, <2>3, NoticesStay
<1>8. CASE SearchAdd \/ SearchSent \/ SearchEnded
  <2>1. /\ UNCHANGED <<browse, told, lost, blocked, queue>> /\ running' = None
        /\ running.type # "browse_sync"
      BY <1>8 DEF SearchAdd, SearchSent, SearchEnded, Execute, Quietly
  <2> QED
      BY <2>1, DoneKeepsNotices
<1>9. CASE BrowseSyncOrphaned
  <2>1. /\ UNCHANGED <<browse, told, lost, blocked, queue>> /\ running' = None
        /\ ~running.arg.live
      BY <1>9 DEF BrowseSyncOrphaned, Execute
  <2> QED
      BY <2>1, DoneKeepsNotices
<1> QED
    BY <1>1, <1>2, <1>3, <1>4, <1>5, <1>6, <1>7, <1>8, <1>9 DEF Timer

\* Nothing has been told of a browse that is new, and nothing is in its cache.
LEMMA BrowseNewKeepsNotices ==
    ASSUME IInv, NoticeInv, NEW t \in Browses, BrowseNew(t)
    PROVE  NoticeInv'
<1>1. PICK v \in Services : browse' = IF Full THEN browse
                                      ELSE [browse EXCEPT ![t] = [svc |-> v, results |-> <<>>]]
    BY DEF BrowseNew
<1> DEFINE q == [svc |-> v, results |-> <<>>]
           a == Action("browse_add", t)
<1>2. /\ browse[t] = None /\ queue' = Push(queue, a) /\ told' = [told EXCEPT ![t] = {}]
      /\ UNCHANGED <<running, blocked>> /\ lost' = [lost EXCEPT ![t] = {}]
    BY DEF BrowseNew
<1>3. a \in ActionType /\ a.type = "browse_add"
    BY DEF Action, ActionType
<1>4. Notices' = Notices
  <2> HIDE DEF a
  <2>1. Range(queue') \in {Range(queue), Range(queue) \cup {a}}
      BY <1>2, <1>3, PendingPushed DEF IInv
  <2> QED
      BY <1>2, <1>3, <2>1 DEF Notices, Pending
<1>5. \A b, i : Noticed(b, i)' = Noticed(b, i)
    BY <1>4 DEF Noticed
<1>6. \A i : SeenAt(q.results, i) = {}
    BY DEF SeenAt, Range
<1>7. /\ browse'[t] = IF Full THEN None ELSE q
      /\ \A b \in Browses : b # t => browse'[b] = browse[b]
  <2>1. browse' = IF Full THEN browse ELSE [browse EXCEPT ![t] = q]
      BY <1>1
  <2> HIDE DEF q
  <2> QED
      BY <1>2, <2>1 DEF IInv, TypeOK
<1> HIDE DEF q
<1>8. told' = [b \in Browses |-> IF b = t THEN {} ELSE told[b]]
    BY <1>2 DEF NoticeInv
<1>9. ChangesTold'
  <2> SUFFICES ASSUME NEW b \in Browses, browse'[b] # None, NEW i
               PROVE  InStep(b, i)' \/ Noticed(b, i)' \/ i \in lost'[b]
      BY DEF ChangesTold
  <2>1. CASE b = t
      BY <1>6, <1>7, <1>8, <2>1 DEF InStep, ToldOf
  <2>2. CASE b # t
    <3>1. InStep(b, i) \/ Noticed(b, i) \/ i \in lost[b]
        BY <1>2, <1>7, <2>2 DEF NoticeInv, ChangesTold
    <3>2. lost'[b] = lost[b]
        BY <1>2, <2>2 DEF IInv, TypeOK
    <3> QED
        BY <1>5, <1>7, <1>8, <2>2, <3>1, <3>2 DEF InStep, ToldOf
  <2> QED
      BY <2>1, <2>2
<1>10. ChangesThere'
  <2> SUFFICES ASSUME ~blocked', NEW b \in Browses, NEW i, Noticed(b, i)
               PROVE  SeenAt(browse'[b].results, i) # {}
      BY <1>5 DEF ChangesThere
  <2>1. browse[b] # None
      BY NoticedListed
  <2> QED
      BY <1>2, <1>7, <2>1 DEF NoticeInv, ChangesThere
<1> QED
    BY <1>8, <1>9, <1>10 DEF NoticeInv

\* A browse that joins the list brings its cache with it; one that is freed has had no
\* notice.
LEMMA BrowseAddKeepsNotices ==
    ASSUME IInv, NoticeInv, BrowseAdd
    PROVE  NoticeInv'
<1>1. /\ running # None /\ running.type = "browse_add" /\ running' = None
      /\ UNCHANGED <<queue, blocked, told, lost>>
      /\ browse' \in {browse, [browse EXCEPT ![running.arg] = None]}
    BY DEF BrowseAdd, Execute, Quietly
<1>2. PICK t \in Browses : running = Action("browse_add", t) /\ running.arg = t
    BY <1>1, AtHead DEF ActionType, NotifyType, Action
<1>3. t \notin Range(blist)
    BY <1>1, <1>2, AtHead DEF IInv, BrowseInv, BrowseAdds, Joining
<1>4. Notices' = Notices
    BY <1>1 DEF Notices, Pending
<1>5. \A b, i : Noticed(b, i)' = Noticed(b, i)
    BY <1>4 DEF Noticed
<1>6. \A b \in Browses : browse'[b] = browse[b] \/ (b = t /\ browse'[b] = None)
    BY <1>1, <1>2 DEF IInv, TypeOK
<1>7. ChangesTold'
  <2> SUFFICES ASSUME NEW b \in Browses, browse'[b] # None, NEW i
               PROVE  InStep(b, i)' \/ Noticed(b, i)' \/ i \in lost'[b]
      BY DEF ChangesTold
  <2>1. browse'[b] = browse[b] /\ (InStep(b, i) \/ Noticed(b, i) \/ i \in lost[b])
      BY <1>1, <1>6 DEF NoticeInv, ChangesTold
  <2> QED
      BY <1>1, <1>5, <2>1 DEF InStep, ToldOf
<1>8. ChangesThere'
  <2> SUFFICES ASSUME ~blocked', NEW b \in Browses, NEW i, Noticed(b, i)
               PROVE  SeenAt(browse'[b].results, i) # {}
      BY <1>5 DEF ChangesThere
  <2>1. b # t
      BY <1>3, NoticedListed
  <2> QED
      BY <1>1, <1>6, <2>1 DEF NoticeInv, ChangesThere
<1> QED
    BY <1>1, <1>7, <1>8 DEF NoticeInv

\* The notices of the browses that are freed are no longer alive; the others stay.
LEMMA BrowseEndKeepsNotices ==
    ASSUME IInv, NoticeInv, BrowseEnd
    PROVE  NoticeInv'
<1>1. PICK gone : gone = {b \in Browses : Contains(blist, b) /\ browse[b].svc = running.arg}
    OBVIOUS
<1>2. /\ running # None /\ running.type = "browse_end" /\ running' = None
      /\ UNCHANGED blocked
      /\ lost' = [b \in Browses |-> IF b \in gone THEN {} ELSE lost[b]]
      /\ browse' = [b \in Browses |-> IF b \in gone THEN None ELSE browse[b]]
      /\ told' = [b \in Browses |-> IF b \in gone THEN {} ELSE told[b]]
      /\ queue' = [i \in DOMAIN queue |-> IF Orphaned(queue[i], gone)
                                          THEN [queue[i] EXCEPT !.arg.live = FALSE] ELSE queue[i]]
    BY <1>1 DEF BrowseEnd, Execute
<1>3. queue \in Seq(ActionType)
    BY DEF IInv, TypeOK
<1>4. ASSUME NEW i \in DOMAIN queue, queue'[i].type = "browse_sync", queue'[i].arg.live
      PROVE  queue'[i] = queue[i] /\ queue[i].arg.browse \notin gone
  <2>1. queue'[i] = IF Orphaned(queue[i], gone) THEN [queue[i] EXCEPT !.arg.live = FALSE]
                    ELSE queue[i]
      BY <1>2
  <2>2. ~Orphaned(queue[i], gone)
    <3> SUFFICES ASSUME Orphaned(queue[i], gone) PROVE FALSE
        OBVIOUS
    <3>1. queue[i] \in [type : {"browse_sync"}, arg : NotifyType]
        BY <1>3 DEF Orphaned, ActionType
    <3> DEFINE n == [queue[i].arg EXCEPT !.live = FALSE]
    <3>2. ~n.live
        BY <3>1 DEF NotifyType
    <3>3. queue'[i] = [queue[i] EXCEPT !.arg = n]
        BY <2>1
    <3> HIDE DEF n
    <3>4. queue'[i].arg = n
        BY <3>1, <3>3
    <3> QED
        BY <1>4, <3>2, <3>4
  <2> QED
      BY <1>4, <2>1, <2>2 DEF Orphaned
<1>5. \A i \in DOMAIN queue : ~Orphaned(queue[i], gone) => queue'[i] = queue[i]
    BY <1>2
<1>6. DOMAIN queue' = DOMAIN queue
    BY <1>2
<1>7. Notices' = {a \in Notices : a.arg.browse \notin gone}
  <2>1. Pending' = {queue'[i] : i \in DOMAIN queue}
      BY <1>2, <1>6 DEF Pending, Range
  <2>2. Notices = {a \in {queue[i] : i \in DOMAIN queue} : a.type = "browse_sync" /\ a.arg.live}
      BY <1>2 DEF Notices, Pending, Range
  <2>3. Notices' = {a \in Pending' : a.type = "browse_sync" /\ a.arg.live}
      BY DEF Notices
  <2>4. ASSUME NEW a \in Notices' PROVE a \in Notices /\ a.arg.browse \notin gone
    <3>1. PICK i \in DOMAIN queue : a = queue'[i]
        BY <2>1, <2>3
    <3>2. a.type = "browse_sync" /\ a.arg.live
        BY <2>3
    <3> QED
        BY <1>4, <2>2, <3>1, <3>2
  <2>5. ASSUME NEW a \in Notices, a.arg.browse \notin gone PROVE a \in Notices'
    <3>1. PICK i \in DOMAIN queue : a = queue[i]
        BY <2>2
    <3>2. a.type = "browse_sync" /\ a.arg.live
        BY <2>2
    <3>3. queue'[i] = a
        BY <1>5, <2>5, <3>1 DEF Orphaned
    <3> QED
        BY <2>1, <2>3, <3>2, <3>3
  <2> QED
      BY <2>4, <2>5
<1>8. \A b, i : Noticed(b, i)' <=> Noticed(b, i) /\ b \notin gone
    BY <1>7 DEF Noticed
<1>9. \A b \in Browses : IF b \in gone THEN browse'[b] = None
                         ELSE browse'[b] = browse[b] /\ told'[b] = told[b] /\ lost'[b] = lost[b]
    BY <1>2
<1>10. ChangesTold'
  <2> SUFFICES ASSUME NEW b \in Browses, browse'[b] # None, NEW i
               PROVE  InStep(b, i)' \/ Noticed(b, i)' \/ i \in lost'[b]
      BY DEF ChangesTold
  <2>1. b \notin gone /\ browse[b] # None
      BY <1>9
  <2>2. InStep(b, i) \/ Noticed(b, i) \/ i \in lost[b]
      BY <1>2, <2>1 DEF NoticeInv, ChangesTold
  <2> QED
      BY <1>8, <1>9, <2>1, <2>2 DEF InStep, ToldOf
<1>11. ChangesThere'
  <2> SUFFICES ASSUME ~blocked', NEW b \in Browses, NEW i, Noticed(b, i), b \notin gone
               PROVE  SeenAt(browse'[b].results, i) # {}
      BY <1>8 DEF ChangesThere
  <2> QED
      BY <1>2, <1>9 DEF NoticeInv, ChangesThere
<1>12. told' = [b \in Browses |-> told'[b]]
    BY <1>2
<1> QED
    BY <1>10, <1>11, <1>12 DEF NoticeInv

\* The results a notice is delivered for: they are in the cache, one for each instance.
LEMMA ResultAt ==
    ASSUME NEW results \in Seq(ResultType), OnePerInstance(results), NEW inst,
           SeenAt(results, inst) # {}
    PROVE  LET e == results[BrowseIndex(results, inst)]
           IN  e \in Range(results) /\ e.inst = inst /\ SeenAt(results, inst) = {Seen(e)}
<1> DEFINE k == BrowseIndex(results, inst)
<1>1. \E i \in DOMAIN results : results[i].inst = inst
    BY DEF SeenAt, Range
<1>2. k \in DOMAIN results /\ results[k].inst = inst
    BY <1>1, BrowseIndexIs
<1> HIDE DEF k
<1>3. {f \in Range(results) : f.inst = inst} = {results[k]}
    BY <1>2 DEF OnePerInstance, Range
<1>4. SeenAt(results, inst) = {Seen(results[k])}
    BY <1>3 DEF SeenAt
<1> QED
    BY <1>2, <1>4 DEF Range, k

\* A notice is delivered: what it is about is told as it is in the cache.  If one of its
\* results is over the task stops with the notice in its hands.
LEMMA BrowseSyncKeepsNotices ==
    ASSUME IInv, NoticeInv, BrowseSync
    PROVE  NoticeInv'
<1>0. PICK t, ch : t = running.arg.browse /\ ch = running.arg.changed
    OBVIOUS
<1> DEFINE res == browse[t].results
           changed == [j \in DOMAIN ch |-> res[BrowseIndex(res, ch[j])]]
           bye == SelectInSeq(changed, LAMBDA e : e.ttl = 0)
           sent == IF bye = 0 THEN changed ELSE SubSeq(changed, 1, bye)
           over == {e \in Range(res) : e.inst = changed[bye].inst}
<1>1. /\ running # None /\ running.type = "browse_sync" /\ running.arg.live /\ ~blocked
      /\ UNCHANGED queue
      /\ lost' = [lost EXCEPT ![t] = @ \ {e.inst : e \in Range(sent)}]
      /\ told' = [told EXCEPT ![t] = TellAll(@, sent)]
      /\ browse' = [browse EXCEPT ![t].results = IF bye = 0 THEN @ ELSE Without(@, over)]
      /\ blocked' = (bye # 0)
      /\ running' = IF bye = 0 THEN None ELSE running
    BY <1>0 DEF BrowseSync, Locked
<1>2. running \in Notices
    BY <1>1 DEF Notices, Pending
<1>3. t \in Browses /\ browse[t] # None
  <2>1. t \in Range(blist)
      BY <1>0, <1>2, PendingInLine DEF Notices, IInv, BrowseInv, NoticesLive
  <2> QED
      BY <2>1, BrowseAt
<1>4. res \in Seq(ResultType) /\ OnePerInstance(res) /\ browse[t] \in BrowseType
    BY <1>3, BrowseAt DEF BrowseType
<1>5. PICK n \in Nat : DOMAIN ch = 1 .. n
  <2>1. running.arg \in NotifyType
      BY <1>1 DEF IInv, TypeOK, ActionType
  <2>2. ch \in Seq(Datum)
      BY <1>0, <2>1 DEF NotifyType
  <2> QED
      BY <2>2
<1>6. ASSUME NEW j \in DOMAIN ch
      PROVE  /\ changed[j] \in Range(res) /\ changed[j].inst = ch[j]
             /\ SeenAt(res, ch[j]) = {Seen(changed[j])}
             /\ changed[j] = res[BrowseIndex(res, ch[j])]
  <2>1. Noticed(t, ch[j])
      BY <1>0, <1>2 DEF Noticed, Range
  <2>2. SeenAt(res, ch[j]) # {}
      BY <1>1, <1>3, <2>1 DEF NoticeInv, ChangesThere
  <2>3. changed[j] = res[BrowseIndex(res, ch[j])]
      OBVIOUS
  <2> HIDE DEF changed, res
  <2> QED
      BY <1>4, <2>2, <2>3, ResultAt
<1>7. DOMAIN changed = 1 .. n /\ changed \in Seq(Range(res))
  <2>1. changed = [j \in 1 .. n |-> changed[j]]
      BY <1>5
  <2> HIDE DEF changed
  <2>2. changed \in [1 .. n -> Range(res)]
      BY <1>5, <1>6, <2>1
  <2> QED
      BY <2>1, <2>2
<1>8. /\ bye = 0 => \A j \in 1 .. n : changed[j].ttl # 0
      /\ bye # 0 => bye \in 1 .. n
  <2> DEFINE I == {j \in 1 .. n : changed[j].ttl = 0}
  <2>1. Len(changed) = n
      BY <1>7
  <2>2. bye = IF {j \in 1 .. Len(changed) : changed[j].ttl = 0} # {}
              THEN Min({j \in 1 .. Len(changed) : changed[j].ttl = 0}) ELSE 0
      BY DEF SelectInSeq
  <2> HIDE DEF changed, bye
  <2>3. bye = IF I # {} THEN Min(I) ELSE 0
      BY <2>1, <2>2
  <2>4. I \in SUBSET (1 .. n) /\ (I = {} => \A j \in 1 .. n : changed[j].ttl # 0)
      OBVIOUS
  <2> HIDE DEF I
  <2>5. I # {} => Min(I) \in I
      BY <2>4, MinIn
  <2>6. I # {} => Min(I) \in 1 .. n
      BY <2>4, <2>5
  <2>7. \A k \in 1 .. n : k # 0
      OBVIOUS
  <2> QED
      BY <2>3, <2>4, <2>6, <2>7
<1> HIDE DEF changed, bye, res
<1>9. PICK m \in Nat : /\ DOMAIN sent = 1 .. m /\ m <= n /\ (bye = 0 => m = n)
                       /\ \A j \in 1 .. m : sent[j] = changed[j]
  <2>1. CASE bye = 0
      BY <1>7, <2>1
  <2>2. CASE bye # 0
    <3>1. bye \in 1 .. n /\ Len(changed) = n
        BY <1>7, <1>8, <2>2
    <3>2. /\ DOMAIN SubSeq(changed, 1, bye) = 1 .. bye
          /\ \A j \in 1 .. bye : SubSeq(changed, 1, bye)[j] = changed[j]
        BY <1>7, <3>1
    <3> QED
        BY <2>2, <3>1, <3>2
  <2> QED
      BY <2>1, <2>2
<1> HIDE DEF sent
<1>10. told' = [b \in Browses |-> IF b = t THEN TellAll(told[t], sent) ELSE told[b]]
    BY <1>1, <1>3 DEF NoticeInv
<1>11. \A b \in Browses : b # t => browse'[b] = browse[b]
    BY <1>1 DEF IInv, TypeOK
<1>12. \A i : i \notin Range(ch) => ToldOf(t, i)' = ToldOf(t, i)
  <2> SUFFICES ASSUME NEW i, i \notin Range(ch) PROVE ToldOf(t, i)' = ToldOf(t, i)
      OBVIOUS
  <2>1. \A j \in 1 .. m : sent[j].inst # i
      BY <1>5, <1>6, <1>9 DEF Range
  <2>2. Known(TellAll(told[t], sent), i) = Known(told[t], i)
      BY <1>9, <2>1, ToldAfter
  <2> QED
      BY <1>3, <1>10, <2>2 DEF ToldOf, Known
<1>16. \A b \in Browses : \A i : i \in lost[b] => i \in lost'[b] \/ (b = t /\ i \in Range(ch))
  <2>1. ASSUME NEW e \in Range(sent) PROVE e.inst \in Range(ch)
    <3>1. PICK j \in 1 .. m : e = sent[j]
        BY <1>9 DEF Range
    <3>2. j \in DOMAIN ch /\ e = changed[j]
        BY <1>5, <1>9, <3>1
    <3> QED
        BY <1>6, <3>2 DEF Range
  <2>2. lost \in [Browses -> SUBSET Datum]
      BY DEF IInv, TypeOK
  <2> QED
      BY <1>1, <1>3, <2>1, <2>2
<1>13. \A b, i : Noticed(b, i) => Noticed(b, i)' \/ (b = t /\ i \in Range(ch))
    BY <1>0, <1>1 DEF Noticed, Notices, Pending
<1>14. CASE bye = 0
  <2>1. browse' = browse
      BY <1>1, <1>3, <1>4, <1>14 DEF BrowseType, IInv, TypeOK, res
  <2>2. ASSUME NEW i \in Range(ch) PROVE InStep(t, i)'
    <3>1. PICK j \in 1 .. n : i = ch[j]
        BY <1>5 DEF Range
    <3>2. SeenAt(res, i) = {Seen(changed[j])} /\ changed[j].ttl # 0
        BY <1>5, <1>6, <1>8, <1>14, <3>1
    <3> DEFINE e == changed[j]
    <3>3. \A k \in 1 .. m : sent[k].inst = i => sent[k] = e
        BY <1>5, <1>6, <1>9, <3>1
    <3>4. e.ttl # 0 /\ \E k \in 1 .. m : sent[k].inst = i
        BY <1>5, <1>6, <1>9, <1>14, <3>1, <3>2
    <3> HIDE DEF e
    <3>6. Known(TellAll(told[t], sent), i) = {Seen(e)}
        BY <1>9, <3>3, <3>4, ToldAfter
    <3>5. {k \in TellAll(told[t], sent) : k.inst = i} = {Seen(changed[j])}
        BY <3>6 DEF e, Known
    <3> QED
        BY <1>3, <1>10, <2>1, <3>2, <3>5 DEF InStep, ToldOf, res
  <2>3. ChangesTold'
    <3> SUFFICES ASSUME NEW b \in Browses, browse'[b] # None, NEW i
                 PROVE  InStep(b, i)' \/ Noticed(b, i)' \/ i \in lost'[b]
        BY DEF ChangesTold
    <3>1. InStep(b, i) \/ Noticed(b, i) \/ i \in lost[b]
        BY <1>1, <2>1 DEF NoticeInv, ChangesTold
    <3>2. CASE b = t /\ i \in Range(ch)
        BY <2>2, <3>2
    <3>3. CASE ~(b = t /\ i \in Range(ch))
      <4>1. ToldOf(b, i)' = ToldOf(b, i)
          BY <1>10, <1>12, <3>3 DEF ToldOf
      <4> QED
          BY <1>13, <1>16, <2>1, <3>1, <3>3, <4>1 DEF InStep
    <3> QED
        BY <3>2, <3>3
  <2>4. ChangesThere'
    <3>1. \A b, i : Noticed(b, i)' => Noticed(b, i)
        BY <1>1, <1>14 DEF Noticed, Notices, Pending
    <3> QED
        BY <1>1, <2>1, <3>1 DEF NoticeInv, ChangesThere
  <2> QED
      BY <1>10, <2>3, <2>4 DEF NoticeInv
<1>15. CASE bye # 0
  <2> DEFINE w == Without(res, over)
  <2>1. \A i : i \notin Range(ch) => SeenAt(browse'[t].results, i) = SeenAt(res, i)
    <3>1. Range(w) = {e \in Range(res) : e \notin over}
        BY <1>4, WithoutIs
    <3>2. changed[bye].inst \in Range(ch)
        BY <1>5, <1>6, <1>8, <1>15 DEF Range
    <3>3. browse'[t].results = w
        BY <1>1, <1>3, <1>4, <1>15 DEF BrowseType, IInv, TypeOK, res
    <3> QED
        BY <3>1, <3>2, <3>3 DEF SeenAt
  <2>2. Notices' = Notices
      BY <1>1, <1>15 DEF Notices, Pending
  <2>3. ChangesTold'
    <3> SUFFICES ASSUME NEW b \in Browses, browse'[b] # None, NEW i
                 PROVE  InStep(b, i)' \/ Noticed(b, i)' \/ i \in lost'[b]
        BY DEF ChangesTold
    <3>1. CASE b = t /\ i \in Range(ch)
        BY <1>0, <1>2, <2>2, <3>1 DEF Noticed
    <3>2. CASE b = t /\ i \notin Range(ch)
      <4>1. InStep(t, i) \/ Noticed(t, i) \/ i \in lost[t]
          BY <1>1, <1>3 DEF NoticeInv, ChangesTold
      <4> QED
          BY <1>3, <1>12, <1>16, <2>1, <2>2, <3>2, <4>1 DEF InStep, Noticed, res
    <3>3. CASE b # t
      <4>1. InStep(b, i) \/ Noticed(b, i) \/ i \in lost[b]
          BY <1>1, <1>11, <3>3 DEF NoticeInv, ChangesTold
      <4> QED
          BY <1>10, <1>11, <1>16, <2>2, <3>3, <4>1 DEF InStep, ToldOf, Noticed
    <3> QED
        BY <3>1, <3>2, <3>3
  <2>4. ChangesThere'
      BY <1>1, <1>15 DEF ChangesThere
  <2> QED
      BY <1>10, <2>3, <2>4 DEF NoticeInv
<1> QED
    BY <1>14, <1>15

\* What a packet changes in the cache is noted and, unless the queue is full, posted.
LEMMA ReceiveKeepsNotices ==
    ASSUME IInv, NoticeInv, Receive
    PROVE  NoticeInv'
<1>1. PICK p, x : p = running.arg /\ x = ParsePacket(p)
    OBVIOUS
<1>2. /\ running # None /\ running.type = "rx" /\ running' = None /\ ~blocked
      /\ UNCHANGED <<blocked, told>> /\ browse' = x.browse
      /\ queue' = IF SyncAction(x) = <<>> \/ x.cut THEN queue ELSE Push(queue, SyncAction(x)[1])
      /\ lost' = IF SyncAction(x) = <<>> \/ ~(x.cut \/ Full) THEN lost
                 ELSE [lost EXCEPT ![x.sync.browse] = @ \cup Range(x.sync.changed)]
    BY <1>1 DEF Receive, Execute, Locked
<1>3. p \in Packets
    BY <1>1, <1>2, AtHead DEF ActionType
<1>4. x \in Browsing
    BY <1>1, <1>3, IInvReady, ParsePacketIs
<1>5. \A b \in Browses : browse[b] # None => browse'[b] # None /\ ChangesNoted(x, b)
    BY <1>2, <1>4 DEF Browsing, BrowsesKept
<1>6. \A b \in Browses : browse'[b] # None => browse[b] # None
    BY <1>2, <1>4 DEF Browsing, BrowsesKept
<1> DEFINE a == SyncAction(x)[1]
<1>7. SyncAction(x) # <<>> => /\ a \in ActionType /\ a.type = "browse_sync" /\ a.arg.live
                              /\ \A b, i : a.arg.browse = b /\ i \in Range(a.arg.changed)
                                             <=> NotedIn(x, b, i)
    BY <1>4, IInvReady, SyncActionIs
<1>8. \A b, i : NotedIn(x, b, i) => SyncAction(x) # <<>>
    BY DEF NotedIn, Syncs, SyncAction, Range
<1> HIDE DEF a
<1>9. Range(queue') = Range(queue) \cup (IF SyncAction(x) = <<>> \/ x.cut \/ Full THEN {} ELSE {a})
    BY <1>2, <1>7, PendingPushed DEF IInv, a
<1>10. Notices' = Notices \cup (IF SyncAction(x) = <<>> \/ x.cut \/ Full THEN {} ELSE {a})
    BY <1>2, <1>7, <1>9 DEF Notices, Pending
<1>11. ChangesTold'
  <2> SUFFICES ASSUME NEW b \in Browses, browse'[b] # None, NEW i
               PROVE  InStep(b, i)' \/ Noticed(b, i)' \/ i \in lost'[b]
      BY DEF ChangesTold
  <2>1. /\ i \in lost[b] => i \in lost'[b]
        /\ NotedIn(x, b, i) /\ (x.cut \/ Full) => i \in lost'[b]
    <3>1. lost \in [Browses -> SUBSET Datum]
        BY DEF IInv, TypeOK
    <3> QED
        BY <1>2, <1>8, <3>1 DEF NotedIn, Syncs
  <2>2. InStep(b, i) \/ Noticed(b, i) \/ i \in lost[b]
      BY <1>6 DEF NoticeInv, ChangesTold
  <2>5. CASE NotedIn(x, b, i) /\ (x.cut \/ Full)
      BY <2>1, <2>5
  <2>3. CASE NotedIn(x, b, i) /\ ~(x.cut \/ Full)
    <3>1. a \in Notices'
        BY <1>8, <1>10, <2>3
    <3> QED
        BY <1>7, <1>8, <2>3, <3>1 DEF Noticed
  <2>4. CASE ~NotedIn(x, b, i)
    <3>1. SeenAt(browse'[b].results, i) = SeenAt(browse[b].results, i)
        BY <1>2, <1>5, <1>6, <2>4 DEF ChangesNoted
    <3>2. Noticed(b, i) => Noticed(b, i)'
        BY <1>10 DEF Noticed
    <3> QED
        BY <1>2, <2>1, <2>2, <3>1, <3>2 DEF InStep, ToldOf
  <2> QED
      BY <2>3, <2>4, <2>5
<1>12. ChangesThere'
  <2> SUFFICES ASSUME NEW b \in Browses, NEW i, Noticed(b, i)'
               PROVE  SeenAt(browse'[b].results, i) # {}
      BY DEF ChangesThere
  <2>1. Noticed(b, i) \/ NotedIn(x, b, i)
      BY <1>7, <1>10 DEF Noticed
  <2>2. browse[b] # None
    <3>1. NotedIn(x, b, i) => b \in Range(blist)
        BY <1>4 DEF NotedIn, Syncs, Browsing, Pointers
    <3> QED
        BY <2>1, <3>1, NoticedListed, BrowseAt
  <2>3. Noticed(b, i) => SeenAt(browse[b].results, i) # {}
      BY <1>2 DEF NoticeInv, ChangesThere
  <2> QED
      BY <1>2, <1>5, <2>1, <2>2, <2>3 DEF ChangesNoted
<1> QED
    BY <1>2, <1>11, <1>12 DEF NoticeInv

\* At the start nothing is known and there is nothing to know.
LEMMA NoticesStart == ASSUME Init PROVE NoticeInv
<1>1. Notices = {}
    BY DEF Init, Notices, Pending, Range
<1>2. told = [b \in Browses |-> told[b]] /\ \A b \in Browses : browse[b] = None
    BY DEF Init
<1> QED
    BY <1>1, <1>2 DEF NoticeInv, ChangesTold, ChangesThere, Noticed

\* Every step keeps the application in step, but for what the notices are about.
LEMMA StepKeepsNotices == ASSUME IInv, NoticeInv, [Next]_vars PROVE NoticeInv'
<1>1. CASE \E b \in Browses : BrowseNew(b)
    BY <1>1, BrowseNewKeepsNotices
<1>2. CASE BrowseAdd \/ BrowseEnd \/ BrowseSync \/ Receive
    BY <1>2, BrowseAddKeepsNotices, BrowseEndKeepsNotices, BrowseSyncKeepsNotices,
       ReceiveKeepsNotices
<1>3. CASE UNCHANGED vars
  <2>1. UNCHANGED <<browse, told, lost, blocked, queue, running>>
      BY <1>3 DEF vars
  <2> QED
      BY <2>1, InputsKeepNotices
<1>4. CASE \/ \E s \in Searches : Query(s) \/ QueryReturns(s) \/ GetResults(s) \/ AsyncDelete(s)
           \/ BrowseDelete \/ Clock \/ Timer \/ PacketComes
           \/ Take \/ SearchAdd \/ SearchSent \/ SearchEnded \/ BrowseSyncOrphaned
    BY <1>4, OthersKeepNotices
<1> QED
    BY <1>1, <1>2, <1>3, <1>4 DEF Next, Application, Task

\* When nothing is pending no notice is on its way.
LEMMA BrowseInStepFollows == ASSUME IInv, NoticeInv PROVE BrowseInStep
<1> DEFINE known(b) == {k \in told[b] : k.inst \notin lost[b]}
           there(b) == {f \in Range(browse[b].results) : f.inst \notin lost[b]}
<1> SUFFICES ASSUME AtRest, NEW b \in Range(blist)
             PROVE  known(b) = {Seen(e) : e \in there(b)}
    BY DEF BrowseInStep
<1>1. \A i : ~Noticed(b, i)
    BY DEF AtRest, Noticed, Notices, Pending, Range
<1>2. \A i : i \notin lost[b] => {t \in told[b] : t.inst = i} = SeenAt(browse[b].results, i)
    BY <1>1, BrowseAt DEF NoticeInv, ChangesTold, InStep, ToldOf
<1>4. ASSUME NEW t \in known(b) PROVE t \in {Seen(e) : e \in there(b)}
  <2>1. t \in SeenAt(browse[b].results, t.inst)
      BY <1>2
  <2>2. PICK e \in Range(browse[b].results) : e.inst = t.inst /\ t = Seen(e)
      BY <2>1 DEF SeenAt
  <2> QED
      BY <2>2
<1>5. ASSUME NEW e \in there(b) PROVE Seen(e) \in known(b)
  <2>1. Seen(e) \in SeenAt(browse[b].results, e.inst) /\ Seen(e).inst = e.inst
      BY DEF SeenAt, Seen
  <2> QED
      BY <1>2, <2>1
<1> QED
    BY <1>4, <1>5

\* A search in the list, one the timer has still to look at and one a search_add leads to
\* is there, whoever frees searches meanwhile; it is in the list once and gets no more
\* results than it was asked for (mdns_querier.c, search_add, search_finish and the timer).
THEOREM SearchInvHolds == Spec => []SearchInv
BY IInvHolds, SearchInvFollows, PTL

\* No search is finished by an action meant for an earlier one at its address, for the
\* line is first in, first out (mdns_querier.c, ACTION_SEARCH_END).
THEOREM EndsRightlyHolds == Spec => []EndsRightly
<1>1. IInv => EndsRightly
    BY DEF IInv
<1> QED
    BY <1>1, IInvHolds, PTL

\* Every address in a result of a PTR or SRV search was announced for the host of that
\* result; one of a search for addresses for that host, for the name it asks for or for
\* a host of our own (mdns_receive.c, the A and AAAA cases, whose search may be the one of
\* the record before, and mdns_priv_query_result_add_ip).
THEOREM AddressesBelongHolds == Spec => []AddressesBelong
BY IInvHolds, AddressesFollow, PTL

\* When nothing is left to do the application knows of every instance in the cache of a
\* browse as it is, but for one whose last change went with its notice: whatever a packet
\* changes in a cache is posted, unless the packet is cut or the queue full, and what is
\* posted is told (mdns_browser.c, add_browse_result and browse_sync; mdns_receive.c,
\* clear_rx_packet).
THEOREM BrowseInStepHolds == Spec => []BrowseInStep
<1>1. Init => NoticeInv
    BY NoticesStart
<1>2. IInv /\ NoticeInv /\ [Next]_vars => NoticeInv'
    BY StepKeepsNotices
<1>3. IInv /\ NoticeInv => BrowseInStep
    BY BrowseInStepFollows
<1> QED
    BY <1>1, <1>2, <1>3, IInvHolds, PTL DEF Spec
=============================================================================
