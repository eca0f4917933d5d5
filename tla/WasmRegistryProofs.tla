-------------------------- MODULE WasmRegistryProofs --------------------------
(***************************************************************************)
(* Theorems about WasmRegistry for any promises, URLs and calls (lists of    *)
(* any length, with any repetitions), and every capacity of the registry.    *)
(***************************************************************************)
EXTENDS WasmRegistry, FiniteSetTheorems, TLAPS

\* The registry: RegistryCurrent, and what counting its entries needs.
RegistrySound ==
  /\ DOMAIN readers = Urls
  /\ IsFiniteSet({u \in Urls : readers[u] # None})
  /\ opened \in Nat /\ configures \in Nat /\ cache \in Nat \cup {None}
  /\ RegistryCurrent

\* A future of open_cached for URL u.
OpenSound(u, f) ==
  \/ f = Waiting
  \/ f = Err(<<"open", u>>)
  \/ f = Ok(f.ok) /\ f.ok # None /\ f.ok.url = u

OpensSound(c, os) ==
  DOMAIN os = ToSet(c.urls) /\ \A u \in DOMAIN os : OpenSound(u, os[u])

\* A future of zonal_on for position i: it reads the reader of its URL.
ReadSound(c, os, i, f) ==
  f = Waiting \/ f = Err(<<"read", i>>) \/ f = Ok(ReaderAt(c.urls, os, i))

ReadsSound(c, os, rs) ==
  DOMAIN rs = DOMAIN c.urls /\ \A i \in DOMAIN rs : ReadSound(c, os, i, rs[i])

Opened(os) == \A u \in DOMAIN os : os[u].at = "done" /\ ~IsErr(os[u])

\* The first position of u in us.
Place(us, u) == CHOOSE i \in DOMAIN us : us[i] = u /\ \A j \in 1..(i - 1) : us[j] # u

\* What BatchExact says of a promise that resolved or rejected.
Resolved(c, os, rs, res) ==
  /\ c.reads =>
       /\ Len(res) = Len(c.urls)
       /\ \A i \in DOMAIN c.urls : res[i] # None /\ res[i].url = c.urls[i]
       /\ \A i, j \in DOMAIN c.urls : c.urls[i] = c.urls[j] => res[i] = res[j]
  /\ \A fs \in {os, rs} : \A k \in DOMAIN fs : ~IsErr(fs[k])

Rejected(c, os, rs, res) ==
  LET failed == {u \in DOMAIN os : IsErr(os[u])} IN
    \/ \E u \in failed : /\ res = <<"open", u>>
                         /\ \A v \in failed : Place(c.urls, u) <= Place(c.urls, v)
    \/ /\ failed = {}
       /\ \E i \in DOMAIN rs : /\ res = <<"read", i>> /\ IsErr(rs[i])
                               /\ \A j \in 1..(i - 1) : ~IsErr(rs[j])

\* A promise in state s with call c, opens os, reads rs and result res.
Sound(s, c, os, rs, res) ==
  /\ s \in {"idle", "open", "read", "ok", "err"}
  /\ DOMAIN os \subseteq Urls
  /\ s # "idle" => c \in Calls
  /\ s \in {"open", "read", "ok"} => c.parses
  /\ s # "idle" /\ c.parses => OpensSound(c, os)
  /\ s \in {"read", "ok"} => Opened(os)
  /\ s = "read" => c.reads /\ ReadsSound(c, os, rs)
  /\ s = "ok" => Resolved(c, os, rs, res)
  /\ s = "err" /\ c.parses => Rejected(c, os, rs, res)

PromiseSound(p) == Sound(pc[p], call[p], opens[p], reads[p], result[p])

\* The variables of a promise are functions of the promises.
Domains ==
  /\ DOMAIN pc = Promises /\ DOMAIN call = Promises /\ DOMAIN opens = Promises
  /\ DOMAIN reads = Promises /\ DOMAIN result = Promises

PromisesSound ==
  Domains /\ \A p \in Promises : PromiseSound(p)

-----------------------------------------------------------------------------
\* A set of numbers has a least one.
LEMMA LeastExists ==
  ASSUME NEW T, T \subseteq Nat, T # {}
  PROVE  \E m \in T : \A n \in T : m <= n
<1>1. PICK m \in T : \A n \in T : ~(<<n, m>> \in OpToRel(<, Nat))
  BY NatLessThanWellFounded, WFMin, Zenon
<1>2. \A n \in T : ~(n < m)
  BY <1>1 DEF OpToRel
<1>3. QED
  BY <1>2

\* The futures: outcomes are told apart.
LEMMA Futures ==
  /\ ~IsErr(Waiting) /\ Waiting.at # "done"
  /\ \A v : ~IsErr(Ok(v)) /\ Ok(v).ok = v /\ Ok(v).at = "done" /\ Ok(v) # Waiting
  /\ \A e : IsErr(Err(e)) /\ Err(e).err = e /\ Err(e).at = "done" /\ Err(e) # Waiting
BY DEF IsErr, Waiting, Ok, Err

\* Every URL of a list has a first place.
LEMMA PlaceProps ==
  ASSUME NEW us \in Seq(Urls), NEW u \in ToSet(us)
  PROVE  /\ Place(us, u) \in 1..Len(us)
         /\ us[Place(us, u)] = u
         /\ \A j \in 1..(Place(us, u) - 1) : us[j] # u
<1> DEFINE T == {i \in 1..Len(us) : us[i] = u}
<1>1. T \subseteq Nat /\ T # {}
  BY DEF ToSet
<1>2. PICK i \in T : \A j \in T : i <= j
  BY <1>1, LeastExists
<1>3. \A j \in 1..(i - 1) : us[j] # u
  <2> SUFFICES ASSUME NEW j \in 1..(i - 1), us[j] = u PROVE FALSE
    OBVIOUS
  <2>1. i \in 1..Len(us) /\ Len(us) \in Nat
    OBVIOUS
  <2>2. j \in T /\ ~(i <= j)
    BY <2>1
  <2>3. QED
    BY <1>2, <2>2
<1>4. i \in DOMAIN us /\ us[i] = u
  OBVIOUS
<1>5. DOMAIN us = 1..Len(us)
  OBVIOUS
<1>6. QED
  BY <1>3, <1>4, <1>5 DEF Place

\* The first places of a list's URLs, and how many come before one of them.
First(us) == {i \in DOMAIN us : \A j \in 1..(i - 1) : us[j] # us[i]}
Rank(us, i) == Cardinality({j \in First(us) : j < i})
Nth(us, k) == CHOOSE i \in First(us) : Rank(us, i) = k - 1

\* First places are counted in order.
LEMMA RankProps ==
  ASSUME NEW us \in Seq(Urls)
  PROVE  /\ First(us) \subseteq Nat
         /\ IsFiniteSet(First(us)) /\ Cardinality(First(us)) \in Nat
         /\ \A i \in First(us) : Rank(us, i) \in 0..(Cardinality(First(us)) - 1)
         /\ \A i, j \in First(us) : i < j => Rank(us, i) < Rank(us, j)
<1> DEFINE F == First(us)
           below(i) == {j \in F : j < i}
<1>1. F \subseteq 1..Len(us) /\ Len(us) \in Nat
  BY DEF First
<1>2. IsFiniteSet(1..Len(us))
  BY <1>1, FS_Interval
<1>3. IsFiniteSet(F) /\ Cardinality(F) \in Nat /\ F \subseteq Nat
  BY <1>1, <1>2, FS_Subset, FS_CardinalityType
<1> HIDE DEF F
<1>4. \A i \in F : IsFiniteSet(below(i)) /\ Cardinality(below(i)) \in Nat
  BY <1>3, FS_Subset, FS_CardinalityType
<1>5. ASSUME NEW i \in F, NEW T, IsFiniteSet(T), below(i) \cup {i} \subseteq T
      PROVE  Cardinality(below(i)) + 1 <= Cardinality(T)
  <2>1. i \notin below(i)
    BY <1>3
  <2>2. /\ IsFiniteSet(below(i) \cup {i})
        /\ Cardinality(below(i) \cup {i}) = Cardinality(below(i)) + 1
    BY <1>4, <2>1, FS_AddElement
  <2>3. below(i) \cup {i} \in SUBSET T
    BY <1>5
  <2>4. Cardinality(below(i) \cup {i}) <= Cardinality(T)
    BY <1>5, <2>3, FS_Subset
  <2>5. QED
    BY <2>2, <2>4, Zenon
<1>6. \A i \in F : Cardinality(below(i)) + 1 <= Cardinality(F)
  BY <1>3, <1>5
<1>7. \A i, j \in F : i < j => Cardinality(below(i)) + 1 <= Cardinality(below(j))
  <2> SUFFICES ASSUME NEW i \in F, NEW j \in F, i < j
               PROVE  Cardinality(below(i)) + 1 <= Cardinality(below(j))
    OBVIOUS
  <2>1. below(i) \cup {i} \subseteq below(j)
    <3>1. \A x \in F : x \in Nat
      BY <1>3
    <3>2. \A x \in F : x < i => x < j
      BY <3>1
    <3>3. QED
      BY <3>2
  <2>2. QED
    BY <1>4, <1>5, <2>1
<1>8. \A i : Rank(us, i) = Cardinality(below(i))
  BY DEF Rank, F
<1> HIDE DEF below
<1>9. \A i \in F : Rank(us, i) \in 0..(Cardinality(F) - 1)
  BY <1>3, <1>4, <1>6, <1>8
<1>10. \A i, j \in F : i < j => Rank(us, i) < Rank(us, j)
  <2> SUFFICES ASSUME NEW i \in F, NEW j \in F, i < j
               PROVE  Rank(us, i) < Rank(us, j)
    OBVIOUS
  <2>1. Cardinality(below(i)) + 1 <= Cardinality(below(j))
    BY <1>7
  <2>2. QED
    BY <1>4, <1>8, <2>1
<1>11. QED
  BY <1>3, <1>9, <1>10 DEF F

\* There is a first place of every rank.
LEMMA NthProps ==
  ASSUME NEW us \in Seq(Urls), NEW k \in 1..Cardinality(First(us))
  PROVE  Nth(us, k) \in First(us) /\ Rank(us, Nth(us, k)) = k - 1
<1> DEFINE F == First(us)
           C == Cardinality(F)
           f == [i \in F |-> Rank(us, i) + 1]
<1>1. /\ F \subseteq Nat /\ IsFiniteSet(F) /\ C \in Nat
      /\ \A i \in F : Rank(us, i) \in 0..(C - 1)
      /\ \A i, j \in F : i < j => Rank(us, i) < Rank(us, j)
  BY RankProps
<1>2. f \in [F -> 1..C]
  BY <1>1
<1>3. \A i, j \in F : f[i] = f[j] => i = j
  <2> SUFFICES ASSUME NEW i \in F, NEW j \in F, f[i] = f[j] PROVE i = j
    OBVIOUS
  <2>1. Rank(us, i) = Rank(us, j) /\ Rank(us, i) \in Int
    BY <1>1
  <2>2. ~(i < j) /\ ~(j < i) /\ i \in Nat /\ j \in Nat
    BY <1>1, <2>1
  <2>3. QED
    BY <2>2
<1> HIDE DEF F, C, f
<1>4. f \in Injection(F, 1..C)
  BY <1>2, <1>3 DEF Injection, IsInjective
<1>5. IsFiniteSet(1..C) /\ Cardinality(1..C) = C
  BY <1>1, FS_Interval
<1>6. f \in Surjection(F, 1..C)
  BY <1>4, <1>5, FS_Injection DEF C
<1>7. \E i \in F : f[i] = k
  BY <1>6 DEF Surjection, C, F
<1>8. \E i \in F : Rank(us, i) = k - 1
  BY <1>1, <1>7 DEF f
<1>9. QED
  BY <1>8 DEF Nth, F

\* The distinct URLs: each URL of the list is one of them, and they are in
\* the order of their first places.
LEMMA UniqProps ==
  ASSUME NEW us \in Seq(Urls)
  PROVE  /\ DOMAIN Uniq(us) \subseteq Nat
         /\ \A k \in DOMAIN Uniq(us) : Uniq(us)[k] \in ToSet(us)
         /\ \A u \in ToSet(us) : \E k \in DOMAIN Uniq(us) : Uniq(us)[k] = u
         /\ \A k, l \in DOMAIN Uniq(us) :
              k <= l => Place(us, Uniq(us)[k]) <= Place(us, Uniq(us)[l])
<1> DEFINE C == Cardinality(First(us))
<1>1. /\ First(us) \subseteq Nat /\ C \in Nat
      /\ \A i \in First(us) : Rank(us, i) \in 0..(C - 1)
      /\ \A i, j \in First(us) : i < j => Rank(us, i) < Rank(us, j)
  BY RankProps
<1>2. Uniq(us) = [k \in 1..C |-> us[Nth(us, k)]]
  BY DEF Uniq, First, Rank, Nth
<1>3. \A k \in 1..C : Nth(us, k) \in First(us) /\ Rank(us, Nth(us, k)) = k - 1
  BY NthProps
<1> HIDE DEF C
<1>4. \A i \in First(us) : i \in DOMAIN us /\ us[i] \in ToSet(us) /\ Place(us, us[i]) = i
  <2> TAKE i \in First(us)
  <2>1. i \in 1..Len(us) /\ DOMAIN us = 1..Len(us) /\ Len(us) \in Nat
        /\ \A j \in 1..(i - 1) : us[j] # us[i]
    BY DEF First
  <2>2. us[i] \in ToSet(us)
    BY <2>1 DEF ToSet
  <2>3. PICK q \in 1..Len(us) :
          q = Place(us, us[i]) /\ us[q] = us[i] /\ \A j \in 1..(q - 1) : us[j] # us[i]
    BY <2>2, PlaceProps
  <2>4. ~(i < q) /\ ~(q < i)
    BY <2>1, <2>3
  <2>5. QED
    BY <2>1, <2>2, <2>3, <2>4
<1>5. \A u \in ToSet(us) : Place(us, u) \in First(us) /\ us[Place(us, u)] = u
  BY PlaceProps DEF First
<1>6. \A k \in 1..C : Uniq(us)[k] \in ToSet(us) /\ Place(us, Uniq(us)[k]) = Nth(us, k)
  BY <1>2, <1>3, <1>4
<1>7. ASSUME NEW u \in ToSet(us) PROVE \E k \in 1..C : Uniq(us)[k] = u
  <2> DEFINE q == Place(us, u)
             k == Rank(us, q) + 1
  <2>1. q \in First(us) /\ us[q] = u
    BY <1>5, <1>7
  <2> HIDE DEF q
  <2>2. k \in 1..C /\ k - 1 = Rank(us, q)
    BY <1>1, <2>1
  <2> HIDE DEF k
  <2>3. Nth(us, k) \in First(us) /\ Rank(us, Nth(us, k)) = Rank(us, q)
    BY <1>3, <2>2
  <2>4. ~(Nth(us, k) < q) /\ ~(q < Nth(us, k))
    <3>1. Rank(us, q) \in Int
      BY <1>1, <2>1
    <3>2. QED
      BY <1>1, <2>1, <2>3, <3>1
  <2>5. Nth(us, k) = q
    BY <1>1, <2>1, <2>3, <2>4
  <2>6. QED
    BY <1>2, <2>1, <2>2, <2>5
<1>8. ASSUME NEW k \in 1..C, NEW l \in 1..C, k <= l
      PROVE  Nth(us, k) <= Nth(us, l)
  <2>1. ~(Nth(us, l) < Nth(us, k))
    BY <1>1, <1>3, <1>8
  <2>2. QED
    BY <1>1, <1>3, <2>1
<1>9. DOMAIN Uniq(us) = 1..C /\ 1..C \subseteq Nat
  BY <1>1, <1>2
<1>10. QED
  BY <1>6, <1>7, <1>8, <1>9

-----------------------------------------------------------------------------
\* A future of open_cached that failed carries its URL.
LEMMA OpenOutcomes ==
  ASSUME NEW u, NEW f, OpenSound(u, f)
  PROVE  /\ IsErr(f) => f = Err(<<"open", u>>) /\ f.err = <<"open", u>>
         /\ f.at = "done" /\ ~IsErr(f) => f = Ok(f.ok) /\ f.ok # None /\ f.ok.url = u
<1>1. CASE f = Waiting
  BY <1>1, Futures
<1>2. CASE f = Err(<<"open", u>>)
  BY <1>2, Futures
<1>3. CASE f = Ok(f.ok) /\ f.ok # None /\ f.ok.url = u
  BY <1>3, Futures
<1>4. QED
  BY <1>1, <1>2, <1>3 DEF OpenSound

\* The distinct URLs whose open failed, by their number, and the first.
BadOpens(c, os) == {k \in DOMAIN Uniq(c.urls) : IsErr(os[Uniq(c.urls)[k]])}
FirstBad(c, os) ==
  Uniq(c.urls)[CHOOSE k \in BadOpens(c, os) : \A j \in BadOpens(c, os) : k <= j]

\* When some open of a list failed, the error that rejects the promise is
\* the one of the URL whose first place is lowest.
LEMMA FirstOpenError ==
  ASSUME NEW c \in Calls, NEW os, OpensSound(c, os)
  PROVE  /\ BadOpens(c, os) = {} => \A u \in DOMAIN os : ~IsErr(os[u])
         /\ BadOpens(c, os) # {} =>
              /\ FirstBad(c, os) \in DOMAIN os /\ IsErr(os[FirstBad(c, os)])
              /\ os[FirstBad(c, os)].err = <<"open", FirstBad(c, os)>>
              /\ \A v \in DOMAIN os :
                   IsErr(os[v]) => Place(c.urls, FirstBad(c, os)) <= Place(c.urls, v)
<1> DEFINE us == c.urls
           uniq == Uniq(us)
           bad == BadOpens(c, os)
           first == CHOOSE k \in bad : \A j \in bad : k <= j
<1>1. us \in Seq(Urls)
  BY RegistryAssumption
<1>2. /\ DOMAIN uniq \subseteq Nat
      /\ \A k \in DOMAIN uniq : uniq[k] \in ToSet(us)
      /\ \A u \in ToSet(us) : \E k \in DOMAIN uniq : uniq[k] = u
      /\ \A k, l \in DOMAIN uniq : k <= l => Place(us, uniq[k]) <= Place(us, uniq[l])
  BY <1>1, UniqProps
<1>3. /\ DOMAIN os = ToSet(us)
      /\ \A u \in DOMAIN os : OpenSound(u, os[u])
  BY DEF OpensSound
<1>4. bad = {k \in DOMAIN uniq : IsErr(os[uniq[k]])}
  BY DEF BadOpens
<1> HIDE DEF uniq, us, bad
<1>5. bad = {} => \A u \in DOMAIN os : ~IsErr(os[u])
  BY <1>2, <1>3, <1>4
<1>6. ASSUME bad # {}
      PROVE  LET u == uniq[first] IN
               /\ u \in DOMAIN os /\ IsErr(os[u]) /\ os[u].err = <<"open", u>>
               /\ \A v \in DOMAIN os : IsErr(os[v]) => Place(us, u) <= Place(us, v)
  <2>1. bad \subseteq Nat
    BY <1>2, <1>4
  <2>2. \E k \in bad : \A j \in bad : k <= j
    BY <1>6, <2>1, LeastExists
  <2>3. first \in bad /\ \A j \in bad : first <= j
    BY <2>2
  <2> HIDE DEF first
  <2>4. uniq[first] \in DOMAIN os /\ IsErr(os[uniq[first]]) /\ first \in DOMAIN uniq
    BY <1>2, <1>3, <1>4, <2>3
  <2>5. os[uniq[first]].err = <<"open", uniq[first]>>
    BY <1>3, <2>4, OpenOutcomes
  <2>6. ASSUME NEW v \in DOMAIN os, IsErr(os[v])
        PROVE  Place(us, uniq[first]) <= Place(us, v)
    <3>1. PICK l \in DOMAIN uniq : uniq[l] = v
      BY <1>2, <1>3
    <3>2. l \in bad
      BY <1>4, <2>6, <3>1
    <3>3. QED
      BY <1>2, <2>3, <2>4, <3>1, <3>2
  <2>7. QED
    BY <2>4, <2>5, <2>6
<1>7. FirstBad(c, os) = uniq[first]
  BY DEF FirstBad, uniq, us, bad
<1>8. QED
  BY <1>5, <1>6, <1>7 DEF us, bad

\* What an open_cached outcome leads to: more waiting, the first error, the
\* reads, or at once the end.
LEMMA AfterOpensSound ==
  ASSUME Domains, NEW p \in Promises, NEW c \in Calls, c.parses,
         NEW os, OpensSound(c, os), AfterOpens(p, c, os)
  PROVE  /\ Sound(pc'[p], c, os, reads'[p], result'[p])
         /\ DOMAIN pc' = Promises /\ DOMAIN reads' = Promises /\ DOMAIN result' = Promises
         /\ \A q \in Promises \ {p} :
              pc'[q] = pc[q] /\ reads'[q] = reads[q] /\ result'[q] = result[q]
<1> DEFINE n == IF c.reads THEN Len(c.urls) ELSE 0
<1>1. c.urls \in Seq(Urls) /\ c.reads \in BOOLEAN
  BY RegistryAssumption
<1>2. DOMAIN os \subseteq Urls /\ DOMAIN c.urls = 1..Len(c.urls) /\ Len(c.urls) \in Nat
  BY <1>1 DEF OpensSound, ToSet
<1>3. \/ /\ pc' = [pc EXCEPT ![p] = "open"]
         /\ UNCHANGED <<reads, result>>
      \/ /\ BadOpens(c, os) # {}
         /\ pc' = [pc EXCEPT ![p] = "err"]
         /\ result' = [result EXCEPT ![p] = os[FirstBad(c, os)].err]
         /\ UNCHANGED reads
      \/ /\ JoinAll(os) /\ BadOpens(c, os) = {}
         /\ pc' = [pc EXCEPT ![p] = IF n = 0 THEN "ok" ELSE "read"]
         /\ reads' = [reads EXCEPT ![p] = [i \in 1..n |-> Waiting]]
         /\ result' = [result EXCEPT ![p] = IF n = 0 THEN <<>> ELSE None]
  BY DEF AfterOpens, BadOpens, FirstBad
<1>4. CASE /\ pc' = [pc EXCEPT ![p] = "open"]
           /\ UNCHANGED <<reads, result>>
  BY <1>2, <1>4 DEF Sound, Domains
<1>5. CASE /\ BadOpens(c, os) # {}
           /\ pc' = [pc EXCEPT ![p] = "err"]
           /\ result' = [result EXCEPT ![p] = os[FirstBad(c, os)].err]
           /\ UNCHANGED reads
  <2>1. pc'[p] = "err" /\ result'[p] = os[FirstBad(c, os)].err
    BY <1>5 DEF Domains
  <2>2. Rejected(c, os, reads'[p], result'[p])
    BY <1>5, <2>1, FirstOpenError DEF Rejected
  <2>3. Sound(pc'[p], c, os, reads'[p], result'[p])
    BY <1>2, <2>1, <2>2 DEF Sound
  <2>4. QED
    BY <1>5, <2>3 DEF Domains
<1>6. CASE /\ JoinAll(os) /\ BadOpens(c, os) = {}
           /\ pc' = [pc EXCEPT ![p] = IF n = 0 THEN "ok" ELSE "read"]
           /\ reads' = [reads EXCEPT ![p] = [i \in 1..n |-> Waiting]]
           /\ result' = [result EXCEPT ![p] = IF n = 0 THEN <<>> ELSE None]
  <2>1. Opened(os)
    BY <1>6, FirstOpenError DEF Opened, JoinAll
  <2>2. CASE n = 0
    <3>1. pc'[p] = "ok" /\ result'[p] = <<>> /\ reads'[p] = [i \in 1..0 |-> Waiting]
      BY <1>6, <2>2 DEF Domains
    <3>2. Resolved(c, os, reads'[p], result'[p])
      <4>1. \A k \in DOMAIN os : ~IsErr(os[k])
        BY <2>1 DEF Opened
      <4>2. DOMAIN reads'[p] = {}
        BY <3>1
      <4>3. c.reads => Len(c.urls) = 0 /\ DOMAIN c.urls = {}
        BY <1>2, <2>2
      <4>4. QED
        BY <3>1, <4>1, <4>2, <4>3 DEF Resolved
    <3>3. Sound(pc'[p], c, os, reads'[p], result'[p])
      BY <1>2, <2>1, <3>1, <3>2 DEF Sound
    <3>4. QED
      BY <1>6, <3>3 DEF Domains
  <2>3. CASE n # 0
    <3>1. /\ pc'[p] = "read" /\ c.reads
          /\ reads'[p] = [i \in DOMAIN c.urls |-> Waiting]
      BY <1>1, <1>2, <1>6, <2>3 DEF Domains
    <3>2. ReadsSound(c, os, reads'[p])
      BY <3>1 DEF ReadsSound, ReadSound
    <3>3. Sound(pc'[p], c, os, reads'[p], result'[p])
      BY <1>2, <2>1, <3>1, <3>2 DEF Sound
    <3>4. QED
      BY <1>6, <3>3 DEF Domains
  <2>4. QED
    BY <2>2, <2>3
<1>7. QED
  BY <1>3, <1>4, <1>5, <1>6

\* Inserting a reader of the current cache keeps the registry: a full one is
\* cleared first.
LEMMA InsertSound ==
  ASSUME RegistrySound, NEW u \in Urls, cache' = cache, configures' = configures,
         opened' = opened + 1,
         readers' = Inserted([url |-> u, cache |-> cache, id |-> opened + 1])
  PROVE  RegistrySound'
<1> DEFINE r == [url |-> u, cache |-> cache, id |-> opened + 1]
           base == IF IsFull(readers) THEN [v \in Urls |-> None] ELSE readers
           used == {v \in Urls : base[v] # None}
<1>1. readers' = [base EXCEPT ![u] = r] /\ r.url = u /\ r.cache = cache
  BY DEF Inserted
<1>2. DOMAIN base = Urls
  BY DEF RegistrySound
<1>3. \A v \in Urls : base[v] # None => base[v].url = v /\ base[v].cache = cache
  BY DEF RegistrySound, RegistryCurrent
<1>4. IsFiniteSet(used) /\ Cardinality(used) + 1 <= MAX_READERS /\ Cardinality(used) \in Nat
  <2>1. CASE IsFull(readers)
    <3>1. used = {}
      BY <2>1
    <3> HIDE DEF used
    <3>2. QED
      BY <3>1, FS_EmptySet, RegistryAssumption
  <2>2. CASE ~IsFull(readers)
    <3>1. used = {v \in Urls : readers[v] # None}
      BY <2>2
    <3>2. IsFiniteSet(used) /\ ~(Cardinality(used) >= MAX_READERS)
      BY <2>2, <3>1 DEF IsFull, RegistrySound
    <3>3. Cardinality(used) \in Nat
      BY <3>2, FS_CardinalityType
    <3>4. QED
      BY <3>2, <3>3, RegistryAssumption
  <2>3. QED
    BY <2>1, <2>2
<1> HIDE DEF r, base
<1>5. DOMAIN readers' = Urls /\ readers'[u] = r /\ \A v \in Urls \ {u} : readers'[v] = base[v]
  BY <1>1, <1>2
<1>6. \A v \in Urls : readers'[v] # None => readers'[v].url = v /\ readers'[v].cache = cache
  BY <1>1, <1>3, <1>5
<1>7. /\ IsFiniteSet({v \in Urls : readers'[v] # None})
      /\ Cardinality({v \in Urls : readers'[v] # None}) <= MAX_READERS
  <2> DEFINE now == {v \in Urls : readers'[v] # None}
  <2>1. now \subseteq used \cup {u}
    BY <1>5
  <2> HIDE DEF now, used
  <2>2. /\ IsFiniteSet(used \cup {u})
        /\ Cardinality(used \cup {u}) <= MAX_READERS
        /\ Cardinality(used \cup {u}) \in Nat
    <3>1. /\ IsFiniteSet(used \cup {u})
          /\ Cardinality(used \cup {u})
               = IF u \in used THEN Cardinality(used) ELSE Cardinality(used) + 1
      BY <1>4, FS_AddElement
    <3>2. QED
      BY <1>4, <3>1, RegistryAssumption
  <2>3. now \in SUBSET (used \cup {u})
    BY <2>1
  <2>4. IsFiniteSet(now) /\ Cardinality(now) <= Cardinality(used \cup {u})
    BY <2>2, <2>3, FS_Subset
  <2>5. Cardinality(now) \in Nat
    BY <2>4, FS_CardinalityType
  <2>6. Cardinality(now) <= MAX_READERS
    BY <2>2, <2>4, <2>5, RegistryAssumption
  <2>7. QED
    BY <2>4, <2>6 DEF now
<1>8. opened' \in Nat /\ configures' \in Nat /\ cache' \in Nat \cup {None}
  BY DEF RegistrySound
<1>9. QED
  BY <1>5, <1>6, <1>7, <1>8 DEF RegistrySound, RegistryCurrent

\* The last read settles the promise with the values in order, or with the
\* error of the lowest position.
LEMMA CollectSound ==
  ASSUME NEW c \in Calls, c.parses, c.reads, NEW os, OpensSound(c, os), Opened(os),
         NEW fs, ReadsSound(c, os, fs), JoinAll(fs)
  PROVE  Sound(Collect(fs)[1], c, os, fs, Collect(fs)[2])
<1> DEFINE us == c.urls
           bad == {i \in DOMAIN fs : IsErr(fs[i])}
<1>1. us \in Seq(Urls) /\ DOMAIN us = 1..Len(us) /\ Len(us) \in Nat
  BY RegistryAssumption
<1>2. DOMAIN fs = 1..Len(us) /\ \A i \in DOMAIN fs : ReadSound(c, os, i, fs[i])
  BY <1>1 DEF ReadsSound
<1>3. DOMAIN os \subseteq Urls
  BY <1>1 DEF OpensSound, ToSet
<1>4. \A i \in DOMAIN fs : IsErr(fs[i]) => fs[i].err = <<"read", i>>
  BY <1>2, Futures DEF ReadSound
<1>5. \A i \in DOMAIN fs : ~IsErr(fs[i]) => fs[i].ok = os[us[i]].ok
  BY <1>2, Futures DEF ReadSound, JoinAll, ReaderAt
<1>6. \A i \in DOMAIN us : os[us[i]].ok # None /\ os[us[i]].ok.url = us[i]
  <2> TAKE i \in DOMAIN us
  <2>1. us[i] \in DOMAIN os
    BY DEF OpensSound, ToSet
  <2>2. OpenSound(us[i], os[us[i]]) /\ os[us[i]].at = "done" /\ ~IsErr(os[us[i]])
    BY <2>1 DEF OpensSound, Opened
  <2>3. QED
    BY <2>2, OpenOutcomes
<1>7. \A k \in DOMAIN os : ~IsErr(os[k])
  BY DEF Opened
<1>8. CASE bad = {}
  <2> DEFINE res == [i \in 1..Len(us) |-> fs[i].ok]
  <2>1. Collect(fs)[1] = "ok" /\ Collect(fs)[2] = res
    BY <1>2, <1>8 DEF Collect
  <2>2. \A i \in 1..Len(us) : ~IsErr(fs[i]) /\ res[i] = os[us[i]].ok
    BY <1>2, <1>5, <1>8
  <2>3. Len(res) = Len(us)
    BY <1>1
  <2> HIDE DEF res
  <2>4. Resolved(c, os, fs, res)
    BY <1>1, <1>2, <1>6, <1>7, <2>2, <2>3 DEF Resolved
  <2>5. QED
    BY <1>3, <2>1, <2>4 DEF Sound
<1>9. CASE bad # {}
  <2> DEFINE m == CHOOSE i \in bad : \A j \in bad : i <= j
  <2>1. bad \subseteq Nat
    BY <1>1, <1>2
  <2>2. \E i \in bad : \A j \in bad : i <= j
    BY <1>9, <2>1, LeastExists
  <2>3. m \in bad /\ \A j \in bad : m <= j
    BY <2>2
  <2>4. Collect(fs)[1] = "err" /\ Collect(fs)[2] = fs[m].err
    BY <1>9 DEF Collect
  <2> HIDE DEF m
  <2>5. m \in DOMAIN fs /\ IsErr(fs[m]) /\ fs[m].err = <<"read", m>> /\ m \in 1..Len(us)
    BY <1>2, <1>4, <2>3
  <2>6. \A j \in 1..(m - 1) : ~IsErr(fs[j])
    <3> SUFFICES ASSUME NEW j \in 1..(m - 1), IsErr(fs[j]) PROVE FALSE
      OBVIOUS
    <3>1. j \in 1..Len(us) /\ ~(m <= j)
      BY <1>1, <2>5
    <3>2. j \in bad
      BY <1>2, <3>1
    <3>3. QED
      BY <2>3, <3>1, <3>2
  <2>7. Rejected(c, os, fs, fs[m].err)
    BY <1>7, <2>5, <2>6 DEF Rejected
  <2>8. QED
    BY <1>3, <2>4, <2>7 DEF Sound
<1>10. QED
  BY <1>8, <1>9

-----------------------------------------------------------------------------
\* The registry and every promise are sound.
RegistryInv == RegistrySound /\ PromisesSound

\* A promise starts.
LEMMA BeginSound ==
  ASSUME RegistryInv, NEW p \in Promises, Begin(p)
  PROVE  RegistryInv'
<1>1. /\ Domains /\ RegistrySound
      /\ UNCHANGED <<readers, cache, configures, opened>>
  BY DEF RegistryInv, PromisesSound, Begin
<1>2. RegistrySound'
  BY <1>1 DEF RegistrySound, RegistryCurrent
<1>3. PICK c \in Calls :
        /\ call' = [call EXCEPT ![p] = c]
        /\ \/ /\ ~c.parses
              /\ pc' = [pc EXCEPT ![p] = "err"]
              /\ result' = [result EXCEPT ![p] = <<"parse">>]
              /\ UNCHANGED <<opens, reads>>
           \/ /\ c.parses
              /\ LET os == [u \in ToSet(c.urls) |->
                              IF readers[u] = None THEN Waiting ELSE Ok(readers[u])]
                 IN opens' = [opens EXCEPT ![p] = os] /\ AfterOpens(p, c, os)
  BY DEF Begin
<1>4. DOMAIN call' = Promises /\ call'[p] = c /\ \A q \in Promises \ {p} : call'[q] = call[q]
  BY <1>1, <1>3 DEF Domains
<1>5. CASE /\ ~c.parses
           /\ pc' = [pc EXCEPT ![p] = "err"]
           /\ result' = [result EXCEPT ![p] = <<"parse">>]
           /\ UNCHANGED <<opens, reads>>
  <2>1. Domains' /\ pc'[p] = "err" /\ opens'[p] = opens[p]
        /\ \A q \in Promises \ {p} : /\ pc'[q] = pc[q] /\ opens'[q] = opens[q]
                                     /\ reads'[q] = reads[q] /\ result'[q] = result[q]
    BY <1>1, <1>4, <1>5 DEF Domains
  <2>2. DOMAIN opens[p] \subseteq Urls
    BY DEF RegistryInv, PromisesSound, PromiseSound, Sound
  <2>3. PromiseSound(p)'
    BY <1>4, <1>5, <2>1, <2>2 DEF PromiseSound, Sound
  <2>4. \A q \in Promises \ {p} : PromiseSound(q)'
    BY <1>4, <2>1 DEF RegistryInv, PromisesSound, PromiseSound
  <2>5. QED
    BY <1>2, <2>1, <2>3, <2>4 DEF RegistryInv, PromisesSound
<1>6. CASE /\ c.parses
           /\ LET os == [u \in ToSet(c.urls) |->
                           IF readers[u] = None THEN Waiting ELSE Ok(readers[u])]
              IN opens' = [opens EXCEPT ![p] = os] /\ AfterOpens(p, c, os)
  <2> DEFINE os == [u \in ToSet(c.urls) |->
                     IF readers[u] = None THEN Waiting ELSE Ok(readers[u])]
  <2>1. opens' = [opens EXCEPT ![p] = os] /\ AfterOpens(p, c, os)
    BY <1>6
  <2>2. OpensSound(c, os)
    <3>1. ToSet(c.urls) \subseteq Urls
      BY RegistryAssumption DEF ToSet
    <3>2. ASSUME NEW u \in ToSet(c.urls) PROVE OpenSound(u, os[u])
      <4>1. CASE readers[u] = None
        BY <4>1 DEF OpenSound
      <4>2. CASE readers[u] # None
        <5>1. readers[u].url = u
          BY <1>1, <3>1, <4>2 DEF RegistrySound, RegistryCurrent
        <5>2. os[u] = Ok(readers[u])
          BY <4>2
        <5>3. os[u].ok = readers[u]
          BY <5>2, Futures
        <5>4. QED
          BY <4>2, <5>1, <5>2, <5>3 DEF OpenSound
      <4>3. QED
        BY <4>1, <4>2
    <3>3. QED
      BY <3>2 DEF OpensSound
  <2> HIDE DEF os
  <2>3. /\ Sound(pc'[p], c, os, reads'[p], result'[p])
        /\ DOMAIN pc' = Promises /\ DOMAIN reads' = Promises /\ DOMAIN result' = Promises
        /\ \A q \in Promises \ {p} :
             pc'[q] = pc[q] /\ reads'[q] = reads[q] /\ result'[q] = result[q]
    BY <1>1, <1>6, <2>1, <2>2, AfterOpensSound
  <2>4. /\ DOMAIN opens' = Promises /\ opens'[p] = os
        /\ \A q \in Promises \ {p} : opens'[q] = opens[q]
    BY <1>1, <2>1 DEF Domains
  <2>5. PromiseSound(p)' /\ Domains'
    BY <1>4, <2>3, <2>4 DEF PromiseSound, Domains
  <2>6. \A q \in Promises \ {p} : PromiseSound(q)'
    BY <1>4, <2>3, <2>4 DEF RegistryInv, PromisesSound, PromiseSound
  <2>7. QED
    BY <1>2, <2>5, <2>6 DEF RegistryInv, PromisesSound
<1>7. QED
  BY <1>3, <1>5, <1>6

\* An open ends, well or badly.
LEMMA OpenEnds ==
  ASSUME RegistryInv, RegistrySound', NEW p \in Promises, NEW u \in DOMAIN opens[p],
         pc[p] = "open", NEW f, OpenSound(u, f),
         opens' = [opens EXCEPT ![p] = [opens[p] EXCEPT ![u] = f]],
         AfterOpens(p, call[p], [opens[p] EXCEPT ![u] = f]), call' = call
  PROVE  RegistryInv'
<1> DEFINE os == [opens[p] EXCEPT ![u] = f]
<1>1. Domains /\ call[p] \in Calls /\ call[p].parses /\ OpensSound(call[p], opens[p])
  BY DEF RegistryInv, PromisesSound, PromiseSound, Sound
<1>2. OpensSound(call[p], os)
  BY <1>1 DEF OpensSound
<1>3. opens' = [opens EXCEPT ![p] = os] /\ AfterOpens(p, call[p], os)
  OBVIOUS
<1> HIDE DEF os
<1>4. /\ Sound(pc'[p], call[p], os, reads'[p], result'[p])
      /\ DOMAIN pc' = Promises /\ DOMAIN reads' = Promises /\ DOMAIN result' = Promises
      /\ \A q \in Promises \ {p} :
           pc'[q] = pc[q] /\ reads'[q] = reads[q] /\ result'[q] = result[q]
  BY <1>1, <1>2, <1>3, AfterOpensSound
<1>5. /\ DOMAIN opens' = Promises /\ opens'[p] = os
      /\ \A q \in Promises \ {p} : opens'[q] = opens[q]
  BY <1>1, <1>3 DEF Domains
<1>6. PromiseSound(p)' /\ Domains'
  BY <1>1, <1>4, <1>5 DEF PromiseSound, Domains
<1>7. \A q \in Promises \ {p} : PromiseSound(q)'
  BY <1>4, <1>5 DEF RegistryInv, PromisesSound, PromiseSound
<1>8. QED
  BY <1>6, <1>7 DEF RegistryInv, PromisesSound

\* A read ends, well or badly.
LEMMA ReadEndsSound ==
  ASSUME RegistryInv, NEW p \in Promises, NEW i \in DOMAIN reads[p], NEW f,
         ReadSound(call[p], opens[p], i, f), ReadEnds(p, i, f)
  PROVE  RegistryInv'
<1> DEFINE fs == [reads[p] EXCEPT ![i] = f]
<1>1. /\ pc[p] = "read" /\ reads' = [reads EXCEPT ![p] = fs]
      /\ \/ UNCHANGED <<pc, result>>
         \/ /\ JoinAll(fs)
            /\ pc' = [pc EXCEPT ![p] = Collect(fs)[1]]
            /\ result' = [result EXCEPT ![p] = Collect(fs)[2]]
      /\ UNCHANGED <<readers, cache, configures, opened, calls, call, opens>>
  BY DEF ReadEnds
<1>2. /\ Domains /\ call[p] \in Calls /\ call[p].parses /\ call[p].reads
      /\ OpensSound(call[p], opens[p]) /\ Opened(opens[p])
      /\ ReadsSound(call[p], opens[p], reads[p]) /\ DOMAIN opens[p] \subseteq Urls
  BY <1>1 DEF RegistryInv, PromisesSound, PromiseSound, Sound
<1>3. ReadsSound(call[p], opens[p], fs)
  BY <1>2 DEF ReadsSound
<1> HIDE DEF fs
<1>4. RegistrySound'
  BY <1>1 DEF RegistryInv, RegistrySound, RegistryCurrent
<1>5. /\ DOMAIN reads' = Promises /\ reads'[p] = fs
      /\ \A q \in Promises \ {p} : reads'[q] = reads[q]
  BY <1>1, <1>2 DEF Domains
<1>6. CASE UNCHANGED <<pc, result>>
  <2>1. PromiseSound(p)'
    BY <1>1, <1>2, <1>3, <1>5, <1>6 DEF PromiseSound, Sound
  <2>2. Domains'
    BY <1>1, <1>2, <1>5, <1>6 DEF Domains
  <2>3. \A q \in Promises \ {p} : PromiseSound(q)'
    BY <1>1, <1>5, <1>6 DEF RegistryInv, PromisesSound, PromiseSound
  <2>4. QED
    BY <1>4, <2>1, <2>2, <2>3 DEF RegistryInv, PromisesSound
<1>7. CASE /\ JoinAll(fs)
           /\ pc' = [pc EXCEPT ![p] = Collect(fs)[1]]
           /\ result' = [result EXCEPT ![p] = Collect(fs)[2]]
  <2>1. Sound(Collect(fs)[1], call[p], opens[p], fs, Collect(fs)[2])
    BY <1>2, <1>3, <1>7, CollectSound
  <2>2. /\ Domains' /\ pc'[p] = Collect(fs)[1] /\ result'[p] = Collect(fs)[2]
        /\ \A q \in Promises \ {p} : pc'[q] = pc[q] /\ result'[q] = result[q]
    BY <1>1, <1>2, <1>5, <1>7 DEF Domains
  <2>3. PromiseSound(p)'
    BY <1>1, <1>5, <2>1, <2>2 DEF PromiseSound
  <2>4. \A q \in Promises \ {p} : PromiseSound(q)'
    BY <1>1, <1>5, <2>2 DEF RegistryInv, PromisesSound, PromiseSound
  <2>5. QED
    BY <1>4, <2>2, <2>3, <2>4 DEF RegistryInv, PromisesSound
<1>8. QED
  BY <1>1, <1>6, <1>7

\* The page starts with an empty registry and no promise.
LEMMA InitRegistry == Init => RegistryInv
<1> SUFFICES ASSUME Init PROVE RegistryInv
  OBVIOUS
<1>1. {u \in Urls : readers[u] # None} = {}
  BY DEF Init
<1>2. RegistrySound
  <2>1. /\ IsFiniteSet({u \in Urls : readers[u] # None})
        /\ Cardinality({u \in Urls : readers[u] # None}) = 0
    BY <1>1, FS_EmptySet, Zenon
  <2>2. QED
    BY <2>1, RegistryAssumption DEF Init, RegistrySound, RegistryCurrent
<1>3. Domains
  BY DEF Init, Domains
<1>4. \A p \in Promises : PromiseSound(p)
  BY DEF Init, PromiseSound, Sound
<1>5. QED
  BY <1>2, <1>3, <1>4 DEF RegistryInv, PromisesSound

\* Every step keeps the invariant.
LEMMA NextRegistry == RegistryInv /\ [Next]_vars => RegistryInv'
<1> SUFFICES ASSUME RegistryInv, [Next]_vars PROVE RegistryInv'
  OBVIOUS
<1>1. CASE Configure
  <2>1. /\ UNCHANGED <<opened, calls, pc, call, opens, reads, result>>
        /\ readers' = [u \in Urls |-> None]
        /\ configures' = configures + 1 /\ cache' \in {configures + 1, None}
    BY <1>1 DEF Configure, ClearedReaders
  <2>2. {u \in Urls : readers'[u] # None} = {}
    BY <2>1
  <2>3. /\ DOMAIN readers' = Urls
        /\ opened' \in Nat /\ configures' \in Nat /\ cache' \in Nat \cup {None}
    BY <2>1 DEF RegistryInv, RegistrySound
  <2>4. RegistrySound'
    <3>1. /\ IsFiniteSet({u \in Urls : readers'[u] # None})
          /\ Cardinality({u \in Urls : readers'[u] # None}) = 0
      BY <2>2, FS_EmptySet, Zenon
    <3>2. QED
      BY <2>1, <2>3, <3>1, RegistryAssumption DEF RegistrySound, RegistryCurrent
  <2>5. PromisesSound'
    BY <2>1 DEF RegistryInv, PromisesSound, PromiseSound, Domains
  <2>6. QED
    BY <2>4, <2>5 DEF RegistryInv
<1>2. ASSUME NEW p \in Promises, Begin(p) PROVE RegistryInv'
  BY <1>2, BeginSound
<1>3. ASSUME NEW p \in Promises, NEW u \in DOMAIN opens[p], OpenOk(p, u)
      PROVE  RegistryInv'
  <2> DEFINE r == [url |-> u, cache |-> cache, id |-> opened + 1]
  <2>1. /\ pc[p] = "open" /\ readers' = Inserted(r) /\ call' = call
        /\ opens' = [opens EXCEPT ![p] = [opens[p] EXCEPT ![u] = Ok(r)]]
        /\ AfterOpens(p, call[p], [opens[p] EXCEPT ![u] = Ok(r)])
        /\ opened' = opened + 1 /\ cache' = cache /\ configures' = configures
    BY <1>3 DEF OpenOk
  <2>2. RegistrySound /\ u \in Urls
    BY DEF RegistryInv, PromisesSound, PromiseSound, Sound
  <2>3. RegistrySound'
    BY <2>1, <2>2, InsertSound
  <2>4. r # None /\ r.url = u
    BY <2>2, NoneAssumption DEF RegistrySound
  <2>5. OpenSound(u, Ok(r))
    BY <2>4, Futures DEF OpenSound
  <2> HIDE DEF r
  <2>6. QED
    BY <2>1, <2>3, <2>5, OpenEnds
<1>4. ASSUME NEW p \in Promises, NEW u \in DOMAIN opens[p], OpenErr(p, u)
      PROVE  RegistryInv'
  <2> DEFINE f == Err(<<"open", u>>)
  <2>1. /\ pc[p] = "open" /\ call' = call
        /\ opens' = [opens EXCEPT ![p] = [opens[p] EXCEPT ![u] = f]]
        /\ AfterOpens(p, call[p], [opens[p] EXCEPT ![u] = f])
        /\ UNCHANGED <<readers, cache, configures, opened>>
    BY <1>4 DEF OpenErr
  <2>2. RegistrySound'
    BY <2>1 DEF RegistryInv, RegistrySound, RegistryCurrent
  <2>3. OpenSound(u, f)
    BY DEF OpenSound
  <2> HIDE DEF f
  <2>4. QED
    BY <2>1, <2>2, <2>3, OpenEnds
<1>5. ASSUME NEW p \in Promises, NEW i \in DOMAIN reads[p], ReadOk(p, i) \/ ReadErr(p, i)
      PROVE  RegistryInv'
  <2>1. CASE ReadOk(p, i)
    BY <2>1, ReadEndsSound DEF ReadOk, ReadSound
  <2>2. CASE ReadErr(p, i)
    BY <2>2, ReadEndsSound DEF ReadErr, ReadSound
  <2>3. QED
    BY <1>5, <2>1, <2>2
<1>6. CASE UNCHANGED vars
  BY <1>6 DEF vars, RegistryInv, RegistrySound, RegistryCurrent,
              PromisesSound, PromiseSound, Domains
<1>7. QED
  BY <1>1, <1>2, <1>3, <1>4, <1>5, <1>6 DEF Next, Progress, Rest

\* The invariant holds throughout.
LEMMA RegistryInvariant == Spec => []RegistryInv
<1>1. QED
  BY InitRegistry, NextRegistry, PTL DEF Spec

\* A reader that the registry hands out is of its URL and attached to the
\* tile cache that is current, and the registry never exceeds its capacity,
\* whatever opens end and caches are configured in between.
THEOREM RegistrySafe == Spec => []RegistryCurrent
<1>1. RegistryInv => RegistryCurrent
  BY DEF RegistryInv, RegistrySound
<1>2. QED
  BY <1>1, RegistryInvariant, PTL

\* zonalStatsBatch and the other promises: a value for every URL at its
\* place, by a reader of that URL, the same for equal URLs, or the first
\* failure; a failure never becomes a null.
THEOREM BatchSafe == Spec => []BatchExact
<1>1. RegistryInv => BatchExact
  <2> SUFFICES ASSUME RegistryInv PROVE BatchExact
    OBVIOUS
  <2>1. \A p \in Promises :
          /\ pc[p] = "ok" => Resolved(call[p], opens[p], reads[p], result[p])
          /\ pc[p] = "err" /\ call[p].parses
               => Rejected(call[p], opens[p], reads[p], result[p])
    BY DEF RegistryInv, PromisesSound, PromiseSound, Sound
  <2>2. QED
    BY <2>1 DEF BatchExact, Resolved, Rejected, Place
<1>2. QED
  BY <1>1, RegistryInvariant, PTL

=============================================================================
