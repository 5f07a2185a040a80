--------------------- MODULE StreamImplementsApi_proofs ----------------------
(***************************************************************************)
(* The write stream implements the device of DefectApi: every step of      *)
(* WriteStream is, for every user, a step of that user's device or none.   *)
(*                                                                         *)
(*   A call of the app is a Submit; RunWrite is WriteLocally; a write the  *)
(*   backend serves is a Commit; the result of a write is an Acknowledge;  *)
(*   the end of a stream that condemns a write is a Refuse; a stream that  *)
(*   is closed with results under way is a LoseStream.                     *)
(*                                                                         *)
(* The rest -- users, tokens, handshakes, timers, the failed write -- is   *)
(* seen by no device.                                                      *)
(***************************************************************************)
EXTENDS WriteStream_proofs

----------------------------------------------------------------------------
\* PLACES IN ORDER

\* g names the numbers of S, the smaller ones first.
InOrder(g, n, S) ==
    /\ g \in [1..n -> S]
    /\ \A i, j \in 1..n : i < j => g[i] < g[j]
    /\ \A k \in S : \E i \in 1..n : g[i] = k

\* Then it is Nth.
LEMMA NthIs ==
    ASSUME NEW S \in SUBSET Nat, NEW n \in Nat, NEW g, InOrder(g, n, S)
    PROVE  Cardinality(S) = n /\ \A i \in 1..n : Nth(S, i) = g[i]
<1>1. \A i, j \in 1..n : g[i] <= g[j] => i <= j
  <2>1. \A i, j \in 1..n : g[i] \in Nat /\ g[j] \in Nat /\ (j < i => g[j] < g[i])
    BY DEF InOrder
  <2> QED BY <2>1
<1>2. \A i, j \in 1..n : g[i] = g[j] => i = j
  <2> SUFFICES ASSUME NEW i \in 1..n, NEW j \in 1..n, g[i] = g[j] PROVE i = j
    OBVIOUS
  <2>1. g[i] \in S
    BY DEF InOrder
  <2>2. g[i] <= g[j] /\ g[j] <= g[i]
    <3>1. \A a \in S : a <= a
      OBVIOUS
    <3> QED BY <2>1, <3>1
  <2> QED BY <1>1, <2>2
<1>3. Cardinality(S) = n
  <2>1. g \in Bijection(1..n, S)
    BY <1>2 DEF InOrder, Bijection, Injection, Surjection, IsInjective
  <2> QED BY <2>1, FS_CountingElements DEF ExistsBijection
<1>4. \A i \in 1..n : Cardinality({j \in S : j <= g[i]}) = i
  <2> SUFFICES ASSUME NEW i \in 1..n PROVE Cardinality({j \in S : j <= g[i]}) = i
    OBVIOUS
  <2> DEFINE low == {j \in S : j <= g[i]}
             h == [k \in 1..i |-> g[k]]
  <2>1. \A k \in 1..i : k \in 1..n /\ g[k] \in S /\ g[k] <= g[i]
    <3>1. \A k \in 1..i : k \in 1..n /\ (k < i \/ k = i)
      OBVIOUS
    <3>2. \A k \in 1..n : g[k] \in S /\ g[k] \in Nat /\ (k < i => g[k] < g[i])
      BY DEF InOrder
    <3> QED BY <3>1, <3>2
  <2>2. h \in [1..i -> low]
    BY <2>1
  <2>3. \A j \in low : \E k \in 1..i : h[k] = j
    <3> SUFFICES ASSUME NEW j \in low PROVE \E k \in 1..i : h[k] = j
      OBVIOUS
    <3>1. PICK k \in 1..n : g[k] = j
      BY DEF InOrder
    <3>2. k <= i
      BY <1>1, <3>1
    <3> QED BY <3>1, <3>2
  <2>4. \A a, b \in 1..i : h[a] = h[b] => a = b
    BY <1>2, <2>1
  <2> HIDE DEF h, low
  <2>5. h \in Bijection(1..i, low)
    BY <2>2, <2>3, <2>4 DEF Bijection, Injection, Surjection, IsInjective
  <2>6. Cardinality(low) = i
    BY <2>5, FS_CountingElements DEF ExistsBijection
  <2> QED BY <2>6 DEF low
<1>5. ASSUME NEW i \in 1..n PROVE Nth(S, i) = g[i]
  <2>1. g[i] \in S
    BY DEF InOrder
  <2>2. Nth(S, i) \in S /\ Cardinality({j \in S : j <= Nth(S, i)}) = i
    BY <1>4, <2>1 DEF Nth
  <2>3. PICK k \in 1..n : g[k] = Nth(S, i)
    BY <2>2 DEF InOrder
  <2>4. k = i
    BY <1>4, <2>2, <2>3
  <2> QED BY <2>3, <2>4
<1> QED BY <1>3, <1>5

\* And Nth does.
LEMMA NthInOrder ==
    ASSUME NEW S \in SUBSET Nat, IsFiniteSet(S)
    PROVE  /\ Cardinality(S) \in Nat
           /\ InOrder([i \in 1..Cardinality(S) |-> Nth(S, i)], Cardinality(S), S)
<1> DEFINE n == Cardinality(S)
           low(i) == {j \in S : j <= i}
           rank == [i \in S |-> Cardinality(low(i))]
           g == [i \in 1..n |-> Nth(S, i)]
<1>1. n \in Nat
  BY FS_CardinalityType
<1>2. \A i \in S : IsFiniteSet(low(i)) /\ Cardinality(low(i)) \in 1..n
  <2> SUFFICES ASSUME NEW i \in S
               PROVE  IsFiniteSet(low(i)) /\ Cardinality(low(i)) \in 1..n
    OBVIOUS
  <2>1. i \in low(i) /\ low(i) \in SUBSET S
    OBVIOUS
  <2> HIDE DEF low
  <2>2. IsFiniteSet(low(i)) /\ Cardinality(low(i)) <= n
    BY <2>1, FS_Subset
  <2>3. Cardinality(low(i)) \in Nat /\ Cardinality(low(i)) # 0
    BY <2>1, <2>2, FS_CardinalityType, FS_EmptySet
  <2> HIDE DEF n
  <2> QED BY <1>1, <2>2, <2>3
<1>3. \A i, k \in S : i < k => rank[i] < rank[k]
  <2> SUFFICES ASSUME NEW i \in S, NEW k \in S, i < k PROVE rank[i] < rank[k]
    OBVIOUS
  <2>1. low(i) \in SUBSET low(k) /\ k \in low(k) /\ k \notin low(i)
    <3>1. i \in Nat /\ k \in Nat /\ ~(k <= i) /\ k <= k
      OBVIOUS
    <3>2. \A j \in S : j <= i => j <= k
      <4>1. \A j \in S : j \in Nat
        OBVIOUS
      <4> QED BY <3>1, <4>1
    <3> QED BY <3>1, <3>2, Zenon
  <2>2. IsFiniteSet(low(k)) /\ Cardinality(low(i)) \in 1..n /\ Cardinality(low(k)) \in 1..n
    BY <1>2
  <2> HIDE DEF low
  <2>3. Cardinality(low(i)) <= Cardinality(low(k))
    BY <2>1, <2>2, FS_Subset
  <2>4. Cardinality(low(k)) # Cardinality(low(i))
    BY <2>1, <2>2, FS_Subset
  <2>5. Cardinality(low(i)) < Cardinality(low(k))
    <3> HIDE DEF n
    <3> QED BY <1>1, <2>2, <2>3, <2>4
  <2> QED BY <2>5
<1>4. \A i \in S : rank[i] \in 1..n
  BY <1>2
<1> HIDE DEF rank
<1>5. \A i, k \in S : rank[i] = rank[k] => i = k
  <2>1. \A i, k \in S : i \in Nat /\ k \in Nat /\ rank[i] \in Nat /\ rank[k] \in Nat
    <3> HIDE DEF n
    <3> QED BY <1>1, <1>4
  <2> QED BY <1>3, <2>1
<1>6. \A m \in 1..n : \E i \in S : rank[i] = m
  <2>1. rank \in Injection(S, 1..n)
    BY <1>4, <1>5 DEF Injection, IsInjective, rank
  <2>2. IsFiniteSet(1..n) /\ Cardinality(1..n) = Cardinality(S)
    <3>1. Cardinality(1..n) = n /\ IsFiniteSet(1..n)
      <4> HIDE DEF n
      <4> QED BY <1>1, FS_Interval
    <3> QED BY <3>1
  <2>3. rank \in Surjection(S, 1..n)
    <3> DEFINE T == 1..n
    <3>1. rank \in Injection(S, T) /\ IsFiniteSet(T) /\ Cardinality(T) = Cardinality(S)
      BY <2>1, <2>2
    <3> HIDE DEF T
    <3>2. rank \in Surjection(S, T)
      BY <3>1, FS_Injection
    <3> QED BY <3>2 DEF T
  <2> QED BY <2>3 DEF Surjection
<1>7. \A m \in 1..n : g[m] \in S /\ rank[g[m]] = m
  <2> SUFFICES ASSUME NEW m \in 1..n PROVE g[m] \in S /\ rank[g[m]] = m
    OBVIOUS
  <2>1. g[m] = CHOOSE i \in S : Cardinality({j \in S : j <= i}) = m
    BY DEF Nth
  <2>2. \A i \in S : rank[i] = Cardinality({j \in S : j <= i})
    BY DEF rank
  <2>3. PICK i \in S : rank[i] = m
    BY <1>6
  <2>4. g[m] \in S /\ Cardinality({j \in S : j <= g[m]}) = m
    <3> HIDE DEF g
    <3> QED BY <2>1, <2>2, <2>3
  <2> HIDE DEF g
  <2> QED BY <2>2, <2>4
<1> HIDE DEF n
<1>8. \A a, b \in 1..n : a < b => g[a] < g[b]
  <2> SUFFICES ASSUME NEW a \in 1..n, NEW b \in 1..n, a < b PROVE g[a] < g[b]
    OBVIOUS
  <2> HIDE DEF g
  <2>1. g[a] \in S /\ g[b] \in S /\ rank[g[a]] = a /\ rank[g[b]] = b
    BY <1>7
  <2>2. g[a] \in Nat /\ g[b] \in Nat
    BY <2>1
  <2>3. g[a] # g[b]
    BY <2>1
  <2>4. ~(g[b] < g[a])
    <3>1. g[b] < g[a] => b < a
      BY <1>3, <2>1
    <3> QED BY <1>1, <3>1
  <2> QED BY <2>2, <2>3, <2>4
<1>9. \A k \in S : \E m \in 1..n : g[m] = k
  <2> SUFFICES ASSUME NEW k \in S PROVE \E m \in 1..n : g[m] = k
    OBVIOUS
  <2> HIDE DEF g
  <2>1. rank[k] \in 1..n
    BY <1>4
  <2>2. g[rank[k]] \in S /\ rank[g[rank[k]]] = rank[k]
    BY <1>7, <2>1
  <2>3. g[rank[k]] = k
    BY <1>5, <2>2
  <2> QED BY <2>1, <2>3
<1>10. g \in [1..n -> S]
  BY <1>7
<1> QED BY <1>1, <1>8, <1>9, <1>10 DEF InOrder, n

----------------------------------------------------------------------------
\* THE CALLS OF A USER

Messages == UserMsg \cup TokenMsg \cup WriteMsg
Mut(w) == [key |-> w.key, doc |-> w.doc]
IsOwn(m, u) == m.type = "write" /\ m.write.user = u

\* Wherever the writes of the user are, CallsOf has them in order.
LEMMA CallsAt ==
    ASSUME NEW tasks \in Seq(Messages), NEW u, NEW n \in Nat, NEW g,
           InOrder(g, n, WritesOf(tasks, u))
    PROVE  CallsOf(tasks, u) = [i \in 1..n |-> Mut(tasks[g[i]].write)]
<1> DEFINE own == WritesOf(tasks, u)
           f == [i \in 1..Cardinality(own) |-> tasks[Nth(own, i)].write]
<1>1. own \in SUBSET Nat
  BY DEF WritesOf
<1>2. Cardinality(own) = n /\ \A i \in 1..n : Nth(own, i) = g[i]
  BY <1>1, NthIs
<1>3. CallsOf(tasks, u) = Mutations(f)
  BY DEF CallsOf
<1>4. f = [i \in 1..n |-> tasks[g[i]].write]
  <2> HIDE DEF own
  <2> QED BY <1>2
<1> HIDE DEF f
<1>5. DOMAIN f = 1..n /\ \A i \in 1..n : f[i] = tasks[g[i]].write
  BY <1>4
<1> QED BY <1>3, <1>5 DEF Mutations, Mut

\* They can be put in order.
LEMMA CallsOrdered ==
    ASSUME NEW tasks \in Seq(Messages), NEW u
    PROVE  \E n \in Nat : \E g : /\ InOrder(g, n, WritesOf(tasks, u))
                                 /\ \A i \in 1..n : g[i] \in 1..Len(tasks) /\ IsOwn(tasks[g[i]], u)
<1> DEFINE own == WritesOf(tasks, u)
           n == Cardinality(own)
           g == [i \in 1..n |-> Nth(own, i)]
<1>1. own \in SUBSET Nat /\ own \in SUBSET (1..Len(tasks)) /\ \A k \in own : IsOwn(tasks[k], u)
  BY DEF WritesOf, IsOwn
<1>2. IsFiniteSet(own)
  <2>1. IsFiniteSet(1..Len(tasks))
    BY FS_Interval
  <2> QED BY <1>1, <2>1, FS_Subset
<1> HIDE DEF own
<1>3. n \in Nat /\ InOrder(g, n, own)
  BY <1>1, <1>2, NthInOrder
<1> HIDE DEF n, g
<1>4. \A i \in 1..n : g[i] \in own
  BY <1>3 DEF InOrder
<1> QED BY <1>1, <1>3, <1>4 DEF own

\* They are mutations.
LEMMA CallsType ==
    ASSUME NEW tasks \in Seq(Messages), NEW u
    PROVE  CallsOf(tasks, u) \in Seq([key : Keys, doc : Docs \cup {NoDoc}])
<1>0. PICK n \in Nat : \E g : /\ InOrder(g, n, WritesOf(tasks, u))
                              /\ \A i \in 1..n : g[i] \in 1..Len(tasks) /\ IsOwn(tasks[g[i]], u)
  BY CallsOrdered
<1>1. PICK g : /\ InOrder(g, n, WritesOf(tasks, u))
               /\ \A i \in 1..n : g[i] \in 1..Len(tasks) /\ IsOwn(tasks[g[i]], u)
  BY <1>0
<1> DEFINE M == Messages
           C == [key : Keys, doc : Docs \cup {NoDoc}]
           c == [i \in 1..n |-> Mut(tasks[g[i]].write)]
<1>2. CallsOf(tasks, u) = c
  BY <1>1, CallsAt
<1>3. \A i \in 1..n : Mut(tasks[g[i]].write) \in C
  <2> SUFFICES ASSUME NEW i \in 1..n PROVE Mut(tasks[g[i]].write) \in C
    OBVIOUS
  <2>1. tasks[g[i]] \in Messages /\ tasks[g[i]].type = "write"
    BY <1>1 DEF IsOwn
  <2>2. tasks[g[i]] \in WriteMsg
    BY <2>1 DEF Messages, UserMsg, TokenMsg, WriteMsg
  <2> QED BY <2>2 DEF WriteMsg, Writes, Mut
<1> HIDE DEF C
<1>4. c \in Seq(C)
  BY <1>3
<1> QED BY <1>2, <1>4 DEF C

\* What comes behind is not of this user.
LEMMA CallsKeep ==
    ASSUME NEW tasks \in Seq(Messages), NEW m \in Messages, NEW u, ~IsOwn(m, u)
    PROVE  CallsOf(Append(tasks, m), u) = CallsOf(tasks, u)
<1> DEFINE more == Append(tasks, m)
           M == Messages
<1>0. PICK n \in Nat : \E g : /\ InOrder(g, n, WritesOf(tasks, u))
                              /\ \A i \in 1..n : g[i] \in 1..Len(tasks) /\ IsOwn(tasks[g[i]], u)
  BY CallsOrdered
<1>1. PICK g : /\ InOrder(g, n, WritesOf(tasks, u))
               /\ \A i \in 1..n : g[i] \in 1..Len(tasks) /\ IsOwn(tasks[g[i]], u)
  BY <1>0
<1>2. /\ more \in Seq(M) /\ Len(tasks) \in Nat /\ DOMAIN tasks = 1..Len(tasks)
      /\ DOMAIN more = 1..(Len(tasks) + 1)
      /\ \A i \in 1..Len(tasks) : more[i] = tasks[i]
      /\ more[Len(tasks) + 1] = m
  <2> HIDE DEF M
  <2>1. tasks \in Seq(M) /\ m \in M
    BY DEF M
  <2> QED BY <2>1
<1> HIDE DEF more
<1>3. WritesOf(more, u) = WritesOf(tasks, u)
  <2>1. ASSUME NEW i \in WritesOf(more, u) PROVE i \in WritesOf(tasks, u)
    <3>1. i \in 1..(Len(tasks) + 1) /\ IsOwn(more[i], u)
      BY <1>2 DEF WritesOf, IsOwn
    <3>2. i # Len(tasks) + 1
      BY <1>2, <3>1
    <3>3. i \in 1..Len(tasks)
      BY <1>2, <3>1, <3>2
    <3> QED BY <1>2, <3>1, <3>3 DEF WritesOf, IsOwn
  <2>2. ASSUME NEW i \in WritesOf(tasks, u) PROVE i \in WritesOf(more, u)
    <3>1. i \in 1..Len(tasks) /\ IsOwn(tasks[i], u)
      BY DEF WritesOf, IsOwn
    <3>2. i \in 1..(Len(tasks) + 1)
      BY <1>2, <3>1
    <3> QED BY <1>2, <3>1, <3>2 DEF WritesOf, IsOwn
  <2> QED BY <2>1, <2>2
<1>4. CallsOf(more, u) = [i \in 1..n |-> Mut(more[g[i]].write)]
  BY <1>1, <1>2, <1>3, CallsAt
<1>5. CallsOf(tasks, u) = [i \in 1..n |-> Mut(tasks[g[i]].write)]
  BY <1>1, CallsAt
<1>6. \A i \in 1..n : more[g[i]] = tasks[g[i]]
  BY <1>1, <1>2
<1> QED BY <1>4, <1>5, <1>6 DEF more

\* What comes behind is.
LEMMA CallsGrow ==
    ASSUME NEW tasks \in Seq(Messages), NEW m \in Messages, NEW u, IsOwn(m, u)
    PROVE  CallsOf(Append(tasks, m), u) = Append(CallsOf(tasks, u), Mut(m.write))
<1> DEFINE more == Append(tasks, m)
           M == Messages
           C == [key : Keys, doc : Docs \cup {NoDoc}]
           calls == CallsOf(tasks, u)
           last == Len(tasks) + 1
<1>0. PICK n \in Nat : \E g : /\ InOrder(g, n, WritesOf(tasks, u))
                              /\ \A i \in 1..n : g[i] \in 1..Len(tasks) /\ IsOwn(tasks[g[i]], u)
  BY CallsOrdered
<1>1. PICK g : /\ InOrder(g, n, WritesOf(tasks, u))
               /\ \A i \in 1..n : g[i] \in 1..Len(tasks) /\ IsOwn(tasks[g[i]], u)
  BY <1>0
<1>2. /\ more \in Seq(M) /\ Len(tasks) \in Nat /\ DOMAIN tasks = 1..Len(tasks)
      /\ DOMAIN more = 1..last
      /\ \A i \in 1..Len(tasks) : more[i] = tasks[i]
      /\ more[last] = m
  <2> HIDE DEF M
  <2>1. tasks \in Seq(M) /\ m \in M
    BY DEF M
  <2> QED BY <2>1
<1>3. last \in Nat /\ \A i \in 1..Len(tasks) : i \in 1..last /\ i < last
  BY <1>2
<1>4. \A i \in 1..last : i \in 1..Len(tasks) \/ i = last
  BY <1>2
<1>5. last \in 1..last
  BY <1>2
<1> HIDE DEF more, last
<1>6. WritesOf(more, u) = WritesOf(tasks, u) \cup {last}
  <2>1. ASSUME NEW i \in WritesOf(more, u) PROVE i \in WritesOf(tasks, u) \cup {last}
    <3>1. i \in 1..last /\ IsOwn(more[i], u)
      BY <1>2 DEF WritesOf, IsOwn
    <3>2. i \in 1..Len(tasks) \/ i = last
      BY <1>4, <3>1
    <3> QED BY <1>2, <3>1, <3>2 DEF WritesOf, IsOwn
  <2>2. ASSUME NEW i \in WritesOf(tasks, u) PROVE i \in WritesOf(more, u)
    <3>1. i \in 1..Len(tasks) /\ IsOwn(tasks[i], u)
      BY DEF WritesOf, IsOwn
    <3>2. i \in 1..last
      BY <1>3, <3>1
    <3> QED BY <1>2, <3>1, <3>2 DEF WritesOf, IsOwn
  <2>3. last \in WritesOf(more, u)
    BY <1>2, <1>5 DEF WritesOf, IsOwn
  <2> QED BY <2>1, <2>2, <2>3
<1> DEFINE h == [i \in 1..(n + 1) |-> IF i = n + 1 THEN last ELSE g[i]]
<1>7. \A i \in 1..(n + 1) : i \in 1..n \/ i = n + 1
  OBVIOUS
<1>8. n + 1 \in 1..(n + 1) /\ \A i \in 1..n : i \in 1..(n + 1) /\ i # n + 1
  OBVIOUS
<1>9. h[n + 1] = last /\ \A i \in 1..n : h[i] = g[i]
  BY <1>8
<1>10. InOrder(h, n + 1, WritesOf(more, u))
  <2>1. \A i \in 1..(n + 1) : h[i] \in WritesOf(more, u)
    BY <1>1, <1>6, <1>7, <1>9 DEF InOrder
  <2>2. h \in [1..(n + 1) -> WritesOf(more, u)]
    BY <2>1
  <2> HIDE DEF h
  <2>3. \A i, j \in 1..(n + 1) : i < j => h[i] < h[j]
    <3> SUFFICES ASSUME NEW i \in 1..(n + 1), NEW j \in 1..(n + 1), i < j
                 PROVE  h[i] < h[j]
      OBVIOUS
    <3>1. i \in 1..n
      OBVIOUS
    <3>2. CASE j = n + 1
      BY <1>1, <1>3, <1>9, <3>1, <3>2
    <3>3. CASE j \in 1..n
      BY <1>1, <1>9, <3>1, <3>3 DEF InOrder
    <3> QED BY <1>7, <3>2, <3>3
  <2>4. \A k \in WritesOf(more, u) : \E i \in 1..(n + 1) : h[i] = k
    <3> SUFFICES ASSUME NEW k \in WritesOf(more, u) PROVE \E i \in 1..(n + 1) : h[i] = k
      OBVIOUS
    <3>1. CASE k = last
      BY <1>8, <1>9, <3>1
    <3>2. CASE k \in WritesOf(tasks, u)
      <4>1. PICK i \in 1..n : g[i] = k
        BY <1>1, <3>2 DEF InOrder
      <4> QED BY <1>8, <1>9, <4>1
    <3> QED BY <1>6, <3>1, <3>2
  <2> QED BY <2>2, <2>3, <2>4 DEF InOrder
<1> HIDE DEF h
<1>11. CallsOf(more, u) = [i \in 1..(n + 1) |-> Mut(more[h[i]].write)]
  <2>1. more \in Seq(Messages) /\ n + 1 \in Nat
    BY <1>2
  <2> QED BY <1>10, <2>1, CallsAt
<1>12. calls = [i \in 1..n |-> Mut(tasks[g[i]].write)] /\ calls \in Seq(C)
  <2>1. calls = [i \in 1..n |-> Mut(tasks[g[i]].write)]
    BY <1>1, CallsAt
  <2>2. calls \in Seq(C)
    BY CallsType
  <2> QED BY <2>1, <2>2
<1> HIDE DEF calls, C
<1>13. Len(calls) = n /\ \A i \in 1..n : calls[i] = Mut(tasks[g[i]].write)
  BY <1>12
<1>14. Append(calls, Mut(m.write))
          = [i \in 1..(n + 1) |-> IF i = n + 1 THEN Mut(m.write) ELSE calls[i]]
  BY <1>12, <1>13
<1>15. \A i \in 1..(n + 1) : Mut(more[h[i]].write)
                              = IF i = n + 1 THEN Mut(m.write) ELSE calls[i]
  <2> SUFFICES ASSUME NEW i \in 1..(n + 1)
               PROVE  Mut(more[h[i]].write) = IF i = n + 1 THEN Mut(m.write) ELSE calls[i]
    OBVIOUS
  <2>1. CASE i = n + 1
    BY <1>2, <1>9, <2>1
  <2>2. CASE i \in 1..n
    BY <1>1, <1>2, <1>8, <1>9, <1>13, <2>2
  <2> QED BY <1>7, <2>1, <2>2
<1> QED BY <1>11, <1>14, <1>15 DEF more, calls

\* Tail of a sequence, place by place.
LEMMA TailPlaces ==
    ASSUME NEW M, NEW s \in Seq(M), s # <<>>
    PROVE  /\ Tail(s) \in Seq(M) /\ Len(s) \in Nat /\ Len(s) >= 1
           /\ DOMAIN s = 1..Len(s) /\ Head(s) = s[1] /\ s[1] \in M
           /\ Len(Tail(s)) = Len(s) - 1 /\ DOMAIN Tail(s) = 1..(Len(s) - 1)
           /\ \A i \in 1..(Len(s) - 1) : Tail(s)[i] = s[i + 1]
OBVIOUS

\* A message that is handled was not of this user.
LEMMA CallsRest ==
    ASSUME NEW tasks \in Seq(Messages), tasks # <<>>, NEW u, ~IsOwn(Head(tasks), u)
    PROVE  CallsOf(Tail(tasks), u) = CallsOf(tasks, u)
<1> DEFINE rest == Tail(tasks)
           k == Len(tasks)
<1>0. PICK n \in Nat : \E g : /\ InOrder(g, n, WritesOf(tasks, u))
                              /\ \A i \in 1..n : g[i] \in 1..Len(tasks) /\ IsOwn(tasks[g[i]], u)
  BY CallsOrdered
<1>1. PICK g : /\ InOrder(g, n, WritesOf(tasks, u))
               /\ \A i \in 1..n : g[i] \in 1..Len(tasks) /\ IsOwn(tasks[g[i]], u)
  BY <1>0
<1>2. /\ rest \in Seq(Messages) /\ k \in Nat /\ k >= 1
      /\ DOMAIN tasks = 1..k /\ DOMAIN rest = 1..(k - 1)
      /\ Head(tasks) = tasks[1] /\ \A i \in 1..(k - 1) : rest[i] = tasks[i + 1]
  BY TailPlaces
<1> HIDE DEF rest
<1>3. \A i \in 1..n : g[i] \in 1..k /\ g[i] # 1
  BY <1>1, <1>2
<1> HIDE DEF k
<1>4. \A i \in 1..n : g[i] \in Nat /\ g[i] - 1 \in 1..(k - 1) /\ (g[i] - 1) + 1 = g[i]
  <2>1. \A j \in 1..k : j # 1 => j \in Nat /\ j - 1 \in 1..(k - 1) /\ (j - 1) + 1 = j
    BY <1>2
  <2> QED BY <1>3, <2>1
<1> DEFINE h == [i \in 1..n |-> g[i] - 1]
<1>5. \A i \in 1..n : /\ h[i] \in 1..(k - 1) /\ h[i] + 1 = g[i] /\ rest[h[i]] = tasks[g[i]]
  BY <1>2, <1>4
<1>6. InOrder(h, n, WritesOf(rest, u))
  <2>1. \A i \in 1..n : h[i] \in WritesOf(rest, u)
    BY <1>1, <1>2, <1>5 DEF WritesOf, IsOwn
  <2>2. h \in [1..n -> WritesOf(rest, u)]
    BY <2>1
  <2>3. \A i, j \in 1..n : i < j => h[i] < h[j]
    <3> SUFFICES ASSUME NEW i \in 1..n, NEW j \in 1..n, i < j PROVE h[i] < h[j]
      OBVIOUS
    <3>1. g[i] < g[j]
      BY <1>1 DEF InOrder
    <3> QED BY <1>4, <3>1
  <2> HIDE DEF h
  <2>4. \A p \in WritesOf(rest, u) : \E i \in 1..n : h[i] = p
    <3> SUFFICES ASSUME NEW p \in WritesOf(rest, u) PROVE \E i \in 1..n : h[i] = p
      OBVIOUS
    <3>1. p \in 1..(k - 1) /\ p + 1 \in 1..k /\ IsOwn(rest[p], u)
      BY <1>2 DEF WritesOf, IsOwn
    <3>2. p + 1 \in WritesOf(tasks, u)
      BY <1>2, <3>1 DEF WritesOf, IsOwn
    <3>3. PICK i \in 1..n : g[i] = p + 1
      BY <1>1, <3>2 DEF InOrder
    <3>4. h[i] \in 1..(k - 1) /\ h[i] + 1 = p + 1
      BY <1>5, <3>3
    <3>5. h[i] = p
      BY <3>1, <3>4
    <3> QED BY <3>5
  <2> QED BY <2>2, <2>3, <2>4 DEF InOrder
<1> HIDE DEF h
<1>7. CallsOf(rest, u) = [i \in 1..n |-> Mut(rest[h[i]].write)]
  BY <1>2, <1>6, CallsAt
<1>8. CallsOf(tasks, u) = [i \in 1..n |-> Mut(tasks[g[i]].write)]
  BY <1>1, CallsAt
<1> QED BY <1>5, <1>7, <1>8 DEF rest

\* It was.
LEMMA CallsTail ==
    ASSUME NEW tasks \in Seq(Messages), tasks # <<>>, NEW u, IsOwn(Head(tasks), u)
    PROVE  /\ CallsOf(tasks, u) # <<>>
           /\ Head(CallsOf(tasks, u)) = Mut(Head(tasks).write)
           /\ CallsOf(Tail(tasks), u) = Tail(CallsOf(tasks, u))
<1> DEFINE rest == Tail(tasks)
           calls == CallsOf(tasks, u)
           C == [key : Keys, doc : Docs \cup {NoDoc}]
           k == Len(tasks)
<1>0. PICK n \in Nat : \E g : /\ InOrder(g, n, WritesOf(tasks, u))
                              /\ \A i \in 1..n : g[i] \in 1..Len(tasks) /\ IsOwn(tasks[g[i]], u)
  BY CallsOrdered
<1>1. PICK g : /\ InOrder(g, n, WritesOf(tasks, u))
               /\ \A i \in 1..n : g[i] \in 1..Len(tasks) /\ IsOwn(tasks[g[i]], u)
  BY <1>0
<1>2. /\ rest \in Seq(Messages) /\ k \in Nat /\ k >= 1
      /\ DOMAIN tasks = 1..k /\ DOMAIN rest = 1..(k - 1)
      /\ Head(tasks) = tasks[1] /\ \A i \in 1..(k - 1) : rest[i] = tasks[i + 1]
  BY TailPlaces
<1> HIDE DEF rest, k
<1>3. \A i \in 1..n : g[i] \in 1..k /\ g[i] \in Nat
  BY <1>1, <1>2 DEF k
<1>4. PICK f \in 1..n : g[f] = 1
  <2>1. 1 \in WritesOf(tasks, u)
    BY <1>2 DEF WritesOf, IsOwn
  <2> QED BY <1>1, <2>1 DEF InOrder
<1>5. f = 1 /\ 1 \in 1..n /\ g[1] = 1
  <2>1. 1 \in 1..n
    BY <1>4
  <2>2. ~(1 < f)
    <3>1. 1 < f => g[1] < g[f]
      BY <1>1, <2>1 DEF InOrder
    <3>2. g[1] \in 1..k
      BY <1>3, <2>1
    <3> QED BY <1>2, <1>4, <3>1, <3>2
  <2>3. f = 1
    BY <1>4, <2>2
  <2> QED BY <1>4, <2>1, <2>3
<1>6. n >= 1 /\ n - 1 \in Nat
  BY <1>5
<1>7. \A i \in 1..(n - 1) : i \in 1..n /\ i + 1 \in 1..n /\ 1 < i + 1
  OBVIOUS
<1>8. \A i \in 1..(n - 1) : /\ g[i + 1] - 1 \in 1..(k - 1)
                            /\ (g[i + 1] - 1) + 1 = g[i + 1]
  <2> SUFFICES ASSUME NEW i \in 1..(n - 1)
               PROVE  g[i + 1] - 1 \in 1..(k - 1) /\ (g[i + 1] - 1) + 1 = g[i + 1]
    OBVIOUS
  <2>1. g[1] < g[i + 1]
    BY <1>1, <1>5, <1>7 DEF InOrder
  <2>2. g[i + 1] \in 1..k
    BY <1>3, <1>7
  <2> QED BY <1>2, <1>5, <2>1, <2>2
<1> DEFINE h == [i \in 1..(n - 1) |-> g[i + 1] - 1]
<1>9. \A i \in 1..(n - 1) :
          h[i] \in 1..(k - 1) /\ h[i] + 1 = g[i + 1] /\ rest[h[i]] = tasks[g[i + 1]]
  BY <1>2, <1>8
<1>10. InOrder(h, n - 1, WritesOf(rest, u))
  <2>1. \A i \in 1..(n - 1) : h[i] \in WritesOf(rest, u)
    BY <1>1, <1>2, <1>7, <1>9 DEF WritesOf, IsOwn
  <2>2. h \in [1..(n - 1) -> WritesOf(rest, u)]
    BY <2>1
  <2> HIDE DEF h
  <2>3. \A i, j \in 1..(n - 1) : i < j => h[i] < h[j]
    <3> SUFFICES ASSUME NEW i \in 1..(n - 1), NEW j \in 1..(n - 1), i < j
                 PROVE  h[i] < h[j]
      OBVIOUS
    <3>1. i + 1 < j + 1 /\ i + 1 \in 1..n /\ j + 1 \in 1..n
      BY <1>7
    <3>2. g[i + 1] < g[j + 1]
      BY <1>1, <3>1 DEF InOrder
    <3>3. /\ h[i] \in 1..(k - 1) /\ h[i] + 1 = g[i + 1]
          /\ h[j] \in 1..(k - 1) /\ h[j] + 1 = g[j + 1]
      BY <1>9
    <3> QED BY <3>2, <3>3
  <2>4. \A p \in WritesOf(rest, u) : \E i \in 1..(n - 1) : h[i] = p
    <3> SUFFICES ASSUME NEW p \in WritesOf(rest, u) PROVE \E i \in 1..(n - 1) : h[i] = p
      OBVIOUS
    <3>1. p \in 1..(k - 1) /\ p + 1 \in 1..k /\ IsOwn(rest[p], u) /\ p + 1 # 1
      BY <1>2 DEF WritesOf, IsOwn
    <3>2. p + 1 \in WritesOf(tasks, u)
      BY <1>2, <3>1 DEF WritesOf, IsOwn
    <3>3. PICK j \in 1..n : g[j] = p + 1
      BY <1>1, <3>2 DEF InOrder
    <3>4. j # 1
      BY <1>5, <3>1, <3>3
    <3>5. j - 1 \in 1..(n - 1) /\ (j - 1) + 1 = j
      BY <3>4
    <3>6. h[j - 1] \in 1..(k - 1) /\ h[j - 1] + 1 = p + 1
      BY <1>9, <3>3, <3>5
    <3>7. h[j - 1] = p
      BY <3>1, <3>6
    <3> QED BY <3>5, <3>7
  <2> QED BY <2>2, <2>3, <2>4 DEF InOrder
<1> HIDE DEF h
<1>11. CallsOf(rest, u) = [i \in 1..(n - 1) |-> Mut(rest[h[i]].write)]
  BY <1>2, <1>6, <1>10, CallsAt
<1>12. calls = [i \in 1..n |-> Mut(tasks[g[i]].write)] /\ calls \in Seq(C)
  <2>1. calls = [i \in 1..n |-> Mut(tasks[g[i]].write)]
    BY <1>1, CallsAt
  <2>2. calls \in Seq(C)
    BY CallsType
  <2> QED BY <2>1, <2>2
<1> HIDE DEF calls, C
<1>13. Len(calls) = n /\ \A i \in 1..n : calls[i] = Mut(tasks[g[i]].write)
  BY <1>12
<1>14. calls # <<>> /\ Head(calls) = calls[1]
  BY <1>6, <1>12, <1>13
<1>15. Head(calls) = Mut(Head(tasks).write)
  BY <1>2, <1>5, <1>13, <1>14
<1>16. Tail(calls) = [i \in 1..(n - 1) |-> calls[i + 1]]
  BY <1>12, <1>13, <1>14
<1>17. \A i \in 1..(n - 1) : Mut(rest[h[i]].write) = calls[i + 1]
  BY <1>7, <1>9, <1>13
<1>18. CallsOf(rest, u) = Tail(calls)
  BY <1>11, <1>16, <1>17
<1> QED BY <1>14, <1>15, <1>18 DEF calls, rest

----------------------------------------------------------------------------
\* WHAT DefectApi SEES

\* A user's writes, called or queued, are no more than the ids in use.
LEMMA WritesCounted ==
    ASSUME Inv, NEW u \in Users
    PROVE  Len(CallsOf(worker, u)) + Len(queues[u]) <= Cardinality(UsedIds)
<1> DEFINE queue == queues[u]
           b == Len(queue)
<1>1. worker \in Seq(Messages) /\ queue \in Seq(Writes)
  BY DEF Inv, TypeOK, Messages
<1>0. PICK n \in Nat : \E g : /\ InOrder(g, n, WritesOf(worker, u))
                              /\ \A i \in 1..n : g[i] \in 1..Len(worker) /\ IsOwn(worker[g[i]], u)
  BY <1>1, CallsOrdered
<1>2. PICK g : /\ InOrder(g, n, WritesOf(worker, u))
               /\ \A i \in 1..n : g[i] \in 1..Len(worker) /\ IsOwn(worker[g[i]], u)
  BY <1>0
<1>3. Len(CallsOf(worker, u)) = n
  <2>1. CallsOf(worker, u) = [i \in 1..n |-> Mut(worker[g[i]].write)]
    BY <1>1, <1>2, CallsAt
  <2> QED BY <2>1
<1>4. b \in Nat /\ DOMAIN queue = 1..b /\ DOMAIN worker = 1..Len(worker)
  BY <1>1
<1>5. /\ \A i, j \in 1..b : queue[i].id = queue[j].id => i = j
      /\ \A i, j \in 1..Len(worker) :
            worker[i].type = "write" /\ worker[j].type = "write"
                /\ worker[i].write.id = worker[j].write.id => i = j
      /\ \A i \in 1..b, j \in 1..Len(worker) :
            worker[j].type = "write" => queue[i].id # worker[j].write.id
  <2>1. IdsOK
    BY DEF Inv
  <2> QED BY <1>4, <2>1 DEF IdsOK
<1>6. \A i \in 1..b : queue[i].id \in UsedIds
  BY <1>4 DEF UsedIds, Elements
<1>7. \A i \in 1..n : worker[g[i]].write.id \in UsedIds
  BY <1>2, <1>4 DEF UsedIds, OfType, Elements, IsOwn
<1>8. \A i, j \in 1..n : g[i] = g[j] => i = j
  <2> SUFFICES ASSUME NEW i \in 1..n, NEW j \in 1..n, g[i] = g[j] PROVE i = j
    OBVIOUS
  <2>1. g[i] \in 1..Len(worker)
    BY <1>2
  <2>2. ~(g[i] < g[i])
    BY <2>1
  <2>3. ~(i < j) /\ ~(j < i)
    BY <1>2, <2>2 DEF InOrder
  <2> QED BY <2>3
<1> HIDE DEF queue, b
<1> DEFINE f == [i \in 1..(b + n) |-> IF i <= b THEN queue[i].id ELSE worker[g[i - b]].write.id]
<1>9. \A i \in 1..(b + n) : \/ i <= b /\ i \in 1..b
                            \/ ~(i <= b) /\ i - b \in 1..n
  BY <1>4
<1>10. \A i \in 1..(b + n) : f[i] \in UsedIds
  BY <1>6, <1>7, <1>9
<1>11. ASSUME NEW i \in 1..(b + n), NEW j \in 1..(b + n), f[i] = f[j] PROVE i = j
  <2>1. CASE i <= b /\ j <= b
    BY <1>5, <1>9, <1>11, <2>1
  <2>2. CASE ~(i <= b) /\ ~(j <= b)
    <3>1. i - b \in 1..n /\ j - b \in 1..n
      BY <1>9, <2>2
    <3>2. worker[g[i - b]].write.id = worker[g[j - b]].write.id
      BY <1>11, <2>2
    <3>3. g[i - b] = g[j - b]
      BY <1>2, <1>5, <3>1, <3>2 DEF IsOwn
    <3>4. i - b = j - b
      BY <1>8, <3>1, <3>3
    <3> QED BY <1>4, <3>4
  <2>3. CASE i <= b /\ ~(j <= b)
    BY <1>2, <1>5, <1>9, <1>11, <2>3 DEF IsOwn
  <2>4. CASE ~(i <= b) /\ j <= b
    BY <1>2, <1>5, <1>9, <1>11, <2>4 DEF IsOwn
  <2> QED BY <2>1, <2>2, <2>3, <2>4
<1> HIDE DEF f
<1>12. f \in Injection(1..(b + n), UsedIds)
  <2>1. f \in [1..(b + n) -> UsedIds]
    BY <1>10 DEF f
  <2> QED BY <1>11, <2>1 DEF Injection, IsInjective
<1>13. Cardinality(1..(b + n)) <= Cardinality(UsedIds)
  BY <1>12, UsedFinite, FS_Injection
<1>14. Cardinality(1..(b + n)) = b + n
  BY <1>4, FS_Interval
<1> QED BY <1>3, <1>4, <1>13, <1>14 DEF queue, b

----------------------------------------------------------------------------
\* SEQUENCES OF WRITES

\* Mutations, write by write.
LEMMA MutationsAre ==
    ASSUME NEW queue \in Seq(Writes)
    PROVE  /\ Mutations(queue) \in Seq(Muts) /\ Len(Mutations(queue)) = Len(queue)
           /\ Len(queue) \in Nat /\ DOMAIN queue = 1..Len(queue)
           /\ \A i \in 1..Len(queue) : Mutations(queue)[i] = Mut(queue[i])
<1> DEFINE n == Len(queue)
           f == [i \in 1..n |-> Mut(queue[i])]
           M == Muts
<1>1. n \in Nat /\ DOMAIN queue = 1..n /\ \A i \in 1..n : queue[i] \in Writes
  OBVIOUS
<1>2. Mutations(queue) = f
  BY <1>1 DEF Mutations, Mut
<1>3. \A i \in 1..n : Mut(queue[i]) \in M
  BY <1>1 DEF Mut, Writes, Muts
<1> HIDE DEF n, M
<1>4. f \in Seq(M) /\ Len(f) = n /\ \A i \in 1..n : f[i] = Mut(queue[i])
  BY <1>1, <1>3
<1> QED BY <1>1, <1>2, <1>4 DEF n, M

\* Of a queue with one write more.
LEMMA MutationsAppend ==
    ASSUME NEW queue \in Seq(Writes), NEW w \in Writes
    PROVE  Mutations(Append(queue, w)) = Append(Mutations(queue), Mut(w))
<1> DEFINE more == Append(queue, w)
           n == Len(queue)
           a == Mutations(queue)
           b == Mutations(more)
           M == Muts
<1>1. /\ more \in Seq(Writes) /\ n \in Nat /\ Len(more) = n + 1
      /\ \A i \in 1..n : more[i] = queue[i]
      /\ more[n + 1] = w
  BY Appended
<1>2. a \in Seq(M) /\ Len(a) = n /\ \A i \in 1..n : a[i] = Mut(queue[i])
  BY MutationsAre
<1>3. b \in Seq(M) /\ Len(b) = n + 1 /\ \A i \in 1..(n + 1) : b[i] = Mut(more[i])
  <2> HIDE DEF more
  <2> QED BY <1>1, MutationsAre
<1>4. Mut(w) \in M
  BY DEF Mut, Writes, Muts
<1> HIDE DEF a, b, more, n, M
<1>5. \A i \in 1..(n + 1) : b[i] = IF i = n + 1 THEN Mut(w) ELSE a[i]
  <2>1. \A i \in 1..(n + 1) : i = n + 1 \/ i \in 1..n
    BY <1>1
  <2> QED BY <1>1, <1>2, <1>3, <2>1
<1>6. /\ Append(a, Mut(w)) \in Seq(M) /\ Len(Append(a, Mut(w))) = n + 1
      /\ \A i \in 1..(n + 1) :
            Append(a, Mut(w))[i] = IF i = n + 1 THEN Mut(w) ELSE a[i]
  BY <1>1, <1>2, <1>4, AppendProperties
<1>7. b = Append(a, Mut(w))
  <2> DEFINE c == Append(a, Mut(w))
  <2>1. c \in Seq(M) /\ Len(c) = Len(b) /\ \A i \in 1..Len(b) : b[i] = c[i]
    BY <1>3, <1>5, <1>6
  <2> HIDE DEF c
  <2>2. b = c
    BY <1>3, <2>1, SeqEqual
  <2> QED BY <2>2 DEF c
<1> QED BY <1>7 DEF a, b, more

\* Of a queue without its first.
LEMMA MutationsRest ==
    ASSUME NEW queue \in Seq(Writes), Len(queue) >= 1, NEW rest \in Seq(Writes),
           Len(rest) = Len(queue) - 1,
           \A i \in 1..(Len(queue) - 1) : rest[i] = queue[i + 1]
    PROVE  /\ Mutations(queue) # <<>> /\ Head(Mutations(queue)) = Mut(queue[1])
           /\ Mutations(rest) = Tail(Mutations(queue))
<1> DEFINE n == Len(queue)
           a == Mutations(queue)
           b == Mutations(rest)
           M == Muts
<1>1. n \in Nat /\ a \in Seq(M) /\ Len(a) = n /\ \A i \in 1..n : a[i] = Mut(queue[i])
  BY MutationsAre
<1>2. b \in Seq(M) /\ Len(b) = n - 1 /\ \A i \in 1..(n - 1) : b[i] = Mut(rest[i])
  BY MutationsAre
<1>3. \A i \in 1..(n - 1) : rest[i] = queue[i + 1]
  OBVIOUS
<1>4. n >= 1
  OBVIOUS
<1> HIDE DEF a, b, n, M
<1>5. a # <<>> /\ Head(a) = Mut(queue[1])
  BY <1>1, <1>4
<1>6. /\ Tail(a) \in Seq(M) /\ Len(Tail(a)) = n - 1
      /\ \A i \in 1..(n - 1) : Tail(a)[i] = a[i + 1]
  BY <1>1, <1>5, TailPlaces
<1>7. \A i \in 1..(n - 1) : b[i] = a[i + 1]
  <2>1. \A i \in 1..(n - 1) : i + 1 \in 1..n
    BY <1>1
  <2> QED BY <1>1, <1>2, <1>3, <2>1
<1>8. b = Tail(a)
  BY <1>2, <1>6, <1>7, SeqEqual
<1> QED BY <1>5, <1>8 DEF a, b

\* One element behind, and two.
LEMMA ConcatOne ==
    ASSUME NEW M, NEW s \in Seq(M), NEW t \in Seq(M), Len(t) = 1
    PROVE  s \o t = Append(s, t[1]) /\ t[1] \in M
<1>1. t[1] \in M
  <2>1. 1 \in 1..Len(t)
    OBVIOUS
  <2> QED BY <2>1, ElementOfSeq
<1> DEFINE x == t[1]
           first == <<x>>
<1>2. x \in M
  BY <1>1
<1> HIDE DEF x
<1>3. first \in Seq(M) /\ Len(first) = 1 /\ first[1] = x
  BY <1>2
<1>4. s \o first = Append(s, x)
  BY <1>2, AppendIsConcat
<1> HIDE DEF first
<1>5. t = first
  BY <1>3, SeqEqual DEF x
<1> QED BY <1>1, <1>4, <1>5 DEF x

\* A sequence with two elements more.
LEMMA ConcatTwo ==
    ASSUME NEW M, NEW s \in Seq(M), NEW t \in Seq(M), Len(t) = 2
    PROVE  s \o t = Append(Append(s, t[1]), t[2]) /\ t[1] \in M /\ t[2] \in M
<1> DEFINE first == <<t[1]>>
           second == <<t[2]>>
<1>1. /\ t[1] \in M /\ first \in Seq(M) /\ Len(first) = 1 /\ first[1] = t[1]
      /\ t[2] \in M /\ second \in Seq(M) /\ Len(second) = 1 /\ second[1] = t[2]
  <2>1. 1 \in 1..Len(t) /\ 2 \in 1..Len(t)
    OBVIOUS
  <2>2. t[1] \in M /\ t[2] \in M
    BY <2>1, ElementOfSeq
  <2>3. ASSUME NEW x \in M PROVE <<x>> \in Seq(M) /\ Len(<<x>>) = 1 /\ <<x>>[1] = x
    OBVIOUS
  <2> QED BY <2>2, <2>3
<1> HIDE DEF first, second
<1>2. /\ first \o second \in Seq(M) /\ Len(first \o second) = 2
      /\ (first \o second)[1] = t[1] /\ (first \o second)[2] = t[2]
  <2>1. first \in Seq(M) /\ second \in Seq(M) /\ Len(first) = 1 /\ Len(second) = 1
    BY <1>1
  <2>2. first \o second \in Seq(M)
    BY <2>1, ConcatProperties
  <2>3. Len(first \o second) = Len(first) + Len(second)
    BY <2>1, ConcatProperties
  <2>4. \A i \in 1..(Len(first) + Len(second)) : (first \o second)[i]
                = IF i <= Len(first) THEN first[i] ELSE second[i - Len(first)]
    BY <2>1, ConcatProperties
  <2>5. /\ 1 \in 1..(1 + 1) /\ 2 \in 1..(1 + 1) /\ 1 + 1 = 2
        /\ 1 <= 1 /\ ~(2 <= 1) /\ 2 - 1 = 1
    OBVIOUS
  <2>6. (first \o second)[1] = first[1] /\ (first \o second)[2] = second[1]
    BY <2>1, <2>4, <2>5
  <2> QED BY <1>1, <2>1, <2>2, <2>3, <2>5, <2>6
<1>3. t = first \o second
  <2> DEFINE both == first \o second
  <2>1. both \in Seq(M) /\ Len(both) = 2 /\ both[1] = t[1] /\ both[2] = t[2]
    BY <1>2
  <2> HIDE DEF both
  <2>2. \A i \in 1..2 : i = 1 \/ i = 2
    OBVIOUS
  <2>3. \A i \in 1..Len(t) : t[i] = both[i]
    BY <2>1, <2>2
  <2>4. t = both
    BY <2>1, <2>3, SeqEqual
  <2> QED BY <2>4 DEF both
<1>4. s \o t = (s \o first) \o second
  BY <1>1, <1>3, ConcatAssociative
<1>5. s \o first = Append(s, t[1]) /\ Append(s, t[1]) \in Seq(M)
  BY <1>1, ConcatOne
<1>6. Append(s, t[1]) \o second = Append(Append(s, t[1]), t[2])
  BY <1>1, <1>5, ConcatOne
<1> QED BY <1>1, <1>4, <1>5, <1>6

----------------------------------------------------------------------------
\* THE CALLS OF A STEP

\* The messages write these mutations for the user c.
WritesOut(new, muts, c) ==
    /\ Len(new) = Len(muts)
    /\ \A i \in 1..Len(muts) : IsOwn(new[i], c) /\ Mut(new[i].write) = muts[i]

\* The calls of a method come behind the others of their user.
LEMMA CallsOfMethod ==
    ASSUME NEW tasks \in Seq(Messages), NEW new \in Seq(Messages),
           NEW muts \in Seq(Muts), Len(muts) \in {1, 2}, NEW c, WritesOut(new, muts, c),
           NEW u
    PROVE  CallsOf(tasks \o new, u)
              = IF u = c THEN CallsOf(tasks, u) \o muts ELSE CallsOf(tasks, u)
<1>0. /\ Len(new) = Len(muts)
      /\ \A i \in 1..Len(muts) : IsOwn(new[i], c) /\ Mut(new[i].write) = muts[i]
  BY DEF WritesOut
<1> DEFINE calls == CallsOf(tasks, u)
           M == Messages
           C == Muts
<1>1. calls \in Seq(C) /\ muts \in Seq(C) /\ tasks \in Seq(M) /\ new \in Seq(M)
  BY CallsType DEF Muts
<1>2. CASE Len(muts) = 1
  <2>1. IsOwn(new[1], c) /\ Mut(new[1].write) = muts[1]
    BY <1>0, <1>2
  <2>2. calls \o muts = Append(calls, muts[1])
    <3> HIDE DEF calls, C
    <3> QED BY <1>1, <1>2, ConcatOne
  <2>3. tasks \o new = Append(tasks, new[1]) /\ new[1] \in Messages
    <3>1. Len(new) = 1
      BY <1>0, <1>2
    <3> HIDE DEF M
    <3>2. tasks \o new = Append(tasks, new[1]) /\ new[1] \in M
      BY <1>1, <3>1, ConcatOne
    <3> QED BY <3>2 DEF M
  <2>4. u = c => CallsOf(Append(tasks, new[1]), u) = Append(calls, Mut(new[1].write))
    BY <2>1, <2>3, CallsGrow
  <2>5. u # c => CallsOf(Append(tasks, new[1]), u) = calls
    BY <2>1, <2>3, CallsKeep DEF IsOwn
  <2> QED BY <2>1, <2>2, <2>3, <2>4, <2>5
<1>3. CASE Len(muts) = 2
  <2> DEFINE more == Append(tasks, new[1])
  <2>1. /\ IsOwn(new[1], c) /\ Mut(new[1].write) = muts[1]
        /\ IsOwn(new[2], c) /\ Mut(new[2].write) = muts[2]
    BY <1>0, <1>3
  <2>2. calls \o muts = Append(Append(calls, muts[1]), muts[2])
    <3> HIDE DEF calls, C
    <3> QED BY <1>1, <1>3, ConcatTwo
  <2>3. tasks \o new = Append(more, new[2]) /\ new[1] \in Messages /\ new[2] \in Messages
    <3>1. Len(new) = 2
      BY <1>0, <1>3
    <3> HIDE DEF M
    <3>2. /\ tasks \o new = Append(Append(tasks, new[1]), new[2])
          /\ new[1] \in M /\ new[2] \in M
      BY <1>1, <3>1, ConcatTwo
    <3> QED BY <3>2 DEF M
  <2>4. more \in Seq(Messages)
    BY <1>1, <2>3
  <2>5. u = c => CallsOf(more, u) = Append(calls, Mut(new[1].write))
    BY <2>1, <2>3, CallsGrow
  <2>6. u # c => CallsOf(more, u) = calls
    BY <2>1, <2>3, CallsKeep DEF IsOwn
  <2> HIDE DEF more
  <2>7. u = c => CallsOf(Append(more, new[2]), u)
                    = Append(CallsOf(more, u), Mut(new[2].write))
    BY <2>1, <2>3, <2>4, CallsGrow
  <2>8. u # c => CallsOf(Append(more, new[2]), u) = CallsOf(more, u)
    BY <2>1, <2>3, <2>4, CallsKeep DEF IsOwn
  <2> QED BY <2>1, <2>2, <2>3, <2>5, <2>6, <2>7, <2>8
<1> QED BY <1>2, <1>3

----------------------------------------------------------------------------
\* WHAT A STEP LEAVES ALONE

SameCalls == \A u \in Users : CallsOf(worker', u) = CallsOf(worker, u)

SameAcks == \A u \in Users :
    Acknowledged(stream', user', u) = Acknowledged(stream, user, u)

NoAcks == \A u \in Users : Acknowledged(stream', user', u) = 0

ApiStep == [Api!ApiNext]_(Api!syncVars)

\* A step that changes neither what is called nor what is queued, committed or on
\* its way back.
LEMMA Stutters ==
    ASSUME UNCHANGED <<server, queues, refused>>, SameCalls, SameAcks
    PROVE  ApiStep
BY DEF ApiStep, Api!syncVars, SameCalls, SameAcks

\* A step that loses what was on its way back.
LEMMA Loses ==
    ASSUME user \in Users, stream \in Stream,
           UNCHANGED <<server, queues, refused>>, SameCalls, NoAcks
    PROVE  ApiStep
<1>1. \A u \in Users : u # user => Acknowledged(stream, user, u) = 0
  BY DEF Acknowledged
<1>2. Acknowledged(stream, user, user) \in Nat
  BY DEF Acknowledged, Stream
<1>3. CASE Acknowledged(stream, user, user) = 0
  BY <1>1, <1>3, Stutters DEF SameAcks, NoAcks
<1>4. CASE Acknowledged(stream, user, user) > 0
  <2>1. Api!LoseStream(user)
    BY <1>1, <1>4 DEF Api!LoseStream, Api!queryVars, SameCalls, NoAcks
  <2> QED BY <2>1 DEF ApiStep, Api!ApiNext, Api!SyncStep
<1> QED BY <1>2, <1>3, <1>4

\* A write that is run goes on disk.
LEMMA RunsWrite ==
    ASSUME Inv, RunWrite, SameAcks
    PROVE  ApiStep
<1> DEFINE w == Head(worker).write
           queue == queues[user]
<1>1. /\ worker # <<>> /\ Head(worker).type = "write" /\ worker' = Tail(worker)
      /\ queues' = [queues EXCEPT ![user] = Append(queue, w)]
      /\ UNCHANGED <<server, user, refused>>
  BY DEF RunWrite
<1>2. /\ Head(worker) = worker[1] /\ 1 \in DOMAIN worker /\ w \in Writes
      /\ worker \in Seq(Messages)
      /\ user \in Users /\ queues \in [Users -> Seq(Writes)] /\ queue \in Seq(Writes)
  BY <1>1, FirstMessage DEF WriteMsg, Messages, Inv, TypeOK
<1>3. w.user = user
  <2>1. UserIs(worker, 1, user, w.user)
    BY <1>1, <1>2 DEF Inv, HopsOK
  <2>2. NoUser(worker, 1)
    BY <1>1, <1>2 DEF NoUser
  <2>3. 1 \in Nat
    OBVIOUS
  <2> QED BY <2>1, <2>2, <2>3, UserIsSame
<1>4. IsOwn(Head(worker), user) /\ \A u \in Users : u # user => ~IsOwn(Head(worker), u)
  BY <1>1, <1>3 DEF IsOwn
<1> HIDE DEF w, queue
<1>5. /\ CallsOf(worker, user) # <<>> /\ Head(CallsOf(worker, user)) = Mut(w)
      /\ CallsOf(worker', user) = Tail(CallsOf(worker, user))
  <2>1. /\ CallsOf(worker, user) # <<>> /\ Head(CallsOf(worker, user)) = Mut(Head(worker).write)
        /\ CallsOf(Tail(worker), user) = Tail(CallsOf(worker, user))
    BY <1>1, <1>2, <1>4, CallsTail
  <2> QED BY <1>1, <2>1 DEF w
<1>6. \A u \in Users : u # user => CallsOf(worker', u) = CallsOf(worker, u)
  BY <1>1, <1>2, <1>4, CallsRest
<1>7. Mut(w) # None
  <2>1. Mut(w) \in [key : Keys, doc : Docs \cup {NoDoc}]
    BY <1>2 DEF Mut, Writes
  <2> QED BY <2>1, StreamAssumption
<1>8. Mutations(queues'[user]) = Append(Mutations(queues[user]), Mut(w))
  BY <1>1, <1>2, MutationsAppend DEF queue
<1>9. \A u \in Users : u # user => queues'[u] = queues[u]
  BY <1>1, <1>2
<1>10. Api!WriteLocally(user)
  BY <1>1, <1>2, <1>5, <1>6, <1>7, <1>8, <1>9
     DEF Api!WriteLocally, Api!queryVars, SameAcks
<1> QED BY <1>2, <1>10 DEF ApiStep, Api!ApiNext, Api!SyncStep

\* The backend commits the next write of the pipeline.
LEMMA Commits ==
    ASSUME user \in Users, queues \in [Users -> Seq(Writes)],
           UNCHANGED <<queues, refused>>, SameCalls,
           NEW got \in Nat, Acknowledged(stream, user, user) = got,
           got < Len(queues[user]), got < MaxPipeline,
           NEW w, w = queues[user][got + 1],
           server' = [server EXCEPT ![w.key] = w.doc],
           Acknowledged(stream', user', user) = got + 1,
           \A u \in Users : u # user =>
                Acknowledged(stream', user', u) = Acknowledged(stream, user, u)
    PROVE  ApiStep
<1>1. /\ Len(Mutations(queues[user])) = Len(queues[user])
      /\ Mutations(queues[user])[got + 1] = Mut(w)
  <2>1. queues[user] \in Seq(Writes) /\ got + 1 \in 1..Len(queues[user])
    OBVIOUS
  <2> QED BY <2>1, MutationsAre
<1>2. Mut(w).key = w.key /\ Mut(w).doc = w.doc
  BY DEF Mut
<1>3. Api!Commit(user)
  BY <1>1, <1>2 DEF Api!Commit, Api!Write, Api!queryVars, SameCalls
<1> QED BY <1>3 DEF ApiStep, Api!ApiNext, Api!SyncStep

\* What Drop leaves of the queues.
Dropped == LET old == queues[user] IN
    \E rest \in Seq(Writes) :
        /\ Len(old) >= 1 /\ Len(rest) = Len(old) - 1
        /\ \A i \in 1..(Len(old) - 1) : rest[i] = old[i + 1]
        /\ queues' = [queues EXCEPT ![user] = rest]

\* It is the tail of the mutations, for DefectApi.
LEMMA DroppedQueue ==
    ASSUME user \in Users, queues \in [Users -> Seq(Writes)], Dropped
    PROVE  /\ Mutations(queues[user]) # <<>>
           /\ Head(Mutations(queues[user])) = Mut(queues[user][1])
           /\ Mutations(queues'[user]) = Tail(Mutations(queues[user]))
           /\ \A u \in Users : u # user => queues'[u] = queues[u]
<1>1. PICK rest \in Seq(Writes) :
        /\ Len(queues[user]) >= 1 /\ Len(rest) = Len(queues[user]) - 1
        /\ \A i \in 1..(Len(queues[user]) - 1) : rest[i] = queues[user][i + 1]
        /\ queues' = [queues EXCEPT ![user] = rest]
  BY DEF Dropped
<1>2. queues'[user] = rest /\ \A u \in Users : u # user => queues'[u] = queues[u]
  BY <1>1
<1>3. queues[user] \in Seq(Writes)
  OBVIOUS
<1> QED BY <1>1, <1>2, <1>3, MutationsRest

\* A result arrives.
LEMMA Acknowledges ==
    ASSUME user \in Users, queues \in [Users -> Seq(Writes)],
           UNCHANGED <<server, refused>>, SameCalls, Dropped,
           NEW got \in Nat, got > 0, Acknowledged(stream, user, user) = got,
           Acknowledged(stream', user', user) = got - 1,
           \A u \in Users : u # user =>
                Acknowledged(stream', user', u) = Acknowledged(stream, user, u)
    PROVE  ApiStep
<1>1. Api!Acknowledge(user)
  BY DroppedQueue DEF Api!Acknowledge, Api!queryVars, SameCalls
<1> QED BY <1>1 DEF ApiStep, Api!ApiNext, Api!SyncStep

\* The first write is refused.
LEMMA Refuses ==
    ASSUME user \in Users, queues \in [Users -> Seq(Writes)], MayRefuse,
           UNCHANGED server, SameCalls, Dropped, SameAcks,
           Acknowledged(stream, user, user) = 0,
           refused' = refused \cup {queues[user][1].key}
    PROVE  ApiStep
<1>1. Mut(queues[user][1]).key = queues[user][1].key
  BY DEF Mut
<1>2. Api!Refuse(user)
  BY <1>1, DroppedQueue DEF Api!Refuse, Api!queryVars, SameCalls, SameAcks
<1> QED BY <1>2 DEF ApiStep, Api!ApiNext, Api!SyncStep

----------------------------------------------------------------------------
\* WHAT THE ROUTINES OF THE STREAM DO TO WHAT IS ON ITS WAY BACK

\* A stream is ended for a write only by a backend that may refuse it.
RefusalsOK == stream.status # None => MayRefuse

\* What is on its way back, and the status, are the same on both streams.
Kept(s, t) ==
    /\ t.handshake <=> s.handshake
    /\ t.responses = s.responses
    /\ t.status = s.status

\* There is no result on its way back, and no status.
Void(s) == ~s.handshake /\ s.status = None

\* StartIfNeeded touches nothing of it.
LEMMA StartKeeps == ASSUME NEW s, StreamOK(s) PROVE Kept(s, StartIfNeeded(s))
BY StartIs DEF Alike, Kept

\* Nor does what joins the pipeline.
LEMMA FillKeeps ==
    ASSUME NEW s, StreamOK(s), NEW queue \in Seq(Writes)
    PROVE  Kept(s, Fill(s, queue))
<1>1. PICK t : /\ Fill(s, queue) = StartIfNeeded(t)
               /\ StreamOK(t) /\ t.state = s.state
               /\ Filled(s, t, queue)
  BY FillIs
<1>2. Kept(s, t)
  BY <1>1 DEF Filled, Kept
<1>3. Kept(t, StartIfNeeded(t))
  BY <1>1, StartKeeps
<1> QED BY <1>1, <1>2, <1>3 DEF Kept

\* Stream::Stop leaves nothing of it.
LEMMA StopVoids == Inv => Void(Stop(stream))
<1> SUFFICES ASSUME Inv PROVE Void(Stop(stream))
  OBVIOUS
<1>1. Quiet(Stop(stream)) /\ Stop(stream).state # "Open"
  BY StopIs
<1> QED BY <1>1 DEF Quiet, Void

\* Nor does RestartNetwork, whatever the queue it starts with.
LEMMA RestartedVoids ==
    ASSUME Inv, NEW queue \in Seq(Writes)
    PROVE  Void(Restarted(queue))
<1> DEFINE s == Stop(stream)
           t == [s EXCEPT !.state = "Initial", !.pipeline = <<>>]
<1>1. StreamOK(s) /\ Quiet(s) /\ s.state \in {"Initial", "Error"}
  BY StopIs
<1>2. Restarted(queue) = Fill(t, queue)
  BY DEF Restarted
<1> HIDE DEF s
<1>3. \E done, u : StreamOK(t) /\ t.state = "Initial" /\ Flow(t, queue, done) /\ Own(t, u)
  BY <1>1, ClearedFlows
<1> HIDE DEF t
<1>4. StreamOK(t) /\ Void(t)
  BY <1>3 DEF Flow, Quiet, Void
<1>5. Kept(t, Fill(t, queue))
  BY <1>4, FillKeeps
<1> QED BY <1>2, <1>4, <1>5 DEF Kept, Void

\* Nor does OnWriteStreamClose after an error that condemns no write.
LEMMA FailedVoids == Inv => Void(Failed)
<1> SUFFICES ASSUME Inv PROVE Void(Failed)
  OBVIOUS
<1> DEFINE t == Closed(stream, "Error")
<1>1. StreamOK(stream) /\ TypeOK /\ IsFiniteSet(asking)
  BY StreamIsOK DEF Inv
<1>2. StreamOK(t) /\ Void(t)
  BY <1>1, ClosedIsNew DEF Void
<1>3. Failed = StartIfNeeded(t)
  BY DEF Failed
<1> HIDE DEF t
<1>4. Kept(t, StartIfNeeded(t))
  BY <1>2, StartKeeps
<1> QED BY <1>2, <1>3, <1>4 DEF Kept, Void

\* Drop takes the first write, and keeps what is on its way back on the stream.
LEMMA DropKeeps ==
    ASSUME Inv, stream.pipeline # <<>>,
           NEW s, StreamOK(s), s.pipeline = stream.pipeline, Drop(s)
    PROVE  Dropped /\ Kept(s, stream') /\ queues[user][1] = Head(stream.pipeline)
<1> DEFINE w == Head(stream.pipeline)
           old == queues[user]
           rest == Without(old, w)
           t == [s EXCEPT !.pipeline = Tail(@)]
<1>1. /\ queues' = [queues EXCEPT ![user] = rest] /\ stream' = Fill(t, rest)
  BY DEF Drop, Become
<1>2. /\ w = old[1] /\ Len(old) >= 1
      /\ rest \in Seq(Writes) /\ Len(rest) = Len(old) - 1
      /\ \A i \in 1..(Len(old) - 1) : rest[i] = old[i + 1]
  BY FirstWrite
<1>3. StreamOK(t) /\ Kept(s, t)
  BY DropFields DEF Kept
<1> HIDE DEF rest, t
<1>4. Kept(t, Fill(t, rest))
  BY <1>2, <1>3, FillKeeps
<1>5. Dropped
  BY <1>1, <1>2 DEF Dropped
<1> QED BY <1>1, <1>2, <1>3, <1>4, <1>5 DEF Kept

----------------------------------------------------------------------------
\* WHICH STEP OF DefectApi A STEP IS

\* The worker queue does no write: it rests, takes a message or has done with one.
LEMMA NoWriteRun ==
    ASSUME Inv,
           \/ worker' = worker
           \/ \E m \in UserMsg \cup TokenMsg : worker' = Append(worker, m)
           \/ worker # <<>> /\ Head(worker).type # "write" /\ worker' = Tail(worker)
    PROVE  SameCalls
<1>1. worker \in Seq(Messages)
  BY DEF Inv, TypeOK, Messages
<1>2. CASE worker' = worker
  BY <1>2 DEF SameCalls
<1>3. ASSUME NEW m \in UserMsg \cup TokenMsg, worker' = Append(worker, m) PROVE SameCalls
  <2>1. m \in Messages /\ \A u \in Users : ~IsOwn(m, u)
    BY DEF Messages, UserMsg, TokenMsg, IsOwn
  <2> QED BY <1>1, <1>3, <2>1, CallsKeep DEF SameCalls
<1>4. CASE worker # <<>> /\ Head(worker).type # "write" /\ worker' = Tail(worker)
  <2>1. \A u \in Users : ~IsOwn(Head(worker), u)
    BY <1>4 DEF IsOwn
  <2> QED BY <1>1, <1>4, <2>1, CallsRest DEF SameCalls
<1> QED BY <1>2, <1>3, <1>4

\* What is on its way back does not change.
LEMMA KeptAcks ==
    ASSUME user' = user, Kept(stream, stream')
    PROVE  SameAcks
BY DEF Kept, SameAcks, Acknowledged

\* Steps of the main queue and of Firebase Auth.
LEMMA MainRefines ==
    ASSUME Inv, \/ Notice \/ TakeToken \/ \E u \in Users : SwitchUser(u)
                \/ \E r \in asking, u \in {auth, None} : AnswerToken(r, u)
    PROVE  ApiStep
<1>1. UNCHANGED <<server, queues, refused, user, stream>>
  <2>1. CASE Notice
    BY <2>1 DEF Notice
  <2>2. CASE TakeToken
    BY <2>2 DEF TakeToken
  <2>3. CASE \E u \in Users : SwitchUser(u)
    BY <2>3 DEF SwitchUser, sdkVars
  <2>4. CASE \E r \in asking, u \in {auth, None} : AnswerToken(r, u)
    BY <2>4 DEF AnswerToken, sdkVars
  <2> QED BY <2>1, <2>2, <2>3, <2>4
<1>2. ASSUME main # <<>> PROVE Head(main) \in UserMsg \cup TokenMsg
  <2> DEFINE M == UserMsg \cup TokenMsg
  <2>1. main \in Seq(M)
    BY DEF Inv, TypeOK
  <2> HIDE DEF M
  <2>2. Head(main) \in M
    BY <1>2, <2>1
  <2> QED BY <2>2 DEF M
<1>3. \/ worker' = worker
      \/ \E m \in UserMsg \cup TokenMsg : worker' = Append(worker, m)
  <2>1. CASE Notice
    BY <1>2, <2>1 DEF Notice
  <2>2. CASE TakeToken
    BY <1>2, <2>2 DEF TakeToken
  <2>3. CASE \E u \in Users : SwitchUser(u)
    BY <2>3 DEF SwitchUser, sdkVars
  <2>4. CASE \E r \in asking, u \in {auth, None} : AnswerToken(r, u)
    BY <2>4 DEF AnswerToken, sdkVars
  <2> QED BY <2>1, <2>2, <2>3, <2>4
<1>4. SameCalls
  BY <1>3, NoWriteRun
<1>5. SameAcks
  BY <1>1, KeptAcks DEF Kept
<1> QED BY <1>1, <1>4, <1>5, Stutters

\* Steps that leave nothing on its way back.
LEMMA VoidRefines ==
    ASSUME Inv, UNCHANGED <<server, queues, refused>>, SameCalls,
           stream'.handshake => stream'.responses = <<>>
    PROVE  ApiStep
<1>1. NoAcks
  BY DEF NoAcks, Acknowledged
<1> QED BY <1>1, Loses DEF Inv, TypeOK

\* What a call of the app puts on the worker queue.
LEMMA CallPuts ==
    ASSUME Inv, NEW muts \in Seq(Muts), Len(muts) \in {1, 2}, Call(muts)
    PROVE  \E new \in Seq(Messages) :
              worker' = worker \o new /\ WritesOut(new, muts, credentials)
<1> DEFINE first == CHOOSE n \in 0..(2 * Cardinality(UsedIds)) :
                        (n..(n + Len(muts) - 1)) \cap UsedIds = {}
           new == [i \in DOMAIN muts |->
                [type |-> "write", write |-> [id |-> first + i - 1, user |-> credentials,
                 key |-> muts[i].key, doc |-> muts[i].doc]]]
           M == Messages
           m == Len(muts)
<1>1. worker' = worker \o new
  BY DEF Call, UsedIds
<1>2. credentials \in Users /\ \A i \in 1..m : first + i - 1 \in Nat
  BY FreshIds DEF Inv, TypeOK
<1> HIDE DEF first
<1>3. DOMAIN muts = 1..m /\ m \in Nat /\ \A i \in 1..m : muts[i] \in Muts
  OBVIOUS
<1> HIDE DEF m
<1>4. DOMAIN new = 1..m
  BY <1>3
<1>5. \A i \in 1..m : new[i] \in WriteMsg
  BY <1>2, <1>3 DEF WriteMsg, Writes, Muts
<1>6. \A i \in 1..m : IsOwn(new[i], credentials) /\ Mut(new[i].write) = muts[i]
  <2> SUFFICES ASSUME NEW i \in 1..m
               PROVE  IsOwn(new[i], credentials) /\ Mut(new[i].write) = muts[i]
    OBVIOUS
  <2>1. /\ new[i].type = "write" /\ new[i].write.user = credentials
        /\ new[i].write.key = muts[i].key /\ new[i].write.doc = muts[i].doc
    BY <1>3
  <2>2. muts[i] = [key |-> muts[i].key, doc |-> muts[i].doc]
    BY <1>3 DEF Muts
  <2> QED BY <2>1, <2>2 DEF IsOwn, Mut
<1>7. new \in Seq(M) /\ Len(new) = m
  <2>1. new = [i \in 1..m |-> new[i]]
    BY <1>4
  <2>2. \A i \in 1..m : new[i] \in M
    BY <1>5 DEF Messages
  <2> HIDE DEF new, M
  <2>3. new \in [1..m -> M]
    BY <2>1, <2>2
  <2> QED BY <1>3, <1>4, <2>3
<1> HIDE DEF new
<1>8. WritesOut(new, muts, credentials)
  BY <1>6, <1>7 DEF WritesOut, m
<1> QED BY <1>1, <1>7, <1>8

\* DefectApi has its own instance of FiniteSets.
LEMMA SameCardinality == ASSUME NEW S PROVE Api!Cardinality(S) = Cardinality(S)
BY DEF Api!Cardinality, Cardinality

\* The bound of DefectApi counts a user's own writes, that of WriteStream all.
LEMMA CallFits ==
    ASSUME Inv, NEW n \in Nat, Cardinality(UsedIds) + n <= MaxPending, NEW u \in Users
    PROVE  Api!Pending(u) + n <= MaxPending
<1> DEFINE c == CallsOf(worker, u)
           M == Muts
<1>1. c \in Seq(M)
  <2>1. worker \in Seq(Messages)
    BY DEF Inv, TypeOK, Messages
  <2> QED BY <2>1, CallsType DEF Muts
<1>2. Len(c) \in Nat /\ DOMAIN c = 1..Len(c) /\ \A i \in 1..Len(c) : c[i] # None
  <2>1. None \notin M
    BY StreamAssumption DEF Muts
  <2> HIDE DEF c, M
  <2> QED BY <1>1, <2>1
<1>4. Len(Mutations(queues[u])) = Len(queues[u]) /\ Len(queues[u]) \in Nat
  <2>1. queues[u] \in Seq(Writes)
    BY DEF Inv, TypeOK
  <2> QED BY <2>1, MutationsAre
<1>5. Len(c) + Len(queues[u]) <= Cardinality(UsedIds)
  BY WritesCounted
<1> HIDE DEF c
<1>6. {i \in DOMAIN c : ~Api!IsQuery(c[i])} = 1..Len(c)
  BY <1>2 DEF Api!IsQuery
<1>7. Api!Cardinality(1..Len(c)) = Len(c)
  <2> DEFINE l == Len(c)
  <2>1. l \in Nat
    BY <1>2
  <2> HIDE DEF l
  <2>2. Cardinality(1..l) = l
    BY <2>1, FS_Interval
  <2> QED BY <2>2, SameCardinality DEF l
<1>8. Api!Pending(u) = Len(c) + Len(queues[u])
  BY <1>4, <1>6, <1>7 DEF Api!Pending, c
<1>9. Cardinality(UsedIds) \in Nat
  BY UsedFinite, FS_CardinalityType
<1> QED BY <1>2, <1>4, <1>5, <1>8, <1>9, StreamAssumption

\* It is the call of the device that is the user whom the main queue knows.
LEMMA CallSubmits ==
    ASSUME Inv, NEW muts \in Seq(Muts), Len(muts) \in {1, 2}, Call(muts)
    PROVE  credentials \in Users /\ Api!Submit(credentials, muts)
<1>1. /\ UNCHANGED <<server, user, queues, stream, refused>>
      /\ Cardinality(UsedIds) + Len(muts) <= MaxPending
  BY DEF Call, UsedIds
<1>2. PICK new \in Seq(Messages) :
              worker' = worker \o new /\ WritesOut(new, muts, credentials)
  BY CallPuts
<1>3. credentials \in Users /\ worker \in Seq(Messages)
  BY DEF Inv, TypeOK, Messages
<1>4. \A u \in Users : CallsOf(worker', u)
        = IF u = credentials THEN CallsOf(worker, u) \o muts ELSE CallsOf(worker, u)
  <2> SUFFICES ASSUME NEW u \in Users
               PROVE  CallsOf(worker \o new, u)
        = IF u = credentials THEN CallsOf(worker, u) \o muts ELSE CallsOf(worker, u)
    BY <1>2
  <2> QED BY <1>2, <1>3, CallsOfMethod
<1>5. Api!Pending(credentials) + Len(muts) <= MaxPending
  <2>1. Len(muts) \in Nat
    OBVIOUS
  <2> QED BY <1>1, <1>3, <2>1, CallFits
<1> QED BY <1>1, <1>3, <1>4, <1>5 DEF Api!Submit, Api!queryVars

\* A method of ApiClient.
LEMMA CallRefines ==
    ASSUME Inv, NEW id \in Ids, NEW doc \in Docs,
           Call(Api!PutCalls(id, doc)) \/ Call(Api!ArchiveCalls(id, doc))
    PROVE  ApiStep
<1>1. CASE Call(Api!PutCalls(id, doc))
  <2>1. credentials \in Users /\ Api!Submit(credentials, Api!PutCalls(id, doc))
    BY <1>1, CallsAre, CallSubmits
  <2> QED BY <2>1 DEF ApiStep, Api!ApiNext, Api!Put
<1>2. CASE Call(Api!ArchiveCalls(id, doc))
  <2>1. credentials \in Users /\ Api!Submit(credentials, Api!ArchiveCalls(id, doc))
    BY <1>2, CallsAre, CallSubmits
  <2> QED BY <2>1 DEF ApiStep, Api!ApiNext, Api!Archive
<1> QED BY <1>1, <1>2

----------------------------------------------------------------------------
\* THE WORKER QUEUE

\* A write.
LEMMA RunWriteRefines == Inv /\ RunWrite => ApiStep
<1> SUFFICES ASSUME Inv, RunWrite PROVE ApiStep
  OBVIOUS
<1>1. user' = user /\ stream' = Fill(stream, Append(queues[user], Head(worker).write))
  BY DEF RunWrite, Become
<1>2. worker # <<>> /\ Head(worker).write \in Writes
  <2>1. worker # <<>> /\ Head(worker).type = "write"
    BY DEF RunWrite
  <2>2. Head(worker) \in WriteMsg
    BY <2>1, FirstMessage
  <2> QED BY <2>1, <2>2 DEF WriteMsg
<1>3. Append(queues[user], Head(worker).write) \in Seq(Writes) /\ StreamOK(stream)
  <2>1. queues[user] \in Seq(Writes) /\ StreamOK(stream)
    BY UserQueue
  <2> QED BY <1>2, <2>1, AppendProperties
<1>4. Kept(stream, stream')
  BY <1>1, <1>3, FillKeeps
<1>5. SameAcks
  BY <1>1, <1>4, KeptAcks
<1> QED BY <1>5, RunsWrite

\* The stream is void of what the backend has answered.
LEMMA VoidStep ==
    ASSUME Inv, UNCHANGED <<server, queues, refused>>, SameCalls, Void(stream')
    PROVE  ApiStep
BY VoidRefines DEF Void

\* A change of user.
LEMMA RunUserRefines == Inv /\ RunUser => ApiStep
<1> SUFFICES ASSUME Inv, RunUser PROVE ApiStep
  OBVIOUS
<1>1. /\ worker # <<>> /\ Head(worker).type = "user" /\ worker' = Tail(worker)
      /\ user' = Head(worker).user /\ stream' = Restarted(queues[user'])
      /\ UNCHANGED <<server, queues, refused>>
  BY DEF RunUser, Become
<1>2. queues[user'] \in Seq(Writes)
  <2>1. user' \in Users
    BY <1>1, FirstMessage DEF UserMsg
  <2> QED BY <2>1 DEF Inv, TypeOK
<1>3. Void(stream')
  BY <1>1, <1>2, RestartedVoids
<1>4. SameCalls
  BY <1>1, NoWriteRun
<1> QED BY <1>1, <1>3, <1>4, VoidStep

\* A token: the stream it opens was not open before.
LEMMA RunTokenRefines == Inv /\ RunToken => ApiStep
<1> SUFFICES ASSUME Inv, RunToken PROVE ApiStep
  OBVIOUS
<1> DEFINE t == Head(worker)
<1>1. /\ worker # <<>> /\ t.type = "token" /\ worker' = Tail(worker)
      /\ UNCHANGED <<server, user, queues, refused>>
  BY DEF RunToken
<1>2. SameCalls
  BY <1>1, NoWriteRun
<1>3. CASE t.closes # stream.closes /\ UNCHANGED <<stream, asking>>
  BY <1>1, <1>2, <1>3, KeptAcks, Stutters DEF Kept
<1>4. CASE Become(Failed)
  <2>1. Void(stream')
    BY <1>4, FailedVoids DEF Become
  <2> QED BY <1>1, <1>2, <2>1, VoidStep
<1>5. CASE /\ t.closes = stream.closes
           /\ Become([stream EXCEPT !.state = "Open", !.token = t.user,
                                    !.requests = <<Handshake>>])
  <2>1. stream.state = "Starting"
    <3>1. t \in OfType(worker, "token")
      BY <1>1, FirstMessage DEF OfType, Elements
    <3> QED BY <1>5, <3>1, InvShows DEF AssertionsHold
  <2>2. StreamOK(stream) /\ Quiet(stream)
    BY UserQueue DEF Flow
  <2>3. stream.responses = <<>> /\ stream \in Stream
    BY <2>1, <2>2 DEF StreamOK
  <2>4. stream'.responses = <<>>
    BY <1>5, <2>3 DEF Become, Stream
  <2> QED BY <1>1, <1>2, <2>4, VoidRefines
<1> QED BY <1>3, <1>4, <1>5 DEF RunToken

----------------------------------------------------------------------------
\* THE STREAM

\* The back-off is over.
LEMMA BackoffRefines == Inv /\ BackoffElapsed => ApiStep
<1> SUFFICES ASSUME Inv, BackoffElapsed PROVE ApiStep
  OBVIOUS
<1>1. /\ stream.state = "Backoff" /\ stream' = [stream EXCEPT !.state = "Starting"]
      /\ UNCHANGED <<server, worker, user, queues, refused>>
  BY DEF BackoffElapsed, Become
<1>2. stream \in Stream /\ stream.responses = <<>>
  BY <1>1 DEF Inv, TypeOK
<1>3. stream'.responses = <<>>
  BY <1>1, <1>2 DEF Stream
<1> QED BY <1>1, <1>3, NoWriteRun, VoidRefines

\* Nobody has anything to write.
LEMMA IdleRefines == Inv /\ IdleTimeout => ApiStep
<1> SUFFICES ASSUME Inv, IdleTimeout PROVE ApiStep
  OBVIOUS
<1>1. stream' = Stop(stream) /\ UNCHANGED <<server, worker, user, queues, refused>>
  BY DEF IdleTimeout, Become
<1> QED BY <1>1, NoWriteRun, StopVoids, VoidStep

\* The network is restarted.
LEMMA ConnectivityRefines == Inv /\ ConnectivityChanged => ApiStep
<1> SUFFICES ASSUME Inv, ConnectivityChanged PROVE ApiStep
  OBVIOUS
<1>1. stream' = Restarted(queues[user]) /\ UNCHANGED <<server, worker, user, queues, refused>>
  BY DEF ConnectivityChanged, Become
<1>2. Void(stream')
  BY <1>1, UserQueue, RestartedVoids
<1> QED BY <1>1, <1>2, NoWriteRun, VoidStep

\* The connection breaks.
LEMMA BreakRefines == Inv /\ BreakStream => ApiStep
<1> SUFFICES ASSUME Inv, BreakStream PROVE ApiStep
  OBVIOUS
<1>1. stream' = Failed /\ UNCHANGED <<server, worker, user, queues, refused>>
  BY DEF BreakStream, Become
<1> QED BY <1>1, NoWriteRun, FailedVoids, VoidStep

\* A write on an ended stream fails.
LEMMA WriteFailsRefines == Inv /\ WriteFails => ApiStep
<1> SUFFICES ASSUME Inv, WriteFails PROVE ApiStep
  OBVIOUS
<1>1. /\ stream' = [stream EXCEPT !.requests = <<>>, !.responses = <<>>]
      /\ UNCHANGED <<server, worker, user, queues, refused>>
  BY DEF WriteFails, Become
<1>2. stream \in Stream
  BY DEF Inv, TypeOK
<1>3. stream'.responses = <<>>
  BY <1>1, <1>2 DEF Stream
<1> QED BY <1>1, <1>3, NoWriteRun, VoidRefines

\* A response: the handshake, or the result of the first write of the pipeline.
LEMMA ReadRefines == Inv /\ OnStreamRead => ApiStep
<1> SUFFICES ASSUME Inv, OnStreamRead PROVE ApiStep
  OBVIOUS
<1> DEFINE M == Writes \cup {Handshake}
           got == Len(stream.responses)
           q == Tail(stream.responses)
           s == [stream EXCEPT !.responses = q]
<1>1. /\ stream.responses # <<>>
      /\ UNCHANGED <<server, worker, user, refused>>
  BY DEF OnStreamRead
<1>2. /\ user \in Users /\ queues \in [Users -> Seq(Writes)] /\ StreamOK(stream)
      /\ Shaking(stream) /\ Talking(stream, committed)
  BY UserQueue DEF Flow, Inv, TypeOK
<1>3. /\ stream \in Stream /\ stream.responses \in Seq(M) /\ stream.state = "Open"
  BY <1>1, <1>2 DEF StreamOK, Stream
<1>4. q \in Seq(M) /\ Len(q) = got - 1 /\ got \in Nat /\ got > 0
  <2> HIDE DEF M
  <2> QED BY <1>1, <1>3
<1> HIDE DEF q
<1>5. /\ s \in Stream /\ s.state = "Open" /\ s.token = stream.token
      /\ s.pipeline = stream.pipeline /\ s.requests = stream.requests
      /\ s.responses = q /\ s.status = stream.status
  BY <1>3, <1>4 DEF Stream
<1>6. s.handshake <=> stream.handshake
  BY <1>3 DEF Stream
<1>7. SameCalls
  BY <1>1, NoWriteRun
<1>8. CASE ~stream.handshake
  <2>1. stream' = [s EXCEPT !.handshake = TRUE, !.requests = @ \o stream.pipeline]
        /\ UNCHANGED queues
    BY <1>8 DEF OnStreamRead, Become, q
  <2>2. stream.responses = <<Handshake>>
    BY <1>1, <1>2, <1>3, <1>8 DEF Shaking
  <2>3. got = 1
    BY <2>2
  <2>4. q = <<>>
    BY <1>4, <2>3
  <2> HIDE DEF s
  <2>5. stream'.responses = <<>>
    BY <1>5, <2>1, <2>4 DEF Stream
  <2> QED BY <1>1, <1>7, <2>1, <2>5, VoidRefines
<1>9. CASE stream.handshake
  <2>1. Drop(s)
    BY <1>9 DEF OnStreamRead, q
  <2>2. stream.pipeline # <<>>
    <3>1. got <= Len(stream.pipeline)
      BY <1>2, <1>9 DEF Talking
    <3>2. stream.pipeline = <<>> => Len(stream.pipeline) = 0
      OBVIOUS
    <3> HIDE DEF got
    <3> QED BY <1>4, <3>1, <3>2
  <2>3. StreamOK(s)
    BY <1>2, <1>3, <1>5 DEF StreamOK
  <2> HIDE DEF s
  <2>4. Dropped /\ Kept(s, stream')
    BY <1>5, <2>1, <2>2, <2>3, DropKeeps
  <2>5. stream'.handshake /\ stream'.responses = q
    BY <1>5, <1>6, <1>9, <2>4 DEF Kept
  <2>6. /\ Acknowledged(stream, user, user) = got
        /\ Acknowledged(stream', user', user) = got - 1
        /\ \A u \in Users : u # user =>
                Acknowledged(stream', user', u) = Acknowledged(stream, user, u)
    BY <1>1, <1>4, <1>9, <2>5 DEF Acknowledged
  <2> HIDE DEF got
  <2> QED BY <1>1, <1>2, <1>4, <1>7, <2>4, <2>6, Acknowledges
<1> QED BY <1>8, <1>9

\* The end of a stream that the backend has ended.
LEMMA FinishRefines == Inv /\ RefusalsOK /\ OnStreamFinish => ApiStep
<1> SUFFICES ASSUME Inv, RefusalsOK, OnStreamFinish PROVE ApiStep
  OBVIOUS
<1>1. /\ stream.status # None /\ stream.responses = <<>>
      /\ UNCHANGED <<server, worker, user>>
  BY DEF OnStreamFinish
<1>2. SameCalls
  BY <1>1, NoWriteRun
<1>3. CASE stream.handshake /\ stream.pipeline # <<>>
  <2> DEFINE s == Closed(stream, "Initial")
  <2>1. Drop(s) /\ refused' = refused \cup {Head(stream.pipeline).key}
    BY <1>3 DEF OnStreamFinish
  <2>2. StreamOK(stream) /\ IsFiniteSet(asking) /\ TypeOK
    BY UserQueue DEF Inv
  <2>3. StreamOK(s) /\ s.pipeline = stream.pipeline /\ ~s.handshake
    BY <2>2, ClosedIsNew
  <2> HIDE DEF s
  <2>4. Dropped /\ Kept(s, stream') /\ queues[user][1] = Head(stream.pipeline)
    BY <1>3, <2>1, <2>3, DropKeeps
  <2>5. ~stream'.handshake
    BY <2>3, <2>4 DEF Kept
  <2>6. SameAcks /\ Acknowledged(stream, user, user) = 0
    BY <1>1, <2>5 DEF SameAcks, Acknowledged
  <2>7. MayRefuse
    BY <1>1 DEF RefusalsOK
  <2>8. user \in Users /\ queues \in [Users -> Seq(Writes)]
    BY DEF Inv, TypeOK
  <2> QED BY <1>1, <1>2, <2>1, <2>4, <2>6, <2>7, <2>8, Refuses
<1>4. CASE ~(stream.handshake /\ stream.pipeline # <<>>)
  <2>1. stream' = Failed /\ UNCHANGED <<queues, refused>>
    BY <1>4 DEF OnStreamFinish, Become
  <2> QED BY <1>1, <1>2, <2>1, FailedVoids, VoidStep
<1> QED BY <1>3, <1>4

----------------------------------------------------------------------------
\* THE BACKEND

\* It answers a handshake, or commits the next write of the pipeline.
LEMMA ServeRefines == Inv /\ Serve => ApiStep
<1> SUFFICES ASSUME Inv, Serve PROVE ApiStep
  OBVIOUS
<1> DEFINE M == Writes \cup {Handshake}
           r == Head(stream.requests)
           got == Len(stream.responses)
           rest == Tail(stream.requests)
           served == Append(stream.responses, r)
<1>1. /\ stream.requests # <<>> /\ stream.status = None
      /\ stream' = [stream EXCEPT !.requests = rest, !.responses = served]
      /\ UNCHANGED <<worker, user, queues, refused>>
  BY DEF Serve
<1>2. /\ stream.requests \in Seq(M) /\ stream.responses \in Seq(M)
      /\ stream \in Stream /\ r = stream.requests[1]
      /\ \/ ~stream.handshake /\ stream.requests = <<Handshake>>
         \/ /\ stream.handshake
            /\ got + 1 \in 1..Len(stream.pipeline)
            /\ r = stream.pipeline[got + 1] /\ r # Handshake
  BY <1>1, FirstRequest
<1>3. got \in Nat /\ Len(served) = got + 1
  <2> HIDE DEF M
  <2>1. r \in M
    BY <1>1, <1>2
  <2> HIDE DEF r
  <2> QED BY <1>2, <2>1
<1>4. SameCalls
  BY <1>1, NoWriteRun
<1> HIDE DEF rest, served
<1>5. stream'.responses = served
  BY <1>1, <1>2 DEF Stream
<1>6. stream'.handshake <=> stream.handshake
  BY <1>1, <1>2 DEF Stream
<1>7. CASE ~stream.handshake
  <2>1. r = Handshake
    <3>1. stream.requests[1] = Handshake
      BY <1>2, <1>7
    <3> QED BY <1>2, <3>1
  <2>2. UNCHANGED server
    BY <2>1 DEF Serve
  <2>3. SameAcks
    BY <1>1, <1>6, <1>7 DEF SameAcks, Acknowledged
  <2> QED BY <1>1, <1>4, <2>2, <2>3, Stutters
<1>8. CASE stream.handshake
  <2>1. server' = [server EXCEPT ![r.key] = r.doc]
    BY <1>2, <1>8 DEF Serve
  <2> HIDE DEF r
  <2>2. /\ user \in Users /\ queues \in [Users -> Seq(Writes)]
        /\ Heads(stream, queues[user])
    BY UserQueue DEF Flow, Inv, TypeOK
  <2>3. got < Len(queues[user]) /\ got < MaxPipeline /\ r = queues[user][got + 1]
    <3> DEFINE n == Len(queues[user])
               k == Len(stream.pipeline)
    <3>1. n \in Nat /\ k \in Nat /\ k <= Min2(n, MaxPipeline) /\ MaxPipeline \in Nat
      <4>1. stream.pipeline \in Seq(Writes)
        BY <1>2 DEF Stream
      <4> QED BY <2>2, <4>1, StreamAssumption DEF Heads
    <3>2. \A i \in 1..k : stream.pipeline[i] = queues[user][i]
      BY <2>2 DEF Heads
    <3>3. got + 1 \in 1..k /\ r = stream.pipeline[got + 1]
      BY <1>2, <1>8
    <3> HIDE DEF n, k, got
    <3>4. got < n /\ got < MaxPipeline
      BY <1>3, <3>1, <3>3 DEF Min2
    <3> QED BY <3>2, <3>3, <3>4 DEF n
  <2>4. /\ Acknowledged(stream, user, user) = got
        /\ Acknowledged(stream', user', user) = got + 1
        /\ \A u \in Users : u # user =>
                Acknowledged(stream', user', u) = Acknowledged(stream, user, u)
    BY <1>1, <1>3, <1>5, <1>6, <1>8 DEF Acknowledged
  <2> HIDE DEF got
  <2> QED BY <1>1, <1>3, <1>4, <2>1, <2>2, <2>3, <2>4, Commits
<1> QED BY <1>7, <1>8

\* It ends the stream.
LEMMA RefuseRefines == Inv /\ Refuse => ApiStep
<1> SUFFICES ASSUME Inv, Refuse PROVE ApiStep
  OBVIOUS
<1> DEFINE rest == Tail(stream.requests)
           r == Head(stream.requests)
<1>1. /\ stream' = [stream EXCEPT !.requests = rest, !.status = r]
      /\ UNCHANGED <<server, worker, user, queues, refused>>
  BY DEF Refuse
<1>2. stream \in Stream
  BY DEF Inv, TypeOK
<1> HIDE DEF rest, r
<1>3. stream'.responses = stream.responses
  BY <1>1, <1>2 DEF Stream
<1>4. stream'.handshake <=> stream.handshake
  BY <1>1, <1>2 DEF Stream
<1>5. SameAcks
  BY <1>1, <1>3, <1>4 DEF SameAcks, Acknowledged
<1> QED BY <1>1, <1>5, NoWriteRun, Stutters

----------------------------------------------------------------------------
\* WHO ENDS A STREAM

\* Drop leaves the status that the backend has ended the stream with.
LEMMA DropStatus ==
    ASSUME Inv, stream.pipeline # <<>>,
           NEW s, StreamOK(s), s.pipeline = stream.pipeline, Drop(s)
    PROVE  stream'.status = s.status
BY DropKeeps DEF Kept

\* A status stays, goes, or comes from a backend that may refuse.
LEMMA StatusSteps ==
    ASSUME Inv, [Next]_vars
    PROVE  stream'.status \in {stream.status, None} \/ MayRefuse
<1>1. StreamOK(stream) /\ stream \in Stream /\ queues \in [Users -> Seq(Writes)]
      /\ user \in Users
  BY UserQueue DEF StreamOK, Inv, TypeOK
<1>2. ASSUME NEW id \in Ids, NEW doc \in Docs,
             Call(Api!PutCalls(id, doc)) \/ Call(Api!ArchiveCalls(id, doc))
      PROVE  stream' = stream
  BY <1>2 DEF Call
<1>3. ASSUME NEW u \in Users, SwitchUser(u) PROVE stream' = stream
  BY <1>3 DEF SwitchUser, sdkVars
<1>4. ASSUME NEW r \in asking, NEW u \in {auth, None}, AnswerToken(r, u)
      PROVE  stream' = stream
  BY <1>4 DEF AnswerToken, sdkVars
<1>5. CASE Notice \/ TakeToken
  BY <1>5 DEF Notice, TakeToken
<1>6. CASE RunWrite
  <2>1. stream' = Fill(stream, Append(queues[user], Head(worker).write))
    BY <1>6 DEF RunWrite, Become
  <2>2. worker # <<>> /\ Head(worker).type = "write"
    BY <1>6 DEF RunWrite
  <2>3. Head(worker).write \in Writes
    BY <2>2, FirstMessage DEF WriteMsg
  <2>4. Append(queues[user], Head(worker).write) \in Seq(Writes)
    BY <1>1, <2>3, AppendProperties
  <2> QED BY <1>1, <2>1, <2>4, FillKeeps DEF Kept
<1>7. CASE RunUser
  <2>1. stream' = Restarted(queues[user'])
    BY <1>7 DEF RunUser, Become
  <2>2. user' \in Users
    BY <1>7, FirstMessage DEF RunUser, UserMsg
  <2> QED BY <1>1, <2>1, <2>2, RestartedVoids DEF Void
<1>8. CASE RunToken
  <2>1. CASE UNCHANGED stream
    BY <2>1
  <2>2. CASE Become(Failed)
    BY <2>2, FailedVoids DEF Become, Void
  <2>3. CASE Become([stream EXCEPT !.state = "Open", !.token = Head(worker).user,
                                   !.requests = <<Handshake>>])
    BY <1>1, <2>3 DEF Become, Stream
  <2> QED BY <1>8, <2>1, <2>2, <2>3 DEF RunToken
<1>9. CASE BackoffElapsed
  BY <1>1, <1>9 DEF BackoffElapsed, Become, Stream
<1>10. CASE IdleTimeout
  BY <1>10, StopVoids DEF IdleTimeout, Become, Void
<1>11. CASE ConnectivityChanged
  BY <1>1, <1>11, RestartedVoids DEF ConnectivityChanged, Become, Void
<1>12. CASE OnStreamRead
  <2> DEFINE q == Tail(stream.responses)
             s == [stream EXCEPT !.responses = q]
  <2>1. CASE Become([s EXCEPT !.handshake = TRUE, !.requests = @ \o stream.pipeline])
    BY <1>1, <2>1 DEF Become, Stream
  <2>2. CASE stream.handshake /\ Drop(s)
    <3>1. Talking(stream, committed) /\ stream.state = "Open" /\ stream.responses # <<>>
      BY <1>1, <1>12, UserQueue DEF OnStreamRead, StreamOK, Flow
    <3>2. /\ stream.responses \in Seq(Writes \cup {Handshake})
          /\ stream.pipeline \in Seq(Writes)
      BY <1>1 DEF Stream
    <3>3. Len(stream.responses) <= Len(stream.pipeline)
      BY <2>2, <3>1 DEF Talking
    <3>4. stream.pipeline # <<>>
      BY <3>1, <3>2, <3>3
    <3>5. q \in Seq(Writes \cup {Handshake})
      <4> DEFINE M == Writes \cup {Handshake}
      <4> HIDE DEF M
      <4>1. stream.responses \in Seq(M) => q \in Seq(M)
        BY <3>1
      <4> QED BY <3>2, <4>1 DEF M
    <3> HIDE DEF q
    <3>6. /\ s \in Stream /\ s.state = "Open" /\ s.token = stream.token
          /\ s.pipeline = stream.pipeline /\ s.status = stream.status
      BY <1>1, <3>1, <3>5 DEF Stream
    <3>7. StreamOK(s)
      BY <1>1, <3>1, <3>6 DEF StreamOK
    <3> HIDE DEF s
    <3> QED BY <2>2, <3>4, <3>6, <3>7, DropStatus
  <2> QED BY <1>12, <2>1, <2>2 DEF OnStreamRead
<1>13. CASE WriteFails
  BY <1>1, <1>13 DEF WriteFails, Become, Stream
<1>14. CASE OnStreamFinish
  <2>1. CASE stream.pipeline # <<>> /\ Drop(Closed(stream, "Initial"))
    <3> DEFINE s == Closed(stream, "Initial")
    <3>1. IsFiniteSet(asking) /\ TypeOK
      BY DEF Inv
    <3>2. StreamOK(s) /\ s.pipeline = stream.pipeline /\ s.status = None
      BY <1>1, <3>1, ClosedIsNew
    <3> HIDE DEF s
    <3> QED BY <2>1, <3>2, DropStatus DEF s
  <2>2. CASE Become(Failed)
    BY <2>2, FailedVoids DEF Become, Void
  <2> QED BY <1>14, <2>1, <2>2 DEF OnStreamFinish
<1>15. CASE BreakStream
  BY <1>15, FailedVoids DEF BreakStream, Become, Void
<1>16. CASE Serve
  BY <1>1, <1>16 DEF Serve, Stream
<1>17. CASE Refuse
  BY <1>17 DEF Refuse
<1>18. CASE UNCHANGED vars
  BY <1>18 DEF vars, sdkVars
<1> DEFINE Fine == stream'.status \in {stream.status, None} \/ MayRefuse
<1>19. /\ \A id \in Ids, doc \in Docs :
             Call(Api!PutCalls(id, doc)) \/ Call(Api!ArchiveCalls(id, doc)) => Fine
       /\ \A u \in Users : SwitchUser(u) => Fine
       /\ \A r \in asking, u \in {auth, None} : AnswerToken(r, u) => Fine
  BY <1>2, <1>3, <1>4
<1>20. (Notice \/ TakeToken \/ RunWrite \/ RunUser \/ RunToken \/ BackoffElapsed
            \/ IdleTimeout \/ ConnectivityChanged) => Fine
  BY <1>5, <1>6, <1>7, <1>8, <1>9, <1>10, <1>11
<1>21. (OnStreamRead \/ WriteFails \/ OnStreamFinish \/ BreakStream
            \/ Serve \/ Refuse \/ UNCHANGED vars) => Fine
  BY <1>12, <1>13, <1>14, <1>15, <1>16, <1>17, <1>18
<1> HIDE DEF Fine
<1>22. Fine
  BY <1>19, <1>20, <1>21 DEF Next
<1> QED BY <1>22 DEF Fine

\* So only such a backend condemns a write.
LEMMA RefusalsStep == Inv /\ RefusalsOK /\ [Next]_vars => RefusalsOK'
BY StatusSteps DEF RefusalsOK

----------------------------------------------------------------------------
\* THE REFINEMENT

\* Initial states are initial states.
LEMMA InitRefines == Init => Api!ApiInit
<1> SUFFICES ASSUME Init PROVE Api!ApiInit
  OBVIOUS
<1>1. /\ server = [k \in Keys |-> NoDoc] /\ worker = <<>> /\ refused = {}
      /\ queues = [u \in Users |-> <<>>] /\ ~stream.handshake
  BY DEF Init
<1>2. Mutations(<<>>) = <<>>
  <2>1. <<>> \in Seq(Writes) /\ Len(<<>>) = 0
    OBVIOUS
  <2>2. Mutations(<<>>) \in Seq(Muts) /\ Len(Mutations(<<>>)) = 0
    BY <2>1, MutationsAre DEF Muts
  <2> QED BY <2>2
<1>3. \A u \in Users : CallsOf(worker, u) = <<>>
  <2> SUFFICES ASSUME NEW u \in Users PROVE CallsOf(<<>>, u) = <<>>
    BY <1>1
  <2>1. WritesOf(<<>>, u) = {}
    BY DEF WritesOf
  <2> QED BY <1>2, <2>1, FS_EmptySet DEF CallsOf
<1>4. \A u \in Users : Acknowledged(stream, user, u) = 0
  BY <1>1 DEF Acknowledged
<1> QED BY <1>1, <1>2, <1>3, <1>4 DEF Api!ApiInit, Api!SyncInit

\* A step of somebody else.
LEMMA RestRefines == UNCHANGED vars => ApiStep
<1> SUFFICES ASSUME UNCHANGED vars PROVE ApiStep
  OBVIOUS
<1>1. UNCHANGED <<server, worker, user, queues, stream, refused>>
  BY DEF vars, sdkVars
<1> QED BY <1>1, Stutters DEF SameCalls, SameAcks

\* Every step is one of DefectApi, or none.
LEMMA StepRefines == Inv /\ RefusalsOK /\ [Next]_vars => ApiStep
<1> SUFFICES ASSUME Inv, RefusalsOK, [Next]_vars PROVE ApiStep
  OBVIOUS
<1>1. ASSUME NEW id \in Ids, NEW doc \in Docs,
             Call(Api!PutCalls(id, doc)) \/ Call(Api!ArchiveCalls(id, doc))
      PROVE  ApiStep
  BY <1>1, CallRefines
<1>2. CASE \/ Notice \/ TakeToken \/ \E u \in Users : SwitchUser(u)
           \/ \E r \in asking, u \in {auth, None} : AnswerToken(r, u)
  BY <1>2, MainRefines
<1>3. CASE RunWrite \/ RunUser \/ RunToken
  BY <1>3, RunWriteRefines, RunUserRefines, RunTokenRefines
<1>4. CASE BackoffElapsed \/ IdleTimeout \/ ConnectivityChanged
  BY <1>4, BackoffRefines, IdleRefines, ConnectivityRefines
<1>5. CASE OnStreamRead \/ WriteFails \/ OnStreamFinish \/ BreakStream
  BY <1>5, ReadRefines, WriteFailsRefines, FinishRefines, BreakRefines
<1>6. CASE Serve \/ Refuse
  BY <1>6, ServeRefines, RefuseRefines
<1>7. CASE UNCHANGED vars
  BY <1>7, RestRefines
<1> QED BY <1>1, <1>2, <1>3, <1>4, <1>5, <1>6, <1>7 DEF Next

\* Whatever closes the stream, reopens it, changes its user or crosses on the way, to
\* each user the write path is the mutation queue, the at-least-once commits in order
\* and the acknowledgements that a device of DefectApi has (WriteStream, RemoteStore,
\* SyncEngine::HandleCredentialChange).
THEOREM StreamImplementsApi == Spec => ImplementsApi
<1>1. Init => Api!ApiInit /\ RefusalsOK
  BY InitRefines DEF Init, RefusalsOK
<1>2. Inv /\ RefusalsOK /\ [Next]_vars => RefusalsOK'
  BY RefusalsStep
<1>3. Inv /\ RefusalsOK /\ [Next]_vars => ApiStep
  BY ONLY StepRefines
<1>4. ApiStep => [Api!ApiNext]_(Api!syncVars)
  BY DEF ApiStep
<1> QED BY <1>1, <1>2, <1>3, <1>4, Invariance, PTL DEF Spec, ImplementsApi, Api!ApiSpec

----------------------------------------------------------------------------
\* WHAT IT IS FOR

\* The theorems of DefectApi, of the devices that the users are.
Proved == INSTANCE DefectApi_proofs WITH
    Devices <- Users, Queried <- {}, Query <- None, QueriesMayFail <- FALSE,
    MaxLoads <- 0,
    calls <- [u \in Users |-> CallsOf(worker, u)],
    queue <- [u \in Users |-> Mutations(queues[u])],
    applied <- [u \in Users |-> Acknowledged(stream, user, u)],
    synced <- [u \in Users |-> 0],
    cache <- [u \in Users |-> <<>>],
    listens <- [u \in Users |-> 0],
    snapshots <- [u \in Users |-> <<>>]

\* Its steps are those of Api, name by name.
LEMMA SameSteps == Api!ApiNext => Proved!ApiNext
<1> SUFFICES ASSUME NEW d \in Users,
                    \/ \E id \in Ids, doc \in Docs :
                        Api!Post(d, id, doc) \/ Api!Put(d, id, doc) \/ Api!Archive(d, id, doc)
                    \/ Api!GetAllDefects(d) \/ Api!Deliver(d) \/ Api!SyncStep(d)
                    \/ Api!Crash(d)
             PROVE  Proved!ApiNext
  BY DEF Api!ApiNext
<1>1. ASSUME NEW muts, Api!Submit(d, muts) PROVE Proved!Submit(d, muts)
  BY <1>1
     DEF Api!Submit, Proved!Submit, Api!Pending, Proved!Pending, Api!IsQuery,
         Proved!IsQuery, Api!Cardinality, Proved!Cardinality, Api!queryVars,
         Proved!queryVars
<1>2. ASSUME NEW id \in Ids, NEW doc \in Docs,
             Api!Post(d, id, doc) \/ Api!Put(d, id, doc) \/ Api!Archive(d, id, doc)
      PROVE  Proved!Post(d, id, doc) \/ Proved!Put(d, id, doc) \/ Proved!Archive(d, id, doc)
  <2>1. /\ Api!PostCalls(id, doc) = Proved!PostCalls(id, doc)
        /\ Api!PutCalls(id, doc) = Proved!PutCalls(id, doc)
        /\ Api!ArchiveCalls(id, doc) = Proved!ArchiveCalls(id, doc)
    BY DEF Api!PostCalls, Proved!PostCalls, Api!PutCalls, Proved!PutCalls,
           Api!ArchiveCalls, Proved!ArchiveCalls, Api!DeleteCalls,
           Proved!DeleteCalls, Api!Set, Proved!Set, Api!Delete, Proved!Delete,
           Api!Live, Proved!Live, Api!Archived, Proved!Archived
  <2> QED BY <1>1, <1>2, <2>1
            DEF Api!Post, Proved!Post, Api!Put, Proved!Put, Api!Archive, Proved!Archive
<1>3. Api!GetAllDefects(d) => Proved!GetAllDefects(d)
  BY DEF Api!GetAllDefects, Proved!GetAllDefects, Api!Ask, Proved!Ask, Api!Loads,
         Proved!Loads, Api!IsQuery, Proved!IsQuery, Api!Cardinality,
         Proved!Cardinality, Api!queryVars, Proved!queryVars
<1>4. (Api!Deliver(d) => Proved!Deliver(d)) /\ (Api!Crash(d) => Proved!Crash(d))
  BY DEF Api!Deliver, Proved!Deliver, Api!Crash, Proved!Crash, Api!writeVars,
         Proved!writeVars
<1>5. Api!SyncStep(d) => Proved!SyncStep(d)
  <2>1. Api!WriteLocally(d) => Proved!WriteLocally(d)
    BY DEF Api!WriteLocally, Proved!WriteLocally, Api!queryVars, Proved!queryVars
  <2>2. Api!Commit(d) => Proved!Commit(d)
    BY DEF Api!Commit, Proved!Commit, Api!Write, Proved!Write, Api!queryVars,
           Proved!queryVars
  <2>3. Api!Acknowledge(d) => Proved!Acknowledge(d)
    BY DEF Api!Acknowledge, Proved!Acknowledge, Api!Write, Proved!Write,
           Api!queryVars, Proved!queryVars
  <2>4. Api!LoseStream(d) => Proved!LoseStream(d)
    BY DEF Api!LoseStream, Proved!LoseStream, Api!queryVars, Proved!queryVars
  <2>5. Api!Refuse(d) => Proved!Refuse(d)
    BY DEF Api!Refuse, Proved!Refuse, Api!queryVars, Proved!queryVars
  <2>6. Api!Listen(d) => Proved!Listen(d)
    BY DEF Api!Listen, Proved!Listen
  <2>7. Api!RaiseFromServer(d) => Proved!RaiseFromServer(d)
    BY DEF Api!RaiseFromServer, Proved!RaiseFromServer, Api!Raise, Proved!Raise,
           Api!Overlay, Proved!Overlay, Api!Max, Proved!Max
  <2>8. Api!RaiseFromCache(d) => Proved!RaiseFromCache(d)
    BY DEF Api!RaiseFromCache, Proved!RaiseFromCache, Api!Raise, Proved!Raise,
           Api!Overlay, Proved!Overlay, Api!Max, Proved!Max
  <2>9. Api!FailQuery(d) => Proved!FailQuery(d)
    BY DEF Api!FailQuery, Proved!FailQuery, Api!writeVars, Proved!writeVars
  <2> QED BY <2>1, <2>2, <2>3, <2>4, <2>5, <2>6, <2>7, <2>8, <2>9
          DEF Api!SyncStep, Proved!SyncStep
<1> QED BY <1>2, <1>3, <1>4, <1>5 DEF Proved!ApiNext

\* And so are its initial states.
LEMMA SameInit == Api!ApiInit => Proved!ApiInit
BY DEF Api!ApiInit, Proved!ApiInit, Api!SyncInit, Proved!SyncInit

\* archive(_:) on a phone that changes its users while its writes are queued, on the
\* wire or answered: a defect still leaves the Defects collection only when its
\* archived copy is there or was refused.
THEOREM NoUserLosesADefect == Spec => Api!LeavesOnlyArchived
<1>1. Api!ApiSpec => Proved!ApiSpec
  <2>1. [Api!ApiNext]_(Api!syncVars) => [Proved!ApiNext]_(Proved!syncVars)
    BY SameSteps DEF Api!syncVars, Proved!syncVars
  <2> QED BY <2>1, SameInit, PTL DEF Api!ApiSpec, Proved!ApiSpec
<1>2. Proved!ApiSpec => Proved!LeavesOnlyArchived
  BY Proved!NoDefectIsLost, StreamAssumption DEF Keys, Proved!Mutation
<1>3. Proved!LeavesOnlyArchived => Api!LeavesOnlyArchived
  BY DEF Api!LeavesOnlyArchived, Proved!LeavesOnlyArchived, Api!Settled, Proved!Settled,
         Api!Live, Proved!Live, Api!Archived, Proved!Archived, Api!syncVars, Proved!syncVars
<1> QED BY <1>1, <1>2, <1>3, StreamImplementsApi, PTL DEF ImplementsApi
==============================================================================
