----------------------- MODULE PreprocInvariantProofs ------------------------
(***************************************************************************)
(* The inductive invariant of the preprocessing manager, for any items,    *)
(* steps, dependents, workers and values: every value is at one place of   *)
(* the queue or its flush queues, of the flushed values or of the pending  *)
(* calls; tasks and results belong to queued values; and the links of an   *)
(* item connect its unfinished values one after the other.                 *)
(* PreprocManagerProofs derives the properties.                            *)
(***************************************************************************)
EXTENDS PreprocManager, FiniteSetTheorems, FunctionTheorems, SequenceTheorems, WellFoundedInduction, TLAPS

------------------------------------------------------------------------------
(* The queue and its flush queues *)

(* Q is a sequence of requests, F[x] the flush queue of request x.  A      *)
(* place is a pair of a position k in Q and of a position j in the flush   *)
(* queue there, or 0 for the request itself.                               *)
Value(Q, F, k, j) == IF j = 0 THEN Q[k] ELSE F[Q[k]][j]
Places(Q, F) == {p \in (1..Len(Q)) \X Nat : p[2] <= Len(F[Q[p[1]]])}
At(Q, F, p) == Value(Q, F, p[1], p[2])
Less(p, q) == p[1] < q[1] \/ (p[1] = q[1] /\ p[2] < q[2])

In(Q, F, x) == \E p \in Places(Q, F) : At(Q, F, p) = x
Unique(Q, F) == \A p, q \in Places(Q, F) : At(Q, F, p) = At(Q, F, q) => p = q
Before(Q, F, x, y) == \A p, q \in Places(Q, F) : At(Q, F, p) = x /\ At(Q, F, q) = y => Less(p, q)

Queues == [Ids -> Seq(Ids)]

(* A place of the queue is a node and a position in it, 0 for the request  *)
(* of the node and the others for its flush queue.                         *)
LEMMA PlacesType ==
  ASSUME NEW Q \in Seq(Ids), NEW F \in Queues, NEW p \in Places(Q, F)
  PROVE  /\ p[1] \in 1..Len(Q) /\ p[2] \in 0..Len(F[Q[p[1]]]) /\ Q[p[1]] \in Ids /\ Len(F[Q[p[1]]]) \in Nat
         /\ p = <<p[1], p[2]>> /\ At(Q, F, p) \in Ids
  <1>1. p \in (1..Len(Q)) \X Nat /\ p[2] <= Len(F[Q[p[1]]])
    BY DEF Places
  <1>2. p[1] \in 1..Len(Q) /\ p[2] \in Nat /\ p = <<p[1], p[2]>>
    BY <1>1
  <1>3. Q[p[1]] \in Ids
    BY <1>2, ElementOfSeq, Zenon
  <1>4. F[Q[p[1]]] \in Seq(Ids)
    BY <1>3 DEF Queues
  <1>5. Len(F[Q[p[1]]]) \in Nat
    BY <1>4, LenProperties, Zenon
  <1>6. At(Q, F, p) \in Ids
    <2>1. CASE p[2] = 0
      BY <2>1, <1>3 DEF At, Value
    <2>2. CASE p[2] # 0
      <3>1. p[2] \in 1..Len(F[Q[p[1]]])
        BY <1>1, <1>2, <1>5, <2>2
      <3>2. F[Q[p[1]]][p[2]] \in Ids
        BY <3>1, <1>4, ElementOfSeq, Zenon
      <3> QED BY <2>2, <3>2 DEF At, Value
    <2> QED BY <2>1, <2>2
  <1> QED BY <1>1, <1>2, <1>3, <1>5, <1>6

(* What is at such a node and position is a place.                         *)
LEMMA PlacesIn ==
  ASSUME NEW Q, NEW F, NEW k \in 1..Len(Q), NEW j \in Nat, j <= Len(F[Q[k]])
  PROVE  <<k, j>> \in Places(Q, F)
  BY DEF Places


(* InsertAt and RemoveAt, element by element. *)
LEMMA InsertAtProperties ==
  ASSUME NEW Q \in Seq(Ids), NEW n \in 1..(Len(Q) + 1), NEW x \in Ids
  PROVE  /\ InsertAt(Q, n, x) \in Seq(Ids) /\ Len(InsertAt(Q, n, x)) = Len(Q) + 1
         /\ \A k \in 1..(Len(Q) + 1) :
               InsertAt(Q, n, x)[k] = IF k < n THEN Q[k] ELSE IF k = n THEN x ELSE Q[k - 1]
  <1> DEFINE A == SubSeq(Q, 1, n - 1)
             B == SubSeq(Q, n, Len(Q))
             C == A \o <<x>>
  <1>0. Len(Q) \in Nat /\ n \in Int
    BY LenProperties
  <1>1. A \in Seq(Ids) /\ Len(A) = n - 1 /\ \A k \in 1..(n - 1) : A[k] = Q[k]
    BY <1>0
  <1>2. B \in Seq(Ids) /\ Len(B) = Len(Q) - n + 1 /\ \A k \in 1..(Len(Q) - n + 1) : B[k] = Q[k + n - 1]
    BY <1>0
  <1> HIDE DEF A, B
  <1>3. C \in Seq(Ids) /\ Len(C) = n /\ C[n] = x /\ \A k \in 1..(n - 1) : C[k] = A[k]
    BY <1>0, <1>1
  <1> HIDE DEF C
  <1>4. /\ C \o B \in Seq(Ids) /\ Len(C \o B) = Len(Q) + 1
        /\ \A k \in 1..(Len(Q) + 1) : (C \o B)[k] = IF k <= n THEN C[k] ELSE B[k - n]
    <2>1. /\ C \o B \in Seq(Ids) /\ Len(C \o B) = Len(C) + Len(B)
          /\ \A k \in 1..Len(C) + Len(B) : (C \o B)[k] = IF k <= Len(C) THEN C[k] ELSE B[k - Len(C)]
      <3>1. C \in Seq(Ids) /\ B \in Seq(Ids)
        BY <1>2, <1>3
      <3> QED BY <3>1, ConcatProperties, Zenon
    <2> QED BY <2>1, <1>0, <1>2, <1>3
  <1>5. InsertAt(Q, n, x) = C \o B
    BY DEF InsertAt, A, B, C
  <1>6. ASSUME NEW k \in 1..(Len(Q) + 1)
        PROVE  (C \o B)[k] = IF k < n THEN Q[k] ELSE IF k = n THEN x ELSE Q[k - 1]
    <2>1. CASE k < n
      BY <1>0, <1>1, <1>3, <1>4, <2>1
    <2>2. CASE k = n
      BY <1>0, <1>3, <1>4, <2>2
    <2>3. CASE k > n
      <3>1. k - n \in 1..(Len(Q) - n + 1) /\ (k - n) + n - 1 = k - 1 /\ ~(k <= n)
        BY <1>0, <2>3
      <3>2. B[k - n] = Q[k - 1]
        BY <1>2, <3>1
      <3>3. (C \o B)[k] = B[k - n]
        BY <1>4, <3>1
      <3> QED BY <3>2, <3>3, <2>3, <1>0
    <2>4. k < n \/ k = n \/ k > n
      BY <1>0
    <2> QED BY ONLY <2>1, <2>2, <2>3, <2>4
  <1> QED BY <1>4, <1>5, <1>6

(* zbx_list_iterator_remove: the queue without its n-th node.              *)
LEMMA RemoveAtProperties ==
  ASSUME NEW Q \in Seq(Ids), NEW n \in 1..Len(Q)
  PROVE  /\ RemoveAt(Q, n) \in Seq(Ids) /\ Len(RemoveAt(Q, n)) = Len(Q) - 1
         /\ \A k \in 1..(Len(Q) - 1) : RemoveAt(Q, n)[k] = IF k < n THEN Q[k] ELSE Q[k + 1]
  <1> DEFINE A == SubSeq(Q, 1, n - 1)
             B == SubSeq(Q, n + 1, Len(Q))
  <1>0. Len(Q) \in Nat /\ n \in Int
    BY LenProperties
  <1>1. A \in Seq(Ids) /\ Len(A) = n - 1 /\ \A k \in 1..(n - 1) : A[k] = Q[k]
    BY <1>0
  <1>2. B \in Seq(Ids) /\ Len(B) = Len(Q) - n /\ \A k \in 1..(Len(Q) - n) : B[k] = Q[k + n]
    BY <1>0
  <1> HIDE DEF A, B
  <1>3. /\ A \o B \in Seq(Ids) /\ Len(A \o B) = Len(Q) - 1
        /\ \A k \in 1..(Len(Q) - 1) : (A \o B)[k] = IF k <= n - 1 THEN A[k] ELSE B[k - (n - 1)]
    <2>1. /\ A \o B \in Seq(Ids) /\ Len(A \o B) = Len(A) + Len(B)
          /\ \A k \in 1..Len(A) + Len(B) : (A \o B)[k] = IF k <= Len(A) THEN A[k] ELSE B[k - Len(A)]
      <3>1. A \in Seq(Ids) /\ B \in Seq(Ids)
        BY <1>1, <1>2
      <3> QED BY <3>1, ConcatProperties, Zenon
    <2> QED BY <2>1, <1>0, <1>1, <1>2
  <1>4. RemoveAt(Q, n) = A \o B
    BY DEF RemoveAt, A, B
  <1>5. ASSUME NEW k \in 1..(Len(Q) - 1) PROVE (A \o B)[k] = IF k < n THEN Q[k] ELSE Q[k + 1]
    <2>1. CASE k < n
      BY <1>0, <1>1, <1>3, <2>1
    <2>2. CASE ~(k < n)
      <3>1. k - (n - 1) \in 1..(Len(Q) - n) /\ (k - (n - 1)) + n = k + 1 /\ ~(k <= n - 1)
        BY <1>0, <2>2
      <3>2. B[k - (n - 1)] = Q[k + 1]
        BY <1>2, <3>1
      <3>3. (A \o B)[k] = B[k - (n - 1)]
        BY <1>3, <3>1
      <3> QED BY <3>2, <3>3, <2>2
    <2> QED BY <2>1, <2>2
  <1> QED BY <1>3, <1>4, <1>5


(* Places that keep their order keep what is said about them. *)
LEMMA PlacesKept ==
  ASSUME NEW Q, NEW F, NEW R, NEW G, NEW old,
         \A p \in Places(R, G) : old[p] \in Places(Q, F) /\ At(Q, F, old[p]) = At(R, G, p),
         \A p, q \in Places(R, G) : old[p] = old[q] => p = q,
         \A p, q \in Places(R, G) : Less(old[p], old[q]) => Less(p, q),
         \A q \in Places(Q, F) : \E p \in Places(R, G) : old[p] = q
  PROVE  /\ \A x : In(R, G, x) <=> In(Q, F, x)
         /\ Unique(Q, F) => Unique(R, G)
         /\ \A x, y : Before(Q, F, x, y) => Before(R, G, x, y)
  <1>1. ASSUME NEW x, In(R, G, x) PROVE In(Q, F, x)
    BY <1>1 DEF In
  <1>2. ASSUME NEW x, In(Q, F, x) PROVE In(R, G, x)
    <2>1. PICK q \in Places(Q, F) : At(Q, F, q) = x
      BY <1>2 DEF In
    <2>2. PICK p \in Places(R, G) : old[p] = q
      OBVIOUS
    <2>3. At(R, G, p) = x
      BY <2>1, <2>2
    <2> QED BY <2>3 DEF In
  <1>3. ASSUME Unique(Q, F) PROVE Unique(R, G)
    <2> SUFFICES ASSUME NEW p \in Places(R, G), NEW q \in Places(R, G), At(R, G, p) = At(R, G, q)
                 PROVE  p = q
      BY DEF Unique
    <2>1. old[p] = old[q]
      BY <1>3 DEF Unique
    <2> QED BY <2>1
  <1>4. ASSUME NEW x, NEW y, Before(Q, F, x, y) PROVE Before(R, G, x, y)
    <2> SUFFICES ASSUME NEW p \in Places(R, G), NEW q \in Places(R, G), At(R, G, p) = x, At(R, G, q) = y
                 PROVE  Less(p, q)
      BY DEF Before
    <2>1. Less(old[p], old[q])
      BY <1>4 DEF Before
    <2> QED BY <2>1
  <1> QED BY <1>1, <1>2, <1>3, <1>4

(* Arithmetic of the positions in a flush queue that has received a value  *)
(* and the flush queue of that value.                                      *)
LEMMA PlaceArithmetic ==
  /\ \A a, b, c \in Nat : a - b - 1 \in Nat /\ a - b - 1 <= c /\ a # b + 1
        => a - b - 1 \in 1..c /\ b + 1 + (a - b - 1) = a
  /\ \A a, b, c \in Nat : b <= c
        => a + 1 + b \in Nat /\ a + 1 + b <= a + 1 + c /\ ~(a + 1 + b <= a) /\ (a + 1 + b) - a - 1 = b
  OBVIOUS

(* A request moves, with its flush queue, to the end of the flush queue of *)
(* the request before it: the values keep their order.                     *)
LEMMA MergePlaces ==
  ASSUME NEW Q \in Seq(Ids), NEW F \in Queues, NEW G \in Queues, NEW n \in 1..Len(Q), n # 1, Unique(Q, F),
         G[Q[n - 1]] = F[Q[n - 1]] \o <<Q[n]>> \o F[Q[n]],
         \A x \in Ids : x # Q[n - 1] => G[x] = F[x]
  PROVE  LET R == RemoveAt(Q, n)
         IN  /\ \A x : In(R, G, x) <=> In(Q, F, x)
             /\ Unique(R, G)
             /\ \A x, y : Before(Q, F, x, y) => Before(R, G, x, y)
  <1> DEFINE R == RemoveAt(Q, n)
             L == Len(F[Q[n - 1]])
             M == Len(F[Q[n]])
             Old(p) == IF p[1] < n - 1 \/ (p[1] = n - 1 /\ p[2] <= L) THEN p
                       ELSE IF p[1] = n - 1 THEN <<n, p[2] - L - 1>> ELSE <<p[1] + 1, p[2]>>
             old == [p \in Places(R, G) |-> Old(p)]
  <1>1. /\ Len(Q) \in Nat /\ n \in Nat /\ n - 1 \in 1..Len(Q) /\ n > 1 /\ n <= Len(Q)
        /\ \A k \in 1..Len(Q) : Q[k] \in Ids
    BY LenProperties
  <1>2. /\ R \in Seq(Ids) /\ Len(R) = Len(Q) - 1
        /\ \A k \in 1..(Len(Q) - 1) : R[k] = IF k < n THEN Q[k] ELSE Q[k + 1]
    BY RemoveAtProperties
  <1>3. \A k \in 1..Len(Q) : F[Q[k]] \in Seq(Ids) /\ Len(F[Q[k]]) \in Nat /\ G[Q[k]] \in Seq(Ids)
    BY <1>1 DEF Queues
  <1>4. \A k, l \in 1..Len(Q) : Q[k] = Q[l] => k = l
    <2> SUFFICES ASSUME NEW k \in 1..Len(Q), NEW l \in 1..Len(Q), Q[k] = Q[l] PROVE k = l
      OBVIOUS
    <2>1. <<k, 0>> \in Places(Q, F) /\ <<l, 0>> \in Places(Q, F)
      BY <1>3 DEF Places
    <2>2. At(Q, F, <<k, 0>>) = At(Q, F, <<l, 0>>)
      BY DEF At, Value
    <2>3. <<k, 0>> = <<l, 0>>
      BY <2>1, <2>2, Zenon DEF Unique
    <2> QED BY <2>3
  <1>5. /\ L \in Nat /\ M \in Nat /\ Len(G[Q[n - 1]]) = L + 1 + M
        /\ \A j \in 1..L : G[Q[n - 1]][j] = F[Q[n - 1]][j]
        /\ G[Q[n - 1]][L + 1] = Q[n]
        /\ \A j \in 1..M : G[Q[n - 1]][L + 1 + j] = F[Q[n]][j]
    <2> DEFINE a == F[Q[n - 1]]
               b == F[Q[n]]
               x == Q[n]
    <2>1. a \in Seq(Ids) /\ b \in Seq(Ids) /\ x \in Ids
      BY <1>1, <1>3
    <2>2. G[Q[n - 1]] = a \o <<x>> \o b
      OBVIOUS
    <2> HIDE DEF a, b, x
    <2>3. a \o <<x>> \in Seq(Ids) /\ Len(a \o <<x>>) = Len(a) + 1 /\ Len(a) \in Nat /\ Len(b) \in Nat
          /\ (\A j \in 1..Len(a) : (a \o <<x>>)[j] = a[j]) /\ (a \o <<x>>)[Len(a) + 1] = x
      BY <2>1
    <2> DEFINE c == a \o <<x>>
    <2> HIDE DEF c
    <2>4. /\ Len(c \o b) = Len(c) + Len(b)
          /\ \A j \in 1..(Len(c) + Len(b)) : (c \o b)[j] = IF j <= Len(c) THEN c[j] ELSE b[j - Len(c)]
      BY <2>1, <2>3 DEF c
    <2>5. c \in Seq(Ids) /\ Len(c) = Len(a) + 1 /\ (\A j \in 1..Len(a) : c[j] = a[j]) /\ c[Len(a) + 1] = x
      BY <2>3 DEF c
    <2>6. Len(c \o b) = Len(a) + 1 + Len(b)
      BY <2>3, <2>4, <2>5
    <2>7. \A j \in 1..Len(a) : (c \o b)[j] = a[j]
      BY <2>3, <2>4, <2>5
    <2>8. (c \o b)[Len(a) + 1] = x
      BY <2>3, <2>4, <2>5
    <2>9. ASSUME NEW j \in 1..Len(b) PROVE (c \o b)[Len(a) + 1 + j] = b[j]
      <3>1. Len(a) + 1 + j \in 1..(Len(c) + Len(b)) /\ ~(Len(a) + 1 + j <= Len(c))
            /\ Len(a) + 1 + j - Len(c) = j
        BY <2>3, <2>5
      <3> QED BY <2>4, <3>1
    <2>10. G[Q[n - 1]] = c \o b
      BY <2>2 DEF c
    <2> HIDE DEF c
    <2>11. /\ Len(a) \in Nat /\ Len(b) \in Nat /\ Len(G[Q[n - 1]]) = Len(a) + 1 + Len(b)
           /\ \A j \in 1..Len(a) : G[Q[n - 1]][j] = a[j]
           /\ G[Q[n - 1]][Len(a) + 1] = x
           /\ \A j \in 1..Len(b) : G[Q[n - 1]][Len(a) + 1 + j] = b[j]
      BY <2>3, <2>6, <2>7, <2>8, <2>9, <2>10
    <2> QED BY <2>11 DEF a, b, x
  <1> HIDE DEF R, L, M
  <1>15. L \in Nat /\ M \in Nat /\ Len(G[Q[n - 1]]) = L + 1 + M
    BY ONLY <1>5
  <1>16. n \in Int /\ Len(Q) \in Int
    BY <1>1
  <1>6. ASSUME NEW p \in Places(R, G)
        PROVE  /\ p = <<p[1], p[2]>> /\ p[1] \in 1..(Len(Q) - 1) /\ p[2] \in Nat
               /\ p[1] = n - 1 => p[2] <= L + 1 + M
               /\ p[1] # n - 1 => p[2] <= Len(F[Q[IF p[1] < n THEN p[1] ELSE p[1] + 1]])
    <2>1. p = <<p[1], p[2]>> /\ p[1] \in 1..(Len(Q) - 1) /\ p[2] \in Nat /\ p[2] <= Len(G[R[p[1]]])
      BY <1>2 DEF Places
    <2>2. CASE p[1] = n - 1
      <3>1. R[p[1]] = Q[n - 1]
        BY <1>1, <1>2, <2>1, <2>2
      <3> QED BY <2>1, <2>2, <3>1, <1>5
    <2>3. CASE p[1] # n - 1
      <3> DEFINE k == IF p[1] < n THEN p[1] ELSE p[1] + 1
      <3>1. k \in 1..Len(Q) /\ k # n - 1 /\ R[p[1]] = Q[k]
        BY <1>1, <1>2, <2>1, <2>3
      <3> HIDE DEF k
      <3>2. Q[k] # Q[n - 1] /\ Q[k] \in Ids
        BY <1>1, <1>4, <3>1
      <3>3. G[R[p[1]]] = F[Q[k]]
        BY <3>1, <3>2
      <3>4. p[2] <= Len(F[Q[k]])
        BY <2>1, <3>3
      <3> QED BY <2>1, <2>3, <3>4 DEF k
    <2> QED BY <2>2, <2>3
  <1>7. ASSUME NEW p \in Places(R, G)
        PROVE  Old(p) \in Places(Q, F) /\ At(Q, F, Old(p)) = At(R, G, p)
    <2>1. /\ p = <<p[1], p[2]>> /\ p[1] \in 1..(Len(Q) - 1) /\ p[2] \in Nat
          /\ p[1] = n - 1 => p[2] <= L + 1 + M
          /\ p[1] # n - 1 => p[2] <= Len(F[Q[IF p[1] < n THEN p[1] ELSE p[1] + 1]])
      BY <1>6
    <2>2. CASE p[1] < n - 1
      <3>1. p[1] < n /\ p[1] # n - 1 /\ p[1] \in 1..Len(Q) /\ Old(p) = p
        BY <1>1, <2>1, <2>2
      <3>2. R[p[1]] = Q[p[1]] /\ p[2] <= Len(F[Q[p[1]]]) /\ Q[p[1]] # Q[n - 1] /\ Q[p[1]] \in Ids
        BY <1>1, <1>2, <1>4, <2>1, <3>1
      <3>3. G[Q[p[1]]] = F[Q[p[1]]]
        BY <3>2
      <3>4. p \in Places(Q, F)
        BY <2>1, <3>1, <3>2 DEF Places
      <3> QED BY <3>1, <3>2, <3>3, <3>4 DEF At, Value
    <2>3. CASE p[1] = n - 1 /\ p[2] <= L
      <3>1. Old(p) = p /\ R[p[1]] = Q[n - 1] /\ p[1] \in 1..Len(Q)
        BY <1>1, <1>2, <2>1, <2>3
      <3>2. p \in Places(Q, F)
        BY <2>1, <2>3, <3>1 DEF Places, L
      <3>3. p[2] # 0 => G[Q[n - 1]][p[2]] = F[Q[n - 1]][p[2]]
        <4>1. p[2] # 0 => p[2] \in 1..L
          BY <1>15, <2>1, <2>3
        <4> QED BY <1>5, <4>1
      <3>4. At(Q, F, p) = IF p[2] = 0 THEN Q[n - 1] ELSE F[Q[n - 1]][p[2]]
        BY <2>3 DEF At, Value
      <3>5. At(R, G, p) = IF p[2] = 0 THEN Q[n - 1] ELSE G[Q[n - 1]][p[2]]
        BY <3>1 DEF At, Value
      <3> HIDE DEF Old
      <3> QED BY <3>1, <3>2, <3>3, <3>4, <3>5
    <2>4. CASE p[1] = n - 1 /\ ~(p[2] <= L)
      <3>1. Old(p) = <<n, p[2] - L - 1>> /\ R[p[1]] = Q[n - 1]
        BY <1>1, <1>2, <2>1, <2>4
      <3>2. p[2] - L - 1 \in Nat /\ p[2] - L - 1 <= M /\ p[2] # 0
        BY <1>5, <2>1, <2>4
      <3>3. <<n, p[2] - L - 1>> \in Places(Q, F)
        BY <3>2, <1>1 DEF Places, M
      <3> DEFINE o == <<n, p[2] - L - 1>>
      <3>6. At(Q, F, o) = IF p[2] - L - 1 = 0 THEN Q[n] ELSE F[Q[n]][p[2] - L - 1]
        BY DEF At, Value
      <3>7. At(R, G, p) = G[Q[n - 1]][p[2]]
        BY <3>1, <3>2 DEF At, Value
      <3>8. Old(p) = o /\ o \in Places(Q, F)
        BY <3>1, <3>3
      <3> HIDE DEF o, Old
      <3>4. CASE p[2] = L + 1
        <4>1. p[2] - L - 1 = 0
          BY <3>4, <1>5
        <4>2. G[Q[n - 1]][p[2]] = Q[n]
          BY <3>4, <1>5
        <4> QED BY <3>6, <3>7, <3>8, <4>1, <4>2
      <3>5. CASE p[2] # L + 1
        <4>0. p[2] \in Nat
          BY <2>1
        <4>1. p[2] - L - 1 \in 1..M /\ L + 1 + (p[2] - L - 1) = p[2]
          BY <3>2, <3>5, <1>15, <4>0, PlaceArithmetic
        <4>2. G[Q[n - 1]][p[2]] = F[Q[n]][p[2] - L - 1]
          BY <4>1, <1>5
        <4>3. p[2] - L - 1 # 0
          BY <4>1
        <4> QED BY <3>6, <3>7, <3>8, <4>2, <4>3
      <3> QED BY <3>4, <3>5
    <2>5. CASE p[1] > n - 1
      <3>1. ~(p[1] < n) /\ p[1] # n - 1 /\ p[1] + 1 \in 1..Len(Q) /\ Old(p) = <<p[1] + 1, p[2]>>
        BY <1>1, <2>1, <2>5
      <3>2. R[p[1]] = Q[p[1] + 1] /\ p[2] <= Len(F[Q[p[1] + 1]]) /\ Q[p[1] + 1] \in Ids
        BY <1>1, <1>2, <2>1, <3>1
      <3>3. Q[p[1] + 1] # Q[n - 1]
        <4>1. p[1] + 1 # n - 1
          BY <1>1, <2>1, <2>5
        <4> QED BY <4>1, <3>1, <1>1, <1>4
      <3>4. G[Q[p[1] + 1]] = F[Q[p[1] + 1]]
        BY <3>2, <3>3
      <3>5. <<p[1] + 1, p[2]>> \in Places(Q, F)
        BY <2>1, <3>1, <3>2 DEF Places
      <3>6. At(Q, F, <<p[1] + 1, p[2]>>) = At(R, G, p)
        BY <3>2, <3>4 DEF At, Value
      <3> QED BY <3>1, <3>5, <3>6
    <2>6. p[1] < n - 1 \/ p[1] = n - 1 \/ p[1] > n - 1
      BY <1>1, <2>1
    <2> QED BY <2>2, <2>3, <2>4, <2>5, <2>6
  <1>8. ASSUME NEW p \in Places(R, G), NEW q \in Places(R, G)
        PROVE  (Old(p) = Old(q) => p = q) /\ (Less(Old(p), Old(q)) => Less(p, q))
    <2>1. /\ p = <<p[1], p[2]>> /\ p[1] \in Int /\ p[2] \in Int
          /\ q = <<q[1], q[2]>> /\ q[1] \in Int /\ q[2] \in Int
      BY <1>6
    <2>2. p[1] = q[1] /\ p[2] = q[2] => p = q
      BY <2>1
    <2>3. Old(p)[1] = (IF p[1] < n - 1 \/ (p[1] = n - 1 /\ p[2] <= L) THEN p[1]
                       ELSE IF p[1] = n - 1 THEN n ELSE p[1] + 1)
      OBVIOUS
    <2>4. Old(p)[2] = (IF p[1] < n - 1 \/ (p[1] = n - 1 /\ p[2] <= L) THEN p[2]
                       ELSE IF p[1] = n - 1 THEN p[2] - L - 1 ELSE p[2])
      OBVIOUS
    <2>5. Old(q)[1] = (IF q[1] < n - 1 \/ (q[1] = n - 1 /\ q[2] <= L) THEN q[1]
                       ELSE IF q[1] = n - 1 THEN n ELSE q[1] + 1)
      OBVIOUS
    <2>6. Old(q)[2] = (IF q[1] < n - 1 \/ (q[1] = n - 1 /\ q[2] <= L) THEN q[2]
                       ELSE IF q[1] = n - 1 THEN q[2] - L - 1 ELSE q[2])
      OBVIOUS
    <2> HIDE DEF Old
    <2>7. Old(p)[1] = Old(q)[1] /\ Old(p)[2] = Old(q)[2] => p[1] = q[1] /\ p[2] = q[2]
      BY <1>15, <1>16, <2>1, <2>3, <2>4, <2>5, <2>6
    <2>8. Less(Old(p), Old(q)) => Less(p, q)
      BY <1>15, <1>16, <2>1, <2>3, <2>4, <2>5, <2>6 DEF Less
    <2> QED BY <2>2, <2>7, <2>8
  <1>9. ASSUME NEW q \in Places(Q, F) PROVE \E p \in Places(R, G) : Old(p) = q
    <2>1. q = <<q[1], q[2]>> /\ q[1] \in 1..Len(Q) /\ q[2] \in Nat /\ q[2] <= Len(F[Q[q[1]]])
      BY DEF Places
    <2>2. ASSUME NEW k \in 1..(Len(Q) - 1), NEW j \in Nat, j <= Len(G[R[k]]) PROVE <<k, j>> \in Places(R, G)
      BY <2>2, <1>2 DEF Places
    <2>3. CASE q[1] < n - 1
      <3>1. q[1] \in 1..(Len(Q) - 1) /\ R[q[1]] = Q[q[1]]
        BY <1>1, <1>2, <2>1, <2>3
      <3>2. Q[q[1]] # Q[n - 1] /\ Q[q[1]] \in Ids
        <4>1. q[1] # n - 1
          BY <1>1, <2>1, <2>3
        <4> QED BY <4>1, <1>1, <1>4, <2>1
      <3>3. <<q[1], q[2]>> \in Places(R, G)
        BY <2>1, <2>2, <3>1, <3>2
      <3>4. Old(q) = q
        BY <2>3
      <3> QED BY <2>1, <3>3, <3>4
    <2>4. CASE q[1] = n - 1
      <3>1. q[1] \in 1..(Len(Q) - 1) /\ R[q[1]] = Q[n - 1] /\ q[2] <= L
        BY <1>1, <1>2, <2>1, <2>4 DEF L
      <3>5. Len(G[R[q[1]]]) = L + 1 + M
        BY <1>15, <3>1
      <3>2. q[2] <= Len(G[R[q[1]]])
        BY <1>15, <2>1, <3>1, <3>5
      <3>3. <<q[1], q[2]>> \in Places(R, G)
        BY <2>1, <2>2, <3>1, <3>2
      <3>4. Old(q) = q
        BY <2>4, <3>1
      <3> QED BY <2>1, <3>3, <3>4
    <2>5. CASE q[1] = n
      <3>1. n - 1 \in 1..(Len(Q) - 1) /\ R[n - 1] = Q[n - 1] /\ q[2] <= M
        BY <1>1, <1>2, <2>1, <2>5 DEF M
      <3>5. Len(G[R[n - 1]]) = L + 1 + M /\ q[2] \in Nat /\ q[2] <= M
        BY <1>15, <2>1, <3>1
      <3>2. L + 1 + q[2] \in Nat /\ L + 1 + q[2] <= Len(G[R[n - 1]]) /\ ~(L + 1 + q[2] <= L)
            /\ (L + 1 + q[2]) - L - 1 = q[2]
        <4>1. L \in Nat /\ M \in Nat /\ q[2] \in Nat /\ q[2] <= M
          BY <1>15, <3>5
        <4>2. L + 1 + q[2] \in Nat /\ ~(L + 1 + q[2] <= L) /\ L + 1 + q[2] <= L + 1 + M
          BY <4>1
        <4>3. (L + 1 + q[2]) - L - 1 = q[2]
          BY <4>1
        <4> QED BY <3>5, <4>2, <4>3
      <3>3. <<n - 1, L + 1 + q[2]>> \in Places(R, G)
        BY <2>2, <3>1, <3>2
      <3>4. Old(<<n - 1, L + 1 + q[2]>>) = <<n, q[2]>>
        <4> DEFINE p == <<n - 1, L + 1 + q[2]>>
        <4>1. p[1] = n - 1 /\ p[2] = L + 1 + q[2] /\ ~(p[1] < n - 1) /\ ~(p[2] <= L) /\ p[2] - L - 1 = q[2]
          BY <1>15, <1>16, <3>2, <3>5
        <4> HIDE DEF p
        <4>2. Old(p) = <<n, p[2] - L - 1>>
          BY <4>1
        <4> QED BY <4>1, <4>2 DEF p
      <3> QED BY <3>3, <3>4, <2>1, <2>5
    <2>6. CASE q[1] > n
      <3>1. q[1] - 1 \in 1..(Len(Q) - 1) /\ R[q[1] - 1] = Q[q[1]] /\ ~(q[1] - 1 < n - 1) /\ q[1] - 1 # n - 1
            /\ (q[1] - 1) + 1 = q[1]
        BY <1>1, <1>2, <2>1, <2>6
      <3>2. Q[q[1]] # Q[n - 1] /\ Q[q[1]] \in Ids
        <4>1. q[1] # n - 1
          BY <1>1, <2>1, <2>6
        <4> QED BY <4>1, <1>1, <1>4, <2>1
      <3>3. <<q[1] - 1, q[2]>> \in Places(R, G)
        BY <2>1, <2>2, <3>1, <3>2
      <3>4. Old(<<q[1] - 1, q[2]>>) = <<q[1], q[2]>>
        <4> DEFINE p == <<q[1] - 1, q[2]>>
        <4>1. p[1] = q[1] - 1 /\ p[2] = q[2] /\ ~(p[1] < n - 1) /\ p[1] # n - 1 /\ p[1] + 1 = q[1]
          BY <3>1
        <4> HIDE DEF p
        <4>2. Old(p) = <<p[1] + 1, p[2]>>
          BY <4>1
        <4> QED BY <4>1, <4>2 DEF p
      <3> QED BY <3>3, <3>4, <2>1
    <2>7. q[1] < n - 1 \/ q[1] = n - 1 \/ q[1] = n \/ q[1] > n
      BY <1>1, <2>1
    <2> QED BY <2>3, <2>4, <2>5, <2>6, <2>7
  <1> HIDE DEF Old
  <1>10. \A p \in Places(R, G) : old[p] \in Places(Q, F) /\ At(Q, F, old[p]) = At(R, G, p)
    BY <1>7
  <1>11. \A p, q \in Places(R, G) : old[p] = old[q] => p = q
    BY <1>8
  <1>12. \A p, q \in Places(R, G) : Less(old[p], old[q]) => Less(p, q)
    BY <1>8
  <1>13. \A q \in Places(Q, F) : \E p \in Places(R, G) : old[p] = q
    BY <1>9
  <1> HIDE DEF old
  <1>14. /\ \A x : In(R, G, x) <=> In(Q, F, x)
         /\ Unique(Q, F) => Unique(R, G)
         /\ \A x, y : Before(Q, F, x, y) => Before(R, G, x, y)
    BY ONLY <1>10, <1>11, <1>12, <1>13, PlacesKept
  <1> QED BY <1>14, Zenon DEF R


(* A request with an empty flush queue is inserted: the others keep their  *)
(* order, and it comes after every value of the requests in front of it.   *)
LEMMA InsertPlaces ==
  ASSUME NEW Q \in Seq(Ids), NEW F \in Queues, NEW G \in Queues, NEW n \in 1..(Len(Q) + 1), NEW x \in Ids,
         F[x] = <<>>, ~In(Q, F, x), \A y \in Ids : G[y] = F[y]
  PROVE  LET R == InsertAt(Q, n, x)
         IN  /\ \A y : In(R, G, y) <=> In(Q, F, y) \/ y = x
             /\ Unique(Q, F) => Unique(R, G)
             /\ \A y, z : y # x /\ z # x /\ Before(Q, F, y, z) => Before(R, G, y, z)
             /\ \A y : y # x /\ (\A p \in Places(Q, F) : At(Q, F, p) = y => p[1] < n) => Before(R, G, y, x)
  <1> DEFINE R == InsertAt(Q, n, x)
             Old(p) == IF p[1] < n THEN p ELSE <<p[1] - 1, p[2]>>
             New(q) == IF q[1] < n THEN q ELSE <<q[1] + 1, q[2]>>
             o == <<n, 0>>
  <1>1. Len(Q) \in Nat /\ n \in Nat /\ n > 0 /\ n <= Len(Q) + 1 /\ \A k \in 1..Len(Q) : Q[k] \in Ids
    BY LenProperties
  <1>2. /\ R \in Seq(Ids) /\ Len(R) = Len(Q) + 1
        /\ \A k \in 1..(Len(Q) + 1) : R[k] = IF k < n THEN Q[k] ELSE IF k = n THEN x ELSE Q[k - 1]
    BY InsertAtProperties
  <1> HIDE DEF R
  <1>3. o \in Places(R, G) /\ At(R, G, o) = x /\ \A p \in Places(R, G) : p[1] = n => p = o
    <2>1. R[n] = x /\ n \in 1..Len(R) /\ G[x] = <<>>
      BY <1>1, <1>2
    <2>2. o \in Places(R, G)
      BY <2>1 DEF Places
    <2>3. At(R, G, o) = x
      BY <2>1 DEF At, Value
    <2>4. ASSUME NEW p \in Places(R, G), p[1] = n PROVE p = o
      <3>1. p = <<p[1], p[2]>> /\ p[2] \in Nat /\ p[2] <= Len(G[R[p[1]]])
        BY DEF Places
      <3>2. Len(G[R[p[1]]]) = 0
        BY <2>1, <2>4
      <3>3. p[2] = 0
        BY <3>1, <3>2
      <3> QED BY <2>4, <3>1, <3>3
    <2> QED BY <2>2, <2>3, <2>4
  <1>4. ASSUME NEW p \in Places(R, G), p # o
        PROVE  /\ Old(p) \in Places(Q, F) /\ At(Q, F, Old(p)) = At(R, G, p)
               /\ p = <<p[1], p[2]>> /\ p[1] \in Int /\ p[2] \in Int /\ p[1] # n
    <2>1. p = <<p[1], p[2]>> /\ p[1] \in 1..(Len(Q) + 1) /\ p[2] \in Nat /\ p[2] <= Len(G[R[p[1]]]) /\ p[1] # n
      BY <1>2, <1>3, <1>4 DEF Places
    <2>2. CASE p[1] < n
      <3>1. R[p[1]] = Q[p[1]] /\ p[1] \in 1..Len(Q) /\ Old(p) = p
        BY <1>1, <1>2, <2>1, <2>2
      <3>2. G[Q[p[1]]] = F[Q[p[1]]]
        BY <1>1, <3>1
      <3>3. p \in Places(Q, F)
        BY <2>1, <3>1, <3>2 DEF Places
      <3>4. At(Q, F, p) = At(R, G, p)
        BY <3>1, <3>2 DEF At, Value
      <3> QED BY <2>1, <3>1, <3>3, <3>4
    <2>3. CASE p[1] > n
      <3>1. R[p[1]] = Q[p[1] - 1] /\ p[1] - 1 \in 1..Len(Q) /\ ~(p[1] < n)
        BY <1>1, <1>2, <2>1, <2>3
      <3>2. G[Q[p[1] - 1]] = F[Q[p[1] - 1]]
        BY <1>1, <3>1
      <3>3. <<p[1] - 1, p[2]>> \in Places(Q, F)
        BY <2>1, <3>1, <3>2 DEF Places
      <3>4. At(Q, F, <<p[1] - 1, p[2]>>) = At(R, G, p)
        BY <3>1, <3>2 DEF At, Value
      <3>5. Old(p) = <<p[1] - 1, p[2]>>
        BY <3>1
      <3> QED BY <2>1, <3>3, <3>4, <3>5
    <2>4. p[1] < n \/ p[1] > n
      BY <1>1, <2>1
    <2> QED BY <2>2, <2>3, <2>4
  <1>5. ASSUME NEW q \in Places(Q, F) PROVE New(q) \in Places(R, G) /\ At(R, G, New(q)) = At(Q, F, q)
    <2>1. q = <<q[1], q[2]>> /\ q[1] \in 1..Len(Q) /\ q[2] \in Nat /\ q[2] <= Len(F[Q[q[1]]])
      BY DEF Places
    <2>2. G[Q[q[1]]] = F[Q[q[1]]]
      BY <1>1, <2>1
    <2>3. CASE q[1] < n
      <3>1. R[q[1]] = Q[q[1]] /\ q[1] \in 1..Len(R) /\ New(q) = q
        BY <1>1, <1>2, <2>1, <2>3
      <3>2. q \in Places(R, G)
        BY <2>1, <2>2, <3>1 DEF Places
      <3>3. At(R, G, q) = At(Q, F, q)
        BY <2>2, <3>1 DEF At, Value
      <3> QED BY <3>1, <3>2, <3>3
    <2>4. CASE ~(q[1] < n)
      <3>1. R[q[1] + 1] = Q[q[1]] /\ q[1] + 1 \in 1..Len(R)
        <4>1. q[1] + 1 \in 1..(Len(Q) + 1) /\ ~(q[1] + 1 < n) /\ q[1] + 1 # n /\ (q[1] + 1) - 1 = q[1]
          BY <1>1, <2>1, <2>4
        <4> QED BY <1>2, <4>1
      <3>2. <<q[1] + 1, q[2]>> \in Places(R, G)
        BY <2>1, <2>2, <3>1 DEF Places
      <3>3. At(R, G, <<q[1] + 1, q[2]>>) = At(Q, F, q)
        BY <2>2, <3>1 DEF At, Value
      <3>4. New(q) = <<q[1] + 1, q[2]>>
        BY <2>4
      <3> QED BY <3>2, <3>3, <3>4
    <2> QED BY <2>3, <2>4
  <1>6. ASSUME NEW p \in Places(R, G), NEW q \in Places(R, G), p # o, q # o
        PROVE  (Old(p) = Old(q) => p = q) /\ (Less(Old(p), Old(q)) => Less(p, q))
    <2>1. /\ p = <<p[1], p[2]>> /\ p[1] \in Int /\ p[2] \in Int /\ p[1] # n
          /\ q = <<q[1], q[2]>> /\ q[1] \in Int /\ q[2] \in Int /\ q[1] # n
      BY <1>4, <1>6
    <2>2. p[1] = q[1] /\ p[2] = q[2] => p = q
      BY <2>1
    <2>3. /\ Old(p)[1] = (IF p[1] < n THEN p[1] ELSE p[1] - 1) /\ Old(p)[2] = p[2]
          /\ Old(q)[1] = (IF q[1] < n THEN q[1] ELSE q[1] - 1) /\ Old(q)[2] = q[2]
      OBVIOUS
    <2> HIDE DEF Old
    <2>4. Old(p)[1] = Old(q)[1] /\ Old(p)[2] = Old(q)[2] => p[1] = q[1] /\ p[2] = q[2]
      BY <1>1, <2>1, <2>3
    <2>5. Less(Old(p), Old(q)) => Less(p, q)
      BY <1>1, <2>1, <2>3 DEF Less
    <2> QED BY <2>2, <2>4, <2>5
  <1> HIDE DEF Old, New, o
  <1>7. \A q \in Places(Q, F) : At(Q, F, q) # x
    BY DEF In
  <1>8. ASSUME NEW p \in Places(R, G), At(R, G, p) # x PROVE p # o
    BY <1>3, <1>8
  <1>9. ASSUME NEW y PROVE In(R, G, y) <=> In(Q, F, y) \/ y = x
    <2>1. ASSUME In(R, G, y), y # x PROVE In(Q, F, y)
      <3>1. PICK p \in Places(R, G) : At(R, G, p) = y
        BY <2>1 DEF In
      <3>2. Old(p) \in Places(Q, F) /\ At(Q, F, Old(p)) = y
        BY <1>4, <1>8, <2>1, <3>1
      <3> QED BY <3>2 DEF In
    <2>2. ASSUME In(Q, F, y) PROVE In(R, G, y)
      <3>1. PICK q \in Places(Q, F) : At(Q, F, q) = y
        BY <2>2 DEF In
      <3>2. New(q) \in Places(R, G) /\ At(R, G, New(q)) = y
        BY <1>5, <3>1
      <3> QED BY <3>2 DEF In
    <2>3. In(R, G, x)
      BY <1>3 DEF In
    <2> QED BY <2>1, <2>2, <2>3
  <1>10. ASSUME Unique(Q, F) PROVE Unique(R, G)
    <2> SUFFICES ASSUME NEW p \in Places(R, G), NEW q \in Places(R, G), At(R, G, p) = At(R, G, q)
                 PROVE  p = q
      BY DEF Unique
    <2>1. CASE At(R, G, p) = x
      <3>1. ASSUME NEW r \in Places(R, G), At(R, G, r) = x PROVE r = o
        BY <1>4, <1>7, <3>1
      <3> QED BY <2>1, <3>1
    <2>2. CASE At(R, G, p) # x
      <3>1. p # o /\ q # o
        BY <1>8, <2>2
      <3>2. Old(p) = Old(q)
        BY <1>4, <1>10, <3>1 DEF Unique
      <3> QED BY <1>6, <3>1, <3>2
    <2> QED BY <2>1, <2>2
  <1>11. ASSUME NEW y, NEW z, y # x, z # x, Before(Q, F, y, z) PROVE Before(R, G, y, z)
    <2> SUFFICES ASSUME NEW p \in Places(R, G), NEW q \in Places(R, G), At(R, G, p) = y, At(R, G, q) = z
                 PROVE  Less(p, q)
      BY DEF Before
    <2>1. p # o /\ q # o
      BY <1>8, <1>11
    <2>2. Less(Old(p), Old(q))
      BY <1>4, <1>11, <2>1 DEF Before
    <2> QED BY <1>6, <2>1, <2>2
  <1>12. ASSUME NEW y, y # x, \A p \in Places(Q, F) : At(Q, F, p) = y => p[1] < n PROVE Before(R, G, y, x)
    <2> SUFFICES ASSUME NEW p \in Places(R, G), NEW q \in Places(R, G), At(R, G, p) = y, At(R, G, q) = x
                 PROVE  Less(p, q)
      BY DEF Before
    <2>1. p # o /\ q = o
      <3>1. q # o => FALSE
        BY <1>4, <1>7
      <3> QED BY <3>1, <1>8, <1>12
    <2>2. Old(p) \in Places(Q, F) /\ At(Q, F, Old(p)) = y
      BY <1>4, <2>1
    <2>3. Old(p)[1] < n
      BY <1>12, <2>2
    <2>4. p[1] < n
      <3>1. p[1] \in Int /\ p[1] # n
        BY <1>4, <2>1
      <3>2. ~(p[1] < n) => Old(p)[1] = p[1] - 1
        BY DEF Old
      <3> QED BY <1>1, <2>3, <3>1, <3>2
    <2>5. q[1] = n
      BY <2>1 DEF o
    <2> QED BY <2>4, <2>5 DEF Less
  <1>13. /\ \A y : In(R, G, y) <=> In(Q, F, y) \/ y = x
         /\ Unique(Q, F) => Unique(R, G)
         /\ \A y, z : y # x /\ z # x /\ Before(Q, F, y, z) => Before(R, G, y, z)
         /\ \A y : y # x /\ (\A p \in Places(Q, F) : At(Q, F, p) = y => p[1] < n) => Before(R, G, y, x)
    BY <1>9, <1>10, <1>11, <1>12
  <1> QED BY <1>13, Zenon DEF R

(* The values of the first request. *)
FirstNode(Q, F) == {Value(Q, F, 1, j) : j \in 0..Len(F[Q[1]])}

(* The first request leaves, with the values of its flush queue. *)
LEMMA TailPlaces ==
  ASSUME NEW Q \in Seq(Ids), NEW F \in Queues, NEW G \in Queues, Q # <<>>, \A y \in Ids : G[y] = F[y]
  PROVE  LET R == Tail(Q)
         IN  /\ \A y : In(Q, F, y) <=> In(R, G, y) \/ y \in FirstNode(Q, F)
             /\ Unique(Q, F) => Unique(R, G) /\ \A y \in FirstNode(Q, F) : ~In(R, G, y)
             /\ \A y, z : Before(Q, F, y, z) => Before(R, G, y, z)
  <1> DEFINE R == Tail(Q)
             Old(p) == <<p[1] + 1, p[2]>>
  <1>1. Len(Q) \in Nat /\ Len(Q) > 0 /\ \A k \in 1..Len(Q) : Q[k] \in Ids
    BY LenProperties, EmptySeq
  <1>2. R \in Seq(Ids) /\ Len(R) = Len(Q) - 1 /\ \A k \in 1..(Len(Q) - 1) : R[k] = Q[k + 1]
    BY HeadTailProperties
  <1> HIDE DEF R
  <1>3. ASSUME NEW p \in Places(R, G)
        PROVE  /\ Old(p) \in Places(Q, F) /\ At(Q, F, Old(p)) = At(R, G, p)
               /\ p = <<p[1], p[2]>> /\ p[1] \in Nat /\ p[1] > 0 /\ p[2] \in Nat
    <2>1. p = <<p[1], p[2]>> /\ p[1] \in 1..(Len(Q) - 1) /\ p[2] \in Nat /\ p[2] <= Len(G[R[p[1]]])
      BY <1>2 DEF Places
    <2>2. R[p[1]] = Q[p[1] + 1] /\ p[1] + 1 \in 1..Len(Q)
      BY <1>1, <1>2, <2>1
    <2>3. G[Q[p[1] + 1]] = F[Q[p[1] + 1]]
      BY <1>1, <2>2
    <2>4. Old(p) \in Places(Q, F)
      BY <2>1, <2>2, <2>3 DEF Places
    <2>5. At(Q, F, Old(p)) = At(R, G, p)
      BY <2>2, <2>3 DEF At, Value
    <2> QED BY <2>1, <2>4, <2>5
  <1>4. ASSUME NEW q \in Places(Q, F), q[1] # 1
        PROVE  <<q[1] - 1, q[2]>> \in Places(R, G) /\ At(R, G, <<q[1] - 1, q[2]>>) = At(Q, F, q)
    <2>1. q[1] \in 1..Len(Q) /\ q[2] \in Nat /\ q[2] <= Len(F[Q[q[1]]])
      BY DEF Places
    <2>2. q[1] - 1 \in 1..(Len(Q) - 1) /\ (q[1] - 1) + 1 = q[1]
      BY <1>1, <1>4, <2>1
    <2>3. R[q[1] - 1] = Q[q[1]] /\ G[Q[q[1]]] = F[Q[q[1]]]
      BY <1>1, <1>2, <2>1, <2>2
    <2>4. <<q[1] - 1, q[2]>> \in Places(R, G)
      BY <1>2, <2>1, <2>2, <2>3 DEF Places
    <2> QED BY <2>3, <2>4 DEF At, Value
  <1>5. ASSUME NEW p \in Places(R, G), NEW q \in Places(R, G)
        PROVE  (Old(p) = Old(q) => p = q) /\ (Less(Old(p), Old(q)) => Less(p, q)) /\ Old(p)[1] # 1
    <2>1. /\ p = <<p[1], p[2]>> /\ p[1] \in Nat /\ p[1] > 0 /\ p[2] \in Nat
          /\ q = <<q[1], q[2]>> /\ q[1] \in Nat /\ q[1] > 0 /\ q[2] \in Nat
      BY <1>3
    <2>2. p[1] = q[1] /\ p[2] = q[2] => p = q
      BY <2>1
    <2>3. Old(p)[1] = p[1] + 1 /\ Old(p)[2] = p[2] /\ Old(q)[1] = q[1] + 1 /\ Old(q)[2] = q[2]
      OBVIOUS
    <2> HIDE DEF Old
    <2> QED BY <2>1, <2>2, <2>3 DEF Less
  <1>6. ASSUME NEW y \in FirstNode(Q, F) PROVE \E q \in Places(Q, F) : q[1] = 1 /\ At(Q, F, q) = y
    <2>1. PICK j \in 0..Len(F[Q[1]]) : Value(Q, F, 1, j) = y
      BY DEF FirstNode
    <2>2. Len(F[Q[1]]) \in Nat
      BY <1>1 DEF Queues
    <2>3. <<1, j>> \in Places(Q, F)
      BY <1>1, <2>1, <2>2 DEF Places
    <2> QED BY <2>1, <2>3 DEF At
  <1>7. ASSUME NEW q \in Places(Q, F), q[1] = 1 PROVE At(Q, F, q) \in FirstNode(Q, F)
    <2>1. q[2] \in Nat /\ q[2] <= Len(F[Q[1]]) /\ Len(F[Q[1]]) \in Nat
      BY <1>1, <1>7 DEF Places, Queues
    <2> QED BY <1>7, <2>1 DEF At, FirstNode
  <1> HIDE DEF Old
  <1>8. ASSUME NEW y PROVE In(Q, F, y) <=> In(R, G, y) \/ y \in FirstNode(Q, F)
    <2>1. ASSUME In(Q, F, y) PROVE In(R, G, y) \/ y \in FirstNode(Q, F)
      <3>1. PICK q \in Places(Q, F) : At(Q, F, q) = y
        BY <2>1 DEF In
      <3>2. CASE q[1] = 1
        BY <1>7, <3>1, <3>2
      <3>3. CASE q[1] # 1
        BY <1>4, <3>1, <3>3 DEF In
      <3> QED BY <3>2, <3>3
    <2>2. ASSUME In(R, G, y) PROVE In(Q, F, y)
      <3>1. PICK p \in Places(R, G) : At(R, G, p) = y
        BY <2>2 DEF In
      <3> QED BY <1>3, <3>1 DEF In
    <2>3. ASSUME y \in FirstNode(Q, F) PROVE In(Q, F, y)
      BY <1>6, <2>3 DEF In
    <2> QED BY <2>1, <2>2, <2>3
  <1>9. ASSUME Unique(Q, F) PROVE Unique(R, G) /\ \A y \in FirstNode(Q, F) : ~In(R, G, y)
    <2>1. ASSUME NEW p \in Places(R, G), NEW q \in Places(R, G), At(R, G, p) = At(R, G, q) PROVE p = q
      <3>1. Old(p) = Old(q)
        BY <1>3, <1>9, <2>1 DEF Unique
      <3> QED BY <1>5, <3>1
    <2>2. ASSUME NEW y \in FirstNode(Q, F), In(R, G, y) PROVE FALSE
      <3>1. PICK q \in Places(Q, F) : q[1] = 1 /\ At(Q, F, q) = y
        BY <1>6
      <3>2. PICK p \in Places(R, G) : At(R, G, p) = y
        BY <2>2 DEF In
      <3>3. Old(p) = q
        BY <1>3, <1>9, <3>1, <3>2 DEF Unique
      <3> QED BY <1>5, <3>1, <3>3
    <2> QED BY <2>1, <2>2 DEF Unique
  <1>10. ASSUME NEW y, NEW z, Before(Q, F, y, z) PROVE Before(R, G, y, z)
    <2> SUFFICES ASSUME NEW p \in Places(R, G), NEW q \in Places(R, G), At(R, G, p) = y, At(R, G, q) = z
                 PROVE  Less(p, q)
      BY DEF Before
    <2>1. Less(Old(p), Old(q))
      BY <1>3, <1>10 DEF Before
    <2> QED BY <1>5, <2>1
  <1>11. /\ \A y : In(Q, F, y) <=> In(R, G, y) \/ y \in FirstNode(Q, F)
         /\ Unique(Q, F) => Unique(R, G) /\ \A y \in FirstNode(Q, F) : ~In(R, G, y)
         /\ \A y, z : Before(Q, F, y, z) => Before(R, G, y, z)
    BY <1>8, <1>9, <1>10
  <1> QED BY <1>11, Zenon DEF R


(* The pending calls *)
CallRecord ==
    [op : {"enqueue", "dependents"}, id : Ids, master : Ids \cup {None}]
    \cup [op : {"clear"}, id : Ids] \cup [op : {"queued", "flush", "history"}]
    \cup [op : {"assign"}, pos : Nat \ {0}] \cup [op : {"release"}, worker : Workers]

CallsIn(s, op) == {x \in Ids : \E k \in 1..Len(s) : s[k].op = op /\ s[k].id = x}
ReleasesIn(s) == {w \in Workers : \E k \in 1..Len(s) : s[k].op = "release" /\ s[k].worker = w}

(* Two calls for the same value, or two releases, are never pending.       *)
Conflict(c, d) ==
    \/ c.op \in {"enqueue", "dependents"} /\ d.op \in {"enqueue", "dependents"} /\ c.id = d.id
    \/ c.op = "clear" /\ d.op = "clear" /\ c.id = d.id
    \/ c.op = "release" /\ d.op = "release"

Apart(s) == \A j, k \in 1..Len(s) : j # k => ~Conflict(s[j], s[k])

(* The fields of a pending call.                                           *)
LEMMA CallTypes ==
  ASSUME NEW c \in CallRecord
  PROVE  /\ c.op \in {"enqueue", "dependents", "clear", "queued", "flush", "history", "assign", "release"}
         /\ c.op \in {"enqueue", "dependents"} => c.id \in Ids /\ c.master \in Ids \cup {None}
         /\ c.op = "clear" => c.id \in Ids
         /\ c.op = "assign" => c.pos \in Nat \ {0}
         /\ c.op = "release" => c.worker \in Workers
  BY DEF CallRecord

(* The calls the manager makes are well formed.                            *)
LEMMA CallsAreRecords ==
  /\ \A id \in Ids, m \in Ids \cup {None} :
        Enqueue(id, m) \in CallRecord /\ Dependents(id, m) \in CallRecord
  /\ \A id \in Ids : Clear(id) \in CallRecord
  /\ \A n \in Nat \ {0} : Assign(n) \in CallRecord
  /\ \A w \in Workers : Release(w) \in CallRecord
  /\ Queued \in CallRecord /\ Flush \in CallRecord /\ FlushHistory \in CallRecord
  BY DEF CallRecord, Enqueue, Dependents, Clear, Assign, Release, Queued, Flush, FlushHistory

(* Two calls are in conflict with each other.                              *)
LEMMA SymmetricConflict ==
  ASSUME NEW c, NEW d, Conflict(c, d)
  PROVE  Conflict(d, c)
  BY DEF Conflict

(* What is left of the pending calls when the first one is made. *)
LEMMA TailCalls ==
  ASSUME NEW s \in Seq(CallRecord), s # <<>>, Apart(s)
  PROVE  LET t == Tail(s)
             c == Head(s)
         IN  /\ t \in Seq(CallRecord) /\ c \in CallRecord /\ Apart(t)
             /\ \A op, x : x \in CallsIn(t, op) => x \in CallsIn(s, op)
             /\ \A op, x : x \in CallsIn(s, op) => x \in CallsIn(t, op) \/ (c.op = op /\ c.id = x)
             /\ c.op \in {"enqueue", "dependents"} =>
                   c.id \in CallsIn(s, c.op) /\ c.id \notin CallsIn(t, "enqueue") /\ c.id \notin CallsIn(t, "dependents")
             /\ c.op = "clear" => c.id \in CallsIn(s, "clear") /\ c.id \notin CallsIn(t, "clear")
             /\ c.op = "release" => c.worker \in ReleasesIn(s) /\ ReleasesIn(t) = {}
             /\ ReleasesIn(t) \subseteq ReleasesIn(s)
  <1> DEFINE t == Tail(s)
             c == Head(s)
  <1>1. /\ t \in Seq(CallRecord) /\ Len(t) = Len(s) - 1 /\ \A k \in 1..(Len(s) - 1) : t[k] = s[k + 1]
    BY HeadTailProperties
  <1>2. c = s[1] /\ c \in CallRecord /\ Len(s) \in Nat /\ Len(s) > 0 /\ 1 \in 1..Len(s)
    BY HeadTailProperties, LenProperties, EmptySeq
  <1> HIDE DEF t, c
  <1>3. \A k \in 1..Len(t) : k + 1 \in 1..Len(s) /\ t[k] = s[k + 1] /\ k + 1 # 1
    BY <1>1, <1>2
  <1>4. \A k \in 1..Len(s) : k = 1 \/ (k - 1 \in 1..Len(t) /\ t[k - 1] = s[k])
    <2>1. ASSUME NEW k \in 1..Len(s), k # 1 PROVE k - 1 \in 1..Len(t) /\ (k - 1) + 1 = k /\ k - 1 \in 1..(Len(s) - 1)
      BY <1>1, <1>2, <2>1
    <2> QED BY <1>1, <2>1
  <1>5. Apart(t)
    <2>1. ASSUME NEW j \in 1..Len(t), NEW k \in 1..Len(t), j # k PROVE ~Conflict(t[j], t[k])
      <3>1. j + 1 \in 1..Len(s) /\ k + 1 \in 1..Len(s) /\ j + 1 # k + 1 /\ t[j] = s[j + 1] /\ t[k] = s[k + 1]
        BY <1>1, <1>2, <1>3, <2>1
      <3> QED BY <3>1 DEF Apart
    <2> QED BY <2>1 DEF Apart
  <1>6. \A k \in 1..Len(t) : ~Conflict(c, t[k])
    BY <1>2, <1>3 DEF Apart
  <1>7. \A op, x : x \in CallsIn(t, op) => x \in CallsIn(s, op)
    BY <1>3 DEF CallsIn
  <1>8. ASSUME NEW op, NEW x, x \in CallsIn(s, op)
        PROVE  x \in CallsIn(t, op) \/ (c.op = op /\ c.id = x)
    BY <1>2, <1>4, <1>8 DEF CallsIn
  <1>9. ASSUME c.op \in {"enqueue", "dependents"}
        PROVE  c.id \in CallsIn(s, c.op) /\ c.id \notin CallsIn(t, "enqueue") /\ c.id \notin CallsIn(t, "dependents")
    <2>1. c.id \in Ids
      BY <1>2, <1>9, CallTypes
    <2>2. c.id \in CallsIn(s, c.op)
      BY <1>2, <2>1 DEF CallsIn
    <2> QED BY <1>6, <1>9, <2>2 DEF CallsIn, Conflict
  <1>10. ASSUME c.op = "clear" PROVE c.id \in CallsIn(s, "clear") /\ c.id \notin CallsIn(t, "clear")
    <2>1. c.id \in Ids
      BY <1>2, <1>10, CallTypes
    <2>2. c.id \in CallsIn(s, c.op)
      BY <1>2, <2>1 DEF CallsIn
    <2> QED BY <1>6, <1>10, <2>2 DEF CallsIn, Conflict
  <1>11. ASSUME c.op = "release" PROVE c.worker \in ReleasesIn(s) /\ ReleasesIn(t) = {}
    <2>1. c.worker \in Workers
      BY <1>2, <1>11, CallTypes
    <2>2. c.worker \in ReleasesIn(s)
      BY <1>2, <1>11, <2>1 DEF ReleasesIn
    <2> QED BY <1>6, <1>11, <2>2 DEF ReleasesIn, Conflict
  <1>12. ReleasesIn(t) \subseteq ReleasesIn(s)
    BY <1>3 DEF ReleasesIn
  <1> QED BY <1>1, <1>2, <1>5, <1>7, <1>8, <1>9, <1>10, <1>11, <1>12 DEF t, c

(* Calls put before others. *)
LEMMA ConcatCalls ==
  ASSUME NEW s \in Seq(CallRecord), NEW t \in Seq(CallRecord)
  PROVE  /\ s \o t \in Seq(CallRecord)
         /\ \A op, x : x \in CallsIn(s \o t, op) <=> x \in CallsIn(s, op) \/ x \in CallsIn(t, op)
         /\ \A w : w \in ReleasesIn(s \o t) <=> w \in ReleasesIn(s) \/ w \in ReleasesIn(t)
         /\ /\ Apart(s) /\ Apart(t)
            /\ \A x : x \in CallsIn(s, "enqueue") \/ x \in CallsIn(s, "dependents") =>
                  x \notin CallsIn(t, "enqueue") /\ x \notin CallsIn(t, "dependents")
            /\ \A x : x \in CallsIn(s, "clear") => x \notin CallsIn(t, "clear")
            /\ ReleasesIn(s) = {} \/ ReleasesIn(t) = {}
            => Apart(s \o t)
  <1>1. /\ s \o t \in Seq(CallRecord) /\ Len(s \o t) = Len(s) + Len(t)
        /\ \A k \in 1..(Len(s) + Len(t)) : (s \o t)[k] = IF k <= Len(s) THEN s[k] ELSE t[k - Len(s)]
    BY ConcatProperties, Zenon
  <1> DEFINE u == s \o t
  <1>2. Len(s) \in Nat /\ Len(t) \in Nat
    BY LenProperties
  <1>3. \A k \in 1..Len(s) : k \in 1..Len(u) /\ u[k] = s[k]
    BY <1>1, <1>2
  <1>4. ASSUME NEW k \in 1..Len(t) PROVE Len(s) + k \in 1..Len(u) /\ u[Len(s) + k] = t[k]
    <2>1. Len(s) + k \in 1..(Len(s) + Len(t)) /\ ~(Len(s) + k <= Len(s)) /\ (Len(s) + k) - Len(s) = k
      BY <1>2
    <2> QED BY <1>1, <2>1
  <1>5. ASSUME NEW k \in 1..Len(u)
        PROVE  (k \in 1..Len(s) /\ u[k] = s[k]) \/ (k - Len(s) \in 1..Len(t) /\ u[k] = t[k - Len(s)] /\ k > Len(s))
    <2>1. k \in 1..Len(s) \/ (k - Len(s) \in 1..Len(t) /\ ~(k <= Len(s)) /\ k > Len(s))
      BY <1>1, <1>2
    <2> QED BY <1>1, <1>2, <2>1
  <1> HIDE DEF u
  <1>6. ASSUME NEW op, NEW x PROVE x \in CallsIn(u, op) <=> x \in CallsIn(s, op) \/ x \in CallsIn(t, op)
    BY <1>3, <1>4, <1>5 DEF CallsIn
  <1>7. ASSUME NEW w PROVE w \in ReleasesIn(u) <=> w \in ReleasesIn(s) \/ w \in ReleasesIn(t)
    BY <1>3, <1>4, <1>5 DEF ReleasesIn
  <1>8. ASSUME Apart(s), Apart(t),
               \A x : x \in CallsIn(s, "enqueue") \/ x \in CallsIn(s, "dependents") =>
                  x \notin CallsIn(t, "enqueue") /\ x \notin CallsIn(t, "dependents"),
               \A x : x \in CallsIn(s, "clear") => x \notin CallsIn(t, "clear"),
               ReleasesIn(s) = {} \/ ReleasesIn(t) = {}
        PROVE  Apart(u)
    <2>1. ASSUME NEW j \in 1..Len(s), NEW k \in 1..Len(t) PROVE ~Conflict(s[j], t[k])
      <3>1. s[j] \in CallRecord /\ t[k] \in CallRecord
        BY ElementOfSeq, Zenon
      <3>2. ~(s[j].op \in {"enqueue", "dependents"} /\ t[k].op \in {"enqueue", "dependents"} /\ s[j].id = t[k].id)
        <4>1. SUFFICES ASSUME s[j].op \in {"enqueue", "dependents"}, t[k].op \in {"enqueue", "dependents"}, s[j].id = t[k].id
                       PROVE  FALSE
          OBVIOUS
        <4>2. s[j].id \in Ids
          BY <3>1, <4>1, CallTypes
        <4>3. s[j].id \in CallsIn(s, s[j].op) /\ s[j].id \in CallsIn(t, t[k].op)
          BY <4>1, <4>2 DEF CallsIn
        <4> QED BY <1>8, <4>1, <4>3
      <3>3. ~(s[j].op = "clear" /\ t[k].op = "clear" /\ s[j].id = t[k].id)
        <4>1. SUFFICES ASSUME s[j].op = "clear", t[k].op = "clear", s[j].id = t[k].id
                       PROVE  FALSE
          OBVIOUS
        <4>2. s[j].id \in Ids
          BY <3>1, <4>1, CallTypes
        <4>3. s[j].id \in CallsIn(s, "clear") /\ s[j].id \in CallsIn(t, "clear")
          BY <4>1, <4>2 DEF CallsIn
        <4> QED BY <1>8, <4>3
      <3>4. ~(s[j].op = "release" /\ t[k].op = "release")
        <4>1. SUFFICES ASSUME s[j].op = "release", t[k].op = "release" PROVE FALSE
          OBVIOUS
        <4>2. s[j].worker \in ReleasesIn(s) /\ t[k].worker \in ReleasesIn(t)
          BY <3>1, <4>1, CallTypes DEF ReleasesIn
        <4> QED BY <1>8, <4>2
      <3> QED BY <3>2, <3>3, <3>4 DEF Conflict
    <2>2. ASSUME NEW j \in 1..Len(u), NEW k \in 1..Len(u), j # k, Conflict(u[j], u[k]) PROVE FALSE
      <3>1. CASE j \in 1..Len(s) /\ u[j] = s[j]
        <4>1. CASE k \in 1..Len(s) /\ u[k] = s[k]
          BY <1>8, <2>2, <3>1, <4>1 DEF Apart
        <4>2. CASE k - Len(s) \in 1..Len(t) /\ u[k] = t[k - Len(s)]
          BY <2>1, <2>2, <3>1, <4>2
        <4> QED BY <1>5, <4>1, <4>2
      <3>2. CASE j - Len(s) \in 1..Len(t) /\ u[j] = t[j - Len(s)]
        <4>1. CASE k \in 1..Len(s) /\ u[k] = s[k]
          BY <2>1, <2>2, <3>2, <4>1, SymmetricConflict
        <4>2. CASE k - Len(s) \in 1..Len(t) /\ u[k] = t[k - Len(s)]
          <5>1. j - Len(s) # k - Len(s)
            BY <1>2, <2>2
          <5> QED BY <1>8, <2>2, <3>2, <4>2, <5>1 DEF Apart
        <4> QED BY <1>5, <4>1, <4>2
      <3> QED BY <1>5, <3>1, <3>2
    <2> QED BY <2>2 DEF Apart
  <1> QED BY <1>1, <1>6, <1>7, <1>8 DEF u

(* A single call. *)
LEMMA SingleCall ==
  ASSUME NEW c \in CallRecord
  PROVE  /\ <<c>> \in Seq(CallRecord) /\ Apart(<<c>>)
         /\ \A op, x : x \in CallsIn(<<c>>, op) <=> x \in Ids /\ c.op = op /\ c.id = x
         /\ \A w : w \in ReleasesIn(<<c>>) <=> w \in Workers /\ c.op = "release" /\ c.worker = w
  <1>1. <<c>> \in Seq(CallRecord) /\ Len(<<c>>) = 1 /\ <<c>>[1] = c
    OBVIOUS
  <1>2. \A k \in 1..Len(<<c>>) : k = 1
    BY <1>1
  <1>3. 1 \in 1..Len(<<c>>)
    BY <1>1
  <1> QED BY <1>1, <1>2, <1>3 DEF Apart, CallsIn, ReleasesIn

(* Calls that concern no value. *)
Plain(s) == /\ s \in Seq(CallRecord)
            /\ \A k \in 1..Len(s) : s[k].op \in {"queued", "assign", "flush", "history"}

(* A list of plain calls, which are about no value and no worker, contains *)
(* no other calls.                                                         *)
LEMMA PlainCalls ==
  ASSUME NEW s, Plain(s)
  PROVE  /\ s \in Seq(CallRecord) /\ Apart(s) /\ ReleasesIn(s) = {}
         /\ \A op \in {"enqueue", "dependents", "clear"} : \A x : x \notin CallsIn(s, op)
  BY DEF Plain, Apart, Conflict, CallsIn, ReleasesIn

(* The lists of calls with which most messages are answered are plain.     *)
LEMMA PlainLists ==
  /\ Plain(<<>>) /\ Plain(<<FlushHistory>>) /\ Plain(<<Flush, FlushHistory>>) /\ Plain(<<Queued>>)
  /\ Plain(<<Assign(1), FlushHistory>>) /\ Plain(<<Assign(1), Flush>>) /\ Plain(<<Assign(1), Flush, FlushHistory>>)
  /\ \A n \in Nat \ {0} : Plain(<<Assign(n)>>)
  <1>1. 1 \in Nat \ {0}
    OBVIOUS
  <1>2. Assign(1) \in CallRecord /\ Queued \in CallRecord /\ Flush \in CallRecord /\ FlushHistory \in CallRecord
    BY <1>1, CallsAreRecords
  <1>3. Assign(1).op = "assign" /\ Queued.op = "queued" /\ Flush.op = "flush" /\ FlushHistory.op = "history"
    BY DEF Assign, Queued, Flush, FlushHistory
  <1>4. ASSUME NEW n \in Nat \ {0} PROVE Plain(<<Assign(n)>>)
    <2>1. Assign(n) \in CallRecord /\ Assign(n).op = "assign"
      BY CallsAreRecords DEF Assign
    <2> QED BY <2>1 DEF Plain
  <1>5. Plain(<<>>)
    BY DEF Plain
  <1>6. Plain(<<FlushHistory>>) /\ Plain(<<Queued>>)
    BY <1>2, <1>3 DEF Plain
  <1>7. Plain(<<Flush, FlushHistory>>)
    BY <1>2, <1>3 DEF Plain
  <1>8. Plain(<<Assign(1), FlushHistory>>) /\ Plain(<<Assign(1), Flush>>)
    BY <1>2, <1>3 DEF Plain
  <1>9. Plain(<<Assign(1), Flush, FlushHistory>>)
    BY <1>2, <1>3 DEF Plain
  <1> QED BY <1>4, <1>5, <1>6, <1>7, <1>8, <1>9


(* Types *)
Request ==
    [state : {"FREE", "QUEUED", "PROCESSING", "DONE", "PENDING"},
     pending : Ids \cup {None}, flush : Seq(Ids), supported : BOOLEAN,
     isset : BOOLEAN, ver : 0..MaxConfigChanges, res : Results \cup {None}]

Sent == [kind : {"test"}] \cup [kind : {"request"}, id : Ids, ver : 0..MaxConfigChanges,
                                history : History \cup {None}]
Reply == [kind : {"register", "test_result"}]
         \cup [kind : {"result"}, outcome : {"value", "none", "error"}, history : History \cup {None}]

TypeInv ==
    /\ todo \in Seq(CallRecord) /\ queue \in Seq(Ids) /\ req \in [Ids -> Request]
    /\ refcount \in [Results -> Int]
    /\ linked_items \in [Items -> Ids \cup {None}]
    /\ history_cache \in [Items -> History \cup {None}]
    /\ priority_tail \in Ids \cup {None}
    /\ direct_queue \in Seq(Tests) /\ workers \in Seq(Workers)
    /\ task \in [Workers -> Ids \cup Tests \cup {None}]
    /\ queued_num \in Int /\ preproc_num \in Int
    /\ item_config \in [Items -> Config] /\ config \in [Items -> Config]
    /\ inbox \in [Workers -> Seq(Sent)] /\ outbox \in [Workers -> Seq(Reply)]
    /\ started \subseteq Workers
    /\ tests \in [Tests -> {"idle", "waiting", "answered", "closed"}]
    /\ received \in 0..MaxReceived
    /\ flushed \in Seq(Ids) /\ delivered \in 0..Len(flushed)

(* The values that are in the queue or in a flush queue, that are still to *)
(* be preprocessed, that have been collected or derived, and that have     *)
(* been flushed.                                                           *)
Held(r) == {x \in Ids : r[x].state # "FREE"}
Unfinished(r) == {x \in Ids : r[x].state \in {"QUEUED", "PENDING", "PROCESSING"}}
Known(r) == {x \in Ids : r[x].res # None}
In1(s, x) == \E k \in 1..Len(s) : s[k] = x
Children(x) == {<<x[1], Deps[ItemOf(x)][k]>> : k \in DOMAIN Deps[ItemOf(x)]}
FlushQueues(r) == [x \in Ids |-> r[x].flush]

(* The queue holds a value at one place, and a value that is still to be   *)
(* preprocessed is the request of a node.                                  *)
QueueInv(Q, r) ==
    /\ Unique(Q, FlushQueues(r))
    /\ \A x \in Ids : x \in Held(r) <=> In(Q, FlushQueues(r), x)
    /\ \A x \in Unfinished(r) : In1(Q, x)

Injective(s) == \A j, k \in 1..Len(s) : j # k => s[j] # s[k]

(* Where the values are. *)
ValueInv(r, fl, s, n) ==
    /\ \A x \in Ids \ Known(r) : r[x].state = "FREE" /\ r[x].flush = <<>> /\ r[x].pending = None
    /\ \A x \in CallsIn(s, "enqueue") : x \in Known(r) /\ x \notin Held(r) /\ ~In1(fl, x)
    /\ \A x \in CallsIn(s, "dependents") : x \in Known(r) /\ x \notin Unfinished(r)
    /\ \A x \in CallsIn(s, "clear") : In1(fl, x)
    /\ \A x \in Ids : In1(fl, x) => x \in Known(r) /\ x \notin Held(r)
    /\ \A x \in Known(r) : x \in Held(r) \/ In1(fl, x) \/ x \in CallsIn(s, "enqueue")
    /\ \A x \in CallsIn(s, "enqueue") : r[x].flush = <<>> /\ r[x].pending = None
    /\ Injective(fl)
    /\ \A x \in Ids : x \notin Known(r) \/ x \in CallsIn(s, "enqueue") \/ x \in CallsIn(s, "dependents") \/ x \in Unfinished(r)
          => \A y \in Children(x) : y \notin Known(r)
    /\ \A x \in Known(r) : x[1] <= n

(* A worker's task t, its messages in and out; it has started (up), is      *)
(* registered (known), or is about to be released.                         *)
WorkerInv(in, out, t, up, known, release, r, E) ==
    /\ Len(in) + Len(out) <= 1
    /\ ~up => in = <<>> /\ out = <<>> /\ t = None
    /\ in # <<>> => /\ in[1].kind = "request" => t = in[1].id
                    /\ in[1].kind = "test" => t \in Tests
    /\ out # <<>> => /\ out[1].kind = "register" => t = None
                     /\ out[1].kind = "result" => t \in Ids
                     /\ out[1].kind = "test_result" => t \in Tests
    /\ known => /\ up /\ (t = None => in = <<>> /\ out = <<>>)
                /\ ~(out # <<>> /\ out[1].kind = "register")
    /\ t \in Ids /\ (in # <<>> \/ out # <<>>) => r[t].state = "PROCESSING"
    /\ t \in Ids /\ in = <<>> /\ out = <<>> => t \in Known(r) /\ t \notin Unfinished(r) /\ t \notin E
    /\ release => in = <<>> /\ out = <<>> /\ t # None

WorkInv ==
    /\ \A w \in Workers : WorkerInv(inbox[w], outbox[w], task[w], w \in started, In1(workers, w),
                                     w \in ReleasesIn(todo), req, CallsIn(todo, "enqueue"))
    /\ \A v, w \in Workers : task[v] = task[w] /\ task[v] \in Ids => v = w

(* The unfinished values of a linked item: each waits for the one before   *)
(* it, and linked_items refers to the last.                                *)
Chain(i, c, r, l) ==
    /\ \A x \in Ids : ItemOf(x) = i /\ x \in Unfinished(r) <=> In1(c, x)
    /\ Injective(c)
    /\ \A k \in 1..Len(c) : /\ r[c[k]].state = "PENDING" <=> k > 1
                            /\ r[c[k]].pending = IF k < Len(c) THEN c[k + 1] ELSE None
    /\ l[i] = IF c = <<>> THEN None ELSE c[Len(c)]

(* Those of an item that receives values are in the order of collection.   *)
ChainOrder(i, c, E) ==
    /\ \A j, k \in 1..Len(c) : j < k => c[j][1] < c[k][1]
    /\ \A x \in E : ItemOf(x) = i => \A k \in 1..Len(c) : c[k][1] < x[1]

ChainInv(r, l, s) ==
    /\ \A i \in Items : Steps[i] = "linked" =>
          \E c \in Seq(Ids) : Chain(i, c, r, l) /\ (i \in TopItems => ChainOrder(i, c, CallsIn(s, "enqueue")))
    /\ \A i \in Items : Steps[i] # "linked" => l[i] = None
    /\ \A x \in Unfinished(r) : Steps[ItemOf(x)] # "linked" => r[x].state # "PENDING" /\ r[x].pending = None

TopOrder(s) ==
    \A j, k \in 1..Len(s) : /\ j < k /\ s[j].op = "enqueue" /\ s[k].op = "enqueue"
                            /\ ItemOf(s[j].id) \in TopItems /\ ItemOf(s[k].id) = ItemOf(s[j].id)
                            => s[j].id[1] < s[k].id[1]

CallInv(s) == Apart(s) /\ TopOrder(s)

IInv ==
    /\ TypeInv
    /\ QueueInv(queue, req)
    /\ ValueInv(req, flushed, todo, received)
    /\ WorkInv
    /\ ChainInv(req, linked_items, todo)
    /\ CallInv(todo)

(* Ids *)
LEMMA IdTypes ==
  /\ \A x \in Ids : /\ x[1] \in 1..MaxReceived /\ x[1] \in Nat /\ x[2] \in Items /\ ItemOf(x) \in Items /\ x = <<x[1], x[2]>>
                    /\ x = <<x[1], ItemOf(x)>>
                    /\ x # None /\ x \notin Tests
                    /\ <<x, "collected">> \in Results /\ <<x, "made">> \in Results
  /\ \A r \in Results : r[1] \in Ids /\ r # None
  /\ \A h \in History : h # None
  /\ \A t \in Tests : t # None
  /\ None \notin Ids /\ None \notin Results /\ None \notin Tests
  <1>1. MaxReceived \in Nat /\ None \notin Ids \cup Results \cup History \cup Tests /\ Tests \cap Ids = {}
    BY PreprocAssumption
  <1>2. ASSUME NEW x \in Ids PROVE x[1] \in 1..MaxReceived /\ x[2] \in Items /\ x = <<x[1], x[2]>>
    BY DEF Ids
  <1>3. \A r \in Results : r[1] \in Ids
    BY DEF Results
  <1>4. \A x \in Ids : <<x, "collected">> \in Results /\ <<x, "made">> \in Results
    BY DEF Results
  <1>5. \A x \in Ids : x[1] \in Nat
    BY <1>1, <1>2
  <1>6. \A x \in Ids : x # None /\ x \notin Tests
    BY <1>1
  <1>7. \A r \in Results : r # None
    BY <1>1
  <1>8. (\A h \in History : h # None) /\ (\A t \in Tests : t # None)
    BY <1>1
  <1> QED BY <1>1, <1>2, <1>3, <1>4, <1>5, <1>6, <1>7, <1>8, Zenon DEF ItemOf

(* A non-empty set of numbers has a smallest one. *)
LEMMA MinProperties ==
  ASSUME NEW S \in SUBSET Nat, S # {}
  PROVE  Min(S) \in S /\ \A y \in S : Min(S) <= y
  <1>1. PICK x \in S : \A y \in S : ~(<<y, x>> \in OpToRel(<, Nat))
    BY NatLessThanWellFounded, WFMin, Zenon
  <1>2. \A y \in S : x <= y
    <2>1. TAKE y \in S
    <2>2. x \in Nat /\ y \in Nat
      OBVIOUS
    <2>3. <<y, x>> \notin {ss \in Nat \X Nat : ss[1] < ss[2]}
      BY <1>1, Zenon DEF OpToRel
    <2> QED BY <2>2, <2>3
  <1> QED BY <1>2 DEF Min

(* The position of a queued request in the queue.                          *)
LEMMA IndexProperties ==
  ASSUME queue \in Seq(Ids), NEW x, In1(queue, x)
  PROVE  Index(x) \in 1..Len(queue) /\ queue[Index(x)] = x
  <1> DEFINE I == {k \in 1..Len(queue) : queue[k] = x}
  <1>1. I # {} /\ I \in SUBSET Nat
    BY LenProperties DEF In1
  <1>2. Min(I) \in I
    <2> HIDE DEF I
    <2> QED BY <1>1, MinProperties
  <1>3. Index(x) = Min(I)
    BY <1>1 DEF Index, SelectInSeq
  <1> QED BY <1>2, <1>3

(* preprocessor_get_free_worker returns a registered worker without a      *)
(* task.                                                                   *)
LEMMA FreeWorkerProperties ==
  ASSUME workers \in Seq(Workers), FreeWorker # 0
  PROVE  /\ FreeWorker \in 1..Len(workers) /\ workers[FreeWorker] \in Workers
         /\ In1(workers, workers[FreeWorker]) /\ task[workers[FreeWorker]] = None
  <1> DEFINE I == {k \in 1..Len(workers) : task[workers[k]] = None}
  <1>1. I \in SUBSET Nat
    BY LenProperties
  <1>2. FreeWorker = IF I # {} THEN Min(I) ELSE 0
    BY DEF FreeWorker, SelectInSeq
  <1>3. Min(I) \in I /\ FreeWorker = Min(I)
    <2> HIDE DEF I
    <2> QED BY <1>1, <1>2, MinProperties
  <1>4. FreeWorker \in 1..Len(workers) /\ task[workers[FreeWorker]] = None
    BY <1>3
  <1>5. workers[FreeWorker] \in Workers
    BY <1>4, ElementOfSeq, Zenon
  <1> QED BY <1>4, <1>5 DEF In1

(* preprocessor_get_next_task finds a queued request from the given        *)
(* position on.                                                            *)
LEMMA NextTaskProperties ==
  ASSUME queue \in Seq(Ids), NEW pos \in Nat \ {0},
         SelectInSubSeq(queue, pos, Len(queue), LAMBDA x : req[x].state = "QUEUED") # 0
  PROVE  LET k == SelectInSubSeq(queue, pos, Len(queue), LAMBDA x : req[x].state = "QUEUED")
         IN  k \in 1..Len(queue) /\ k \in Nat \ {0} /\ queue[k] \in Ids /\ req[queue[k]].state = "QUEUED"
  <1> DEFINE k == SelectInSubSeq(queue, pos, Len(queue), LAMBDA x : req[x].state = "QUEUED")
             I == {j \in pos..Len(queue) : req[queue[j]].state = "QUEUED"}
  <1>1. I \in SUBSET Nat /\ Len(queue) \in Nat
    BY LenProperties
  <1>2. k = IF I # {} THEN Min(I) ELSE 0
    BY DEF SelectInSubSeq
  <1>3. Min(I) \in I /\ k = Min(I)
    <2> HIDE DEF I, k
    <2>1. k # 0
      BY DEF k
    <2> QED BY <1>1, <1>2, <2>1, MinProperties
  <1>4. k \in pos..Len(queue) /\ req[queue[k]].state = "QUEUED"
    BY <1>3
  <1> HIDE DEF k, I
  <1>5. k \in 1..Len(queue) /\ k \in Nat \ {0}
    BY <1>4, <1>1
  <1>6. queue[k] \in Ids
    BY <1>5, ElementOfSeq, Zenon
  <1> QED BY <1>4, <1>5, <1>6 DEF k


(* Chains of linked values *)
LEMMA ChainElement ==
  ASSUME NEW i, NEW c \in Seq(Ids), NEW r, NEW l, Chain(i, c, r, l)
  PROVE  /\ Len(c) \in Nat /\ \A k \in 1..Len(c) : c[k] \in Ids /\ c[k] \in Unfinished(r) /\ ItemOf(c[k]) = i
         /\ c = <<>> <=> Len(c) = 0
  <1>1. \A k \in 1..Len(c) : c[k] \in Ids
    BY ElementOfSeq, Zenon
  <1>2. Len(c) \in Nat /\ (c = <<>> <=> Len(c) = 0)
    BY LenProperties, EmptySeq
  <1>3. \A k \in 1..Len(c) : In1(c, c[k])
    BY DEF In1
  <1> QED BY <1>1, <1>2, <1>3, Zenon DEF Chain

(* A value waits only for a value of the same item, and links are live. *)
LEMMA LinkFacts ==
  ASSUME NEW r, NEW l, NEW s, ChainInv(r, l, s)
  PROVE  /\ \A x \in Unfinished(r) : r[x].pending # None =>
               /\ r[x].pending \in Unfinished(r) /\ r[r[x].pending].state = "PENDING"
               /\ ItemOf(r[x].pending) = ItemOf(x) /\ r[x].pending # x
         /\ \A i \in Items : l[i] # None => l[i] \in Unfinished(r) /\ ItemOf(l[i]) = i /\ Steps[i] = "linked"
  <1>1. ASSUME NEW x \in Unfinished(r), r[x].pending # None
        PROVE  /\ r[x].pending \in Unfinished(r) /\ r[r[x].pending].state = "PENDING"
               /\ ItemOf(r[x].pending) = ItemOf(x) /\ r[x].pending # x
    <2> DEFINE i == ItemOf(x)
    <2>1. x \in Ids /\ i \in Items
      BY IdTypes DEF Unfinished
    <2>2. Steps[i] = "linked"
      BY <1>1 DEF ChainInv
    <2>3. PICK c \in Seq(Ids) : Chain(i, c, r, l)
      BY <2>1, <2>2 DEF ChainInv
    <2>4. PICK k \in 1..Len(c) : c[k] = x
      BY <1>1, <2>1, <2>3 DEF Chain, In1
    <2>5. r[x].pending = IF k < Len(c) THEN c[k + 1] ELSE None
      BY <2>3, <2>4 DEF Chain
    <2>6. Len(c) \in Nat
      BY LenProperties
    <2>7. k < Len(c) /\ r[x].pending = c[k + 1] /\ k + 1 \in 1..Len(c) /\ k + 1 > 1 /\ k # k + 1
      BY <1>1, <2>5, <2>6
    <2>8. c[k + 1] \in Unfinished(r) /\ ItemOf(c[k + 1]) = i
      BY <2>3, <2>7, ChainElement
    <2>9. r[c[k + 1]].state = "PENDING" /\ c[k + 1] # c[k]
      BY <2>3, <2>7 DEF Chain, Injective
    <2> QED BY <2>4, <2>7, <2>8, <2>9
  <1>2. ASSUME NEW i \in Items, l[i] # None
        PROVE  l[i] \in Unfinished(r) /\ ItemOf(l[i]) = i /\ Steps[i] = "linked"
    <2>1. Steps[i] = "linked"
      BY <1>2 DEF ChainInv
    <2>2. PICK c \in Seq(Ids) : Chain(i, c, r, l)
      BY <2>1 DEF ChainInv
    <2>3. c # <<>> /\ l[i] = c[Len(c)]
      BY <1>2, <2>2 DEF Chain
    <2>4. Len(c) \in 1..Len(c)
      BY <2>3, LenProperties, EmptySeq
    <2> QED BY <2>1, <2>2, <2>3, <2>4, ChainElement
  <1> QED BY <1>1, <1>2

(* Nothing changes in the chains, or values of other items are added. *)
LEMMA ChainSame ==
  ASSUME NEW r, NEW l, NEW s, NEW r2, NEW s2, ChainInv(r, l, s),
         \A x \in Ids : (r2[x].state = "PENDING" <=> r[x].state = "PENDING") /\ r2[x].pending = r[x].pending,
         \A x \in Unfinished(r) : x \in Unfinished(r2),
         \A x \in Unfinished(r2) : x \in Unfinished(r) \/
            (Steps[ItemOf(x)] # "linked" /\ r2[x].state # "PENDING" /\ r2[x].pending = None),
         \A x \in CallsIn(s2, "enqueue") : ItemOf(x) \in TopItems =>
            x \in CallsIn(s, "enqueue") \/ \A y \in Unfinished(r) : y[1] < x[1]
  PROVE  ChainInv(r2, l, s2)
  <1>1. ASSUME NEW i \in Items, Steps[i] = "linked"
        PROVE  \E c \in Seq(Ids) : Chain(i, c, r2, l) /\ (i \in TopItems => ChainOrder(i, c, CallsIn(s2, "enqueue")))
    <2>1. PICK c \in Seq(Ids) : Chain(i, c, r, l) /\ (i \in TopItems => ChainOrder(i, c, CallsIn(s, "enqueue")))
      BY <1>1 DEF ChainInv
    <2>2. Len(c) \in Nat /\ \A k \in 1..Len(c) : c[k] \in Ids /\ c[k] \in Unfinished(r) /\ ItemOf(c[k]) = i
      BY <2>1, ChainElement
    <2>3. ASSUME NEW x \in Ids PROVE ItemOf(x) = i /\ x \in Unfinished(r2) <=> In1(c, x)
      <3>1. ItemOf(x) = i /\ x \in Unfinished(r) <=> In1(c, x)
        BY <2>1 DEF Chain
      <3> QED BY <3>1, <1>1
    <2>4. \A k \in 1..Len(c) : /\ r2[c[k]].state = "PENDING" <=> k > 1
                               /\ r2[c[k]].pending = IF k < Len(c) THEN c[k + 1] ELSE None
      BY <2>1, <2>2 DEF Chain
    <2>5. Chain(i, c, r2, l)
      BY <2>1, <2>3, <2>4 DEF Chain
    <2>6. ASSUME i \in TopItems PROVE ChainOrder(i, c, CallsIn(s2, "enqueue"))
      <3>1. ChainOrder(i, c, CallsIn(s, "enqueue"))
        BY <2>1, <2>6
      <3>2. ASSUME NEW x \in CallsIn(s2, "enqueue"), ItemOf(x) = i, NEW k \in 1..Len(c)
            PROVE  c[k][1] < x[1]
        BY <2>2, <2>6, <3>1, <3>2 DEF ChainOrder
      <3> QED BY <3>1, <3>2 DEF ChainOrder
    <2> QED BY <2>5, <2>6
  <1>2. \A i \in Items : Steps[i] # "linked" => l[i] = None
    BY DEF ChainInv
  <1>3. ASSUME NEW x \in Unfinished(r2), Steps[ItemOf(x)] # "linked"
        PROVE  r2[x].state # "PENDING" /\ r2[x].pending = None
    <2>1. x \in Ids
      BY DEF Unfinished
    <2>2. CASE x \in Unfinished(r)
      BY <1>3, <2>1, <2>2 DEF ChainInv
    <2> QED BY <2>2
  <1> QED BY <1>1, <1>2, <1>3 DEF ChainInv

(* A value leaves its chain, of which it is the first, and the one that    *)
(* waits for it can be preprocessed.                                       *)
LEMMA ChainDone ==
  ASSUME NEW r, NEW l, NEW s, NEW r2, NEW l2, NEW s2, ChainInv(r, l, s),
         NEW id \in Unfinished(r), r[id].state # "PENDING",
         \A x \in Ids : /\ r2[x].state = IF x = id THEN "DONE" ELSE IF x = r[id].pending THEN "QUEUED" ELSE r[x].state
                        /\ r2[x].pending = r[x].pending,
         \A i \in Items : l2[i] = IF i = ItemOf(id) /\ l[i] = id THEN None ELSE l[i],
         \A x \in CallsIn(s2, "enqueue") : ItemOf(x) \in TopItems => x \in CallsIn(s, "enqueue")
  PROVE  /\ ChainInv(r2, l2, s2)
         /\ \A x \in Ids : x \in Unfinished(r2) <=> x \in Unfinished(r) /\ x # id
  <1>0. id \in Ids /\ r[id].pending \in Unfinished(r) \cup {None}
    BY LinkFacts DEF Unfinished
  <1>1. ASSUME NEW x \in Ids PROVE x \in Unfinished(r2) <=> x \in Unfinished(r) /\ x # id
    BY <1>0, <1>1, IdTypes DEF Unfinished
  <1>2. ASSUME NEW i \in Items, Steps[i] = "linked"
        PROVE  \E c \in Seq(Ids) : Chain(i, c, r2, l2) /\ (i \in TopItems => ChainOrder(i, c, CallsIn(s2, "enqueue")))
    <2>1. PICK c \in Seq(Ids) : Chain(i, c, r, l) /\ (i \in TopItems => ChainOrder(i, c, CallsIn(s, "enqueue")))
      BY <1>2 DEF ChainInv
    <2>2. Len(c) \in Nat /\ (c = <<>> <=> Len(c) = 0)
          /\ \A k \in 1..Len(c) : c[k] \in Ids /\ c[k] \in Unfinished(r) /\ ItemOf(c[k]) = i
      BY <2>1, ChainElement
    <2>c. /\ \A x \in Ids : ItemOf(x) = i /\ x \in Unfinished(r) <=> In1(c, x)
          /\ Injective(c)
          /\ \A k \in 1..Len(c) : /\ r[c[k]].state = "PENDING" <=> k > 1
                                  /\ r[c[k]].pending = IF k < Len(c) THEN c[k + 1] ELSE None
          /\ l[i] = IF c = <<>> THEN None ELSE c[Len(c)]
      BY <2>1 DEF Chain
    <2>3. CASE i # ItemOf(id)
      <3>1. \A k \in 1..Len(c) : c[k] # id /\ c[k] # r[id].pending
        <4>1. r[id].pending # None => ItemOf(r[id].pending) = ItemOf(id)
          BY LinkFacts
        <4> QED BY <2>2, <2>3, <4>1, IdTypes
      <3>2. ASSUME NEW x \in Ids PROVE ItemOf(x) = i /\ x \in Unfinished(r2) <=> In1(c, x)
        BY <1>1, <2>3, <2>c
      <3>3. \A k \in 1..Len(c) : /\ r2[c[k]].state = "PENDING" <=> k > 1
                                 /\ r2[c[k]].pending = IF k < Len(c) THEN c[k + 1] ELSE None
        BY <2>2, <2>c, <3>1
      <3>4. l2[i] = l[i]
        BY <2>3
      <3>5. Chain(i, c, r2, l2)
        BY <2>c, <3>2, <3>3, <3>4 DEF Chain
      <3>6. i \in TopItems => ChainOrder(i, c, CallsIn(s2, "enqueue"))
        BY <2>1 DEF ChainOrder
      <3> QED BY <3>5, <3>6
    <2>4. CASE i = ItemOf(id)
      <3>1. PICK m \in 1..Len(c) : c[m] = id
        BY <1>0, <2>4, <2>c DEF In1
      <3>2. m = 1 /\ c[1] = id /\ c # <<>> /\ 1 \in 1..Len(c)
        BY <3>1, <2>c, <2>2
      <3> DEFINE d == Tail(c)
      <3>3. d \in Seq(Ids) /\ Len(d) = Len(c) - 1 /\ \A k \in 1..(Len(c) - 1) : d[k] = c[k + 1]
        BY <3>2, HeadTailProperties
      <3> HIDE DEF d
      <3>4. \A k \in 1..Len(d) : k + 1 \in 1..Len(c) /\ d[k] = c[k + 1] /\ k + 1 # 1 /\ k + 1 > 1
        BY <2>2, <3>3
      <3>5. \A k \in 1..Len(c) : k = 1 \/ (k - 1 \in 1..Len(d) /\ (k - 1) + 1 = k)
        BY <2>2, <3>3
      <3>6. ASSUME NEW k \in 1..Len(c), k # 1 PROVE k - 1 \in 1..Len(d) /\ d[k - 1] = c[k]
        <4>1. k - 1 \in 1..Len(d) /\ (k - 1) + 1 = k
          BY <3>5, <3>6
        <4> QED BY <4>1, <3>4
      <3>7. Injective(d)
        <4>1. ASSUME NEW j \in 1..Len(d), NEW k \in 1..Len(d), j # k PROVE d[j] # d[k]
          <5>1. j + 1 # k + 1
            BY <2>2, <3>3, <4>1
          <5> QED BY <5>1, <3>4, <2>c DEF Injective
        <4> QED BY <4>1 DEF Injective
      <3>8. \A k \in 1..Len(d) : d[k] # id
        BY <3>4, <3>2, <2>c DEF Injective
      <3>9. ASSUME NEW x \in Ids PROVE ItemOf(x) = i /\ x \in Unfinished(r2) <=> In1(d, x)
        <4>0. ASSUME In1(c, x), x # id PROVE In1(d, x)
          <5>1. PICK k \in 1..Len(c) : c[k] = x
            BY <4>0 DEF In1
          <5>2. k # 1
            BY <4>0, <5>1, <3>2
          <5> QED BY <5>1, <5>2, <3>6 DEF In1
        <4>1. In1(c, x) <=> x = id \/ In1(d, x)
          BY <4>0, <3>2, <3>4 DEF In1
        <4>2. ~In1(d, id)
          BY <3>8 DEF In1
        <4> QED BY <1>1, <2>c, <4>1, <4>2
      <3>10. r[id].pending = IF 1 < Len(c) THEN c[2] ELSE None
        BY <2>c, <3>2
      <3>11. ASSUME NEW k \in 1..Len(d)
             PROVE  /\ r2[d[k]].state = "PENDING" <=> k > 1
                    /\ r2[d[k]].pending = IF k < Len(d) THEN d[k + 1] ELSE None
        <4>1. d[k] \in Ids /\ d[k] # id /\ r[d[k]].state = "PENDING" /\ d[k] # None
          BY <2>2, <2>c, <3>4, <3>8, IdTypes
        <4>p. r2[d[k]].pending = IF k < Len(d) THEN d[k + 1] ELSE None
          <5>1. r2[d[k]].pending = r[c[k + 1]].pending
            BY <4>1, <3>4
          <5>2. r[c[k + 1]].pending = IF k + 1 < Len(c) THEN c[(k + 1) + 1] ELSE None
            BY <2>c, <3>4
          <5>3. k < Len(d) <=> k + 1 < Len(c)
            BY <2>2, <3>3
          <5>4. k < Len(d) => k + 1 \in 1..Len(d)
            BY <2>2, <3>3
          <5>5. k < Len(d) => d[k + 1] = c[(k + 1) + 1]
            BY <5>4, <3>4
          <5> QED BY <5>1, <5>2, <5>3, <5>5
        <4>2. CASE k = 1
          <5>1. d[k] = r[id].pending
            <6>1. 1 < Len(c) /\ d[1] = c[2]
              BY <2>2, <3>3, <4>2
            <6> QED BY <3>10, <4>2, <6>1
          <5>2. r2[d[k]].state = "QUEUED"
            BY <4>1, <5>1
          <5> QED BY <4>2, <5>2, <4>p
        <4>3. CASE k # 1
          <5>1. d[k] # r[id].pending
            <6>1. 1 + 1 \in 1..Len(c) /\ k + 1 # 2 /\ 1 < Len(c)
              BY <2>2, <3>3, <4>3
            <6>2. c[k + 1] # c[2]
              BY <6>1, <3>4, <2>c DEF Injective
            <6> QED BY <6>1, <6>2, <3>4, <3>10
          <5>2. r2[d[k]].state = "PENDING" /\ k > 1
            BY <4>1, <5>1, <4>3
          <5> QED BY <5>2, <4>p
        <4> QED BY <4>2, <4>3
      <3>12. l2[i] = IF d = <<>> THEN None ELSE d[Len(d)]
        <4>1. d = <<>> <=> Len(d) = 0
          BY <3>3, EmptySeq
        <4>2. CASE Len(c) = 1
          <5>1. Len(d) = 0 /\ l[i] = id
            BY <2>c, <3>2, <3>3, <4>2
          <5> QED BY <5>1, <4>1, <2>4
        <4>3. CASE Len(c) # 1
          <5>1. Len(c) - 1 \in 1..(Len(c) - 1) /\ (Len(c) - 1) + 1 = Len(c) /\ Len(c) \in 1..Len(c) /\ Len(d) # 0
            BY <2>2, <3>2, <3>3, <4>3
          <5>2. d[Len(d)] = c[Len(c)]
            BY <5>1, <3>3
          <5>3. c[Len(c)] # id
            BY <5>1, <3>2, <4>3, <2>c DEF Injective
          <5> QED BY <5>1, <5>2, <5>3, <4>1, <2>c, <3>2
        <4> QED BY <4>2, <4>3
      <3>13. Chain(i, d, r2, l2)
        BY <3>7, <3>9, <3>11, <3>12 DEF Chain
      <3>14. ASSUME i \in TopItems PROVE ChainOrder(i, d, CallsIn(s2, "enqueue"))
        <4>1. ChainOrder(i, c, CallsIn(s, "enqueue"))
          BY <2>1, <3>14
        <4>2. ASSUME NEW j \in 1..Len(d), NEW k \in 1..Len(d), j < k PROVE d[j][1] < d[k][1]
          <5>1. j + 1 < k + 1
            BY <4>2, <2>2, <3>3
          <5> QED BY <5>1, <4>1, <3>4 DEF ChainOrder
        <4>3. ASSUME NEW x \in CallsIn(s2, "enqueue"), ItemOf(x) = i, NEW k \in 1..Len(d) PROVE d[k][1] < x[1]
          BY <4>1, <4>3, <3>4, <3>14 DEF ChainOrder
        <4> QED BY <4>2, <4>3 DEF ChainOrder
      <3> QED BY <3>3, <3>13, <3>14
    <2> QED BY <2>3, <2>4
  <1>3. \A i \in Items : Steps[i] # "linked" => l2[i] = None
    BY DEF ChainInv
  <1>4. ASSUME NEW x \in Unfinished(r2), Steps[ItemOf(x)] # "linked"
        PROVE  r2[x].state # "PENDING" /\ r2[x].pending = None
    <2>1. x \in Ids /\ x \in Unfinished(r) /\ x # id
      BY <1>1 DEF Unfinished
    <2>2. r[x].state # "PENDING" /\ r[x].pending = None
      BY <2>1, <1>4 DEF ChainInv
    <2> QED BY <2>1, <2>2
  <1> QED BY <1>1, <1>2, <1>3, <1>4 DEF ChainInv


(* A value joins the chain of its item, as its last. *)
LEMMA ChainAdd ==
  ASSUME NEW r, NEW l, NEW s, NEW r2, NEW l2, NEW s2, ChainInv(r, l, s),
         NEW x \in Ids, x \notin Unfinished(r), r[x].pending = None, Steps[ItemOf(x)] = "linked",
         x \in CallsIn(s, "enqueue"),
         \A y \in Ids : /\ r2[y].state = IF y = x THEN (IF l[ItemOf(x)] # None THEN "PENDING" ELSE "QUEUED") ELSE r[y].state
                        /\ r2[y].pending = IF y = l[ItemOf(x)] THEN x ELSE r[y].pending,
         \A i \in Items : l2[i] = IF i = ItemOf(x) THEN x ELSE l[i],
         \A y \in CallsIn(s2, "enqueue") : ItemOf(y) \in TopItems =>
            y \in CallsIn(s, "enqueue") /\ (ItemOf(y) = ItemOf(x) => x[1] < y[1])
  PROVE  /\ ChainInv(r2, l2, s2)
         /\ \A y \in Ids : y \in Unfinished(r2) <=> y \in Unfinished(r) \/ y = x
  <1> DEFINE i == ItemOf(x)
  <1>1. ASSUME NEW y \in Ids PROVE y \in Unfinished(r2) <=> y \in Unfinished(r) \/ y = x
    BY <1>1 DEF Unfinished
  <1>2. i \in Items
    BY IdTypes
  <1>3. ASSUME NEW j \in Items, Steps[j] = "linked", j # i
        PROVE  \E c \in Seq(Ids) : Chain(j, c, r2, l2) /\ (j \in TopItems => ChainOrder(j, c, CallsIn(s2, "enqueue")))
    <2>1. PICK c \in Seq(Ids) : Chain(j, c, r, l) /\ (j \in TopItems => ChainOrder(j, c, CallsIn(s, "enqueue")))
      BY <1>3 DEF ChainInv
    <2>2. \A k \in 1..Len(c) : c[k] \in Ids /\ c[k] \in Unfinished(r) /\ ItemOf(c[k]) = j
      BY <2>1, ChainElement
    <2>3. \A k \in 1..Len(c) : c[k] # x /\ c[k] # l[i]
      <3>1. l[i] # None => ItemOf(l[i]) = i
        BY <1>2, LinkFacts
      <3> QED BY <1>3, <2>2, <3>1, IdTypes
    <2>4. ASSUME NEW y \in Ids PROVE ItemOf(y) = j /\ y \in Unfinished(r2) <=> In1(c, y)
      <3>1. ItemOf(y) = j /\ y \in Unfinished(r) <=> In1(c, y)
        BY <2>1 DEF Chain
      <3> QED BY <1>1, <1>3, <3>1
    <2>5. \A k \in 1..Len(c) : /\ r2[c[k]].state = "PENDING" <=> k > 1
                               /\ r2[c[k]].pending = IF k < Len(c) THEN c[k + 1] ELSE None
      BY <2>1, <2>2, <2>3 DEF Chain
    <2>6. l2[j] = l[j]
      BY <1>3
    <2>7. Chain(j, c, r2, l2)
      BY <2>1, <2>4, <2>5, <2>6 DEF Chain
    <2>8. j \in TopItems => ChainOrder(j, c, CallsIn(s2, "enqueue"))
      BY <2>1 DEF ChainOrder
    <2> QED BY <2>7, <2>8
  <1>4. \E c \in Seq(Ids) : Chain(i, c, r2, l2) /\ (i \in TopItems => ChainOrder(i, c, CallsIn(s2, "enqueue")))
    <2>1. PICK c \in Seq(Ids) : Chain(i, c, r, l) /\ (i \in TopItems => ChainOrder(i, c, CallsIn(s, "enqueue")))
      BY <1>2 DEF ChainInv
    <2>2. Len(c) \in Nat /\ (c = <<>> <=> Len(c) = 0)
          /\ \A k \in 1..Len(c) : c[k] \in Ids /\ c[k] \in Unfinished(r) /\ ItemOf(c[k]) = i
      BY <2>1, ChainElement
    <2>c. /\ \A y \in Ids : ItemOf(y) = i /\ y \in Unfinished(r) <=> In1(c, y)
          /\ Injective(c)
          /\ \A k \in 1..Len(c) : /\ r[c[k]].state = "PENDING" <=> k > 1
                                  /\ r[c[k]].pending = IF k < Len(c) THEN c[k + 1] ELSE None
          /\ l[i] = IF c = <<>> THEN None ELSE c[Len(c)]
      BY <2>1 DEF Chain
    <2> DEFINE d == Append(c, x)
    <2>3. d \in Seq(Ids) /\ Len(d) = Len(c) + 1 /\ (\A k \in 1..Len(c) : d[k] = c[k]) /\ d[Len(c) + 1] = x
      BY <2>2
    <2> HIDE DEF d
    <2>4. \A k \in 1..Len(c) : c[k] # x
      BY <2>2
    <2>5. ASSUME NEW k \in 1..Len(d) PROVE (k \in 1..Len(c) /\ d[k] = c[k]) \/ (k = Len(c) + 1 /\ d[k] = x)
      <3>1. k \in 1..Len(c) \/ k = Len(c) + 1
        BY <2>2, <2>3
      <3> QED BY <2>3, <3>1
    <2>6. Len(c) + 1 \in 1..Len(d) /\ \A k \in 1..Len(c) : k \in 1..Len(d) /\ k # Len(c) + 1 /\ k < Len(d)
      BY <2>2, <2>3
    <2>7. ASSUME NEW y \in Ids PROVE ItemOf(y) = i /\ y \in Unfinished(r2) <=> In1(d, y)
      <3>1. In1(d, y) <=> In1(c, y) \/ y = x
        BY <2>3, <2>5, <2>6 DEF In1
      <3> QED BY <1>1, <2>c, <3>1
    <2>8. Injective(d)
      <3>1. ASSUME NEW j \in 1..Len(d), NEW k \in 1..Len(d), j # k PROVE d[j] # d[k]
        <4>1. CASE j \in 1..Len(c) /\ k \in 1..Len(c)
          BY <3>1, <4>1, <2>3, <2>c DEF Injective
        <4>2. CASE ~(j \in 1..Len(c) /\ k \in 1..Len(c))
          BY <3>1, <4>2, <2>3, <2>4, <2>5
        <4> QED BY <4>1, <4>2
      <3> QED BY <3>1 DEF Injective
    <2>9. ASSUME NEW k \in 1..Len(d)
          PROVE  /\ r2[d[k]].state = "PENDING" <=> k > 1
                 /\ r2[d[k]].pending = IF k < Len(d) THEN d[k + 1] ELSE None
      <3>1. CASE k \in 1..Len(c) /\ d[k] = c[k]
        <4>1. c[k] \in Ids /\ c[k] # x
          BY <2>2, <2>4, <3>1
        <4>2. r2[c[k]].state = "PENDING" <=> k > 1
          BY <4>1, <3>1, <2>c
        <4>3. CASE k = Len(c)
          <5>1. c[k] = l[i]
            BY <4>3, <3>1, <2>2, <2>c
          <5> QED BY <5>1, <4>1, <4>2, <4>3, <3>1, <2>3, <2>6
        <4>4. CASE k # Len(c)
          <5>1. k < Len(c) /\ k + 1 \in 1..Len(c) /\ Len(c) \in 1..Len(c)
            BY <4>4, <3>1, <2>2
          <5>2. c[k] # l[i]
            BY <5>1, <4>4, <3>1, <2>2, <2>c DEF Injective
          <5>3. r2[c[k]].pending = c[k + 1] /\ d[k + 1] = c[k + 1]
            BY <5>1, <5>2, <4>1, <3>1, <2>c, <2>3
          <5> QED BY <5>3, <4>2, <3>1, <2>6
        <4> QED BY <4>3, <4>4
      <3>2. CASE k = Len(c) + 1 /\ d[k] = x
        <4>1. l[i] # x
          <5>1. l[i] # None => l[i] \in Unfinished(r)
            BY <1>2, LinkFacts
          <5> QED BY <5>1, IdTypes
        <4>2. r2[x].pending = None
          BY <4>1
        <4>3. k > 1 <=> c # <<>>
          BY <3>2, <2>2
        <4>4. l[i] # None <=> c # <<>>
          <5>1. c # <<>> => Len(c) \in 1..Len(c)
            BY <2>2
          <5> QED BY <5>1, <2>2, <2>c, IdTypes
        <4>5. r2[x].state = "PENDING" <=> k > 1
          BY <4>3, <4>4
        <4>6. ~(k < Len(d))
          BY <3>2, <2>2, <2>3
        <4> QED BY <3>2, <4>2, <4>5, <4>6
      <3> QED BY <2>5, <3>1, <3>2
    <2>10. l2[i] = IF d = <<>> THEN None ELSE d[Len(d)]
      <3>1. d # <<>>
        BY <2>2, <2>3, EmptySeq
      <3> QED BY <3>1, <2>3, <1>2
    <2>11. Chain(i, d, r2, l2)
      BY <2>7, <2>8, <2>9, <2>10 DEF Chain
    <2>12. ASSUME i \in TopItems PROVE ChainOrder(i, d, CallsIn(s2, "enqueue"))
      <3>1. ChainOrder(i, c, CallsIn(s, "enqueue"))
        BY <2>1, <2>12
      <3>2. ASSUME NEW j \in 1..Len(d), NEW k \in 1..Len(d), j < k PROVE d[j][1] < d[k][1]
        <4>1. j \in 1..Len(c) /\ d[j] = c[j]
          BY <3>2, <2>2, <2>3
        <4>2. CASE k \in 1..Len(c) /\ d[k] = c[k]
          BY <3>1, <3>2, <4>1, <4>2 DEF ChainOrder
        <4>3. CASE k = Len(c) + 1 /\ d[k] = x
          BY <3>1, <4>1, <4>3 DEF ChainOrder
        <4> QED BY <2>5, <4>2, <4>3
      <3>3. ASSUME NEW y \in CallsIn(s2, "enqueue"), ItemOf(y) = i, NEW k \in 1..Len(d) PROVE d[k][1] < y[1]
        <4>1. y \in CallsIn(s, "enqueue") /\ x[1] < y[1]
          BY <2>12, <3>3
        <4>2. CASE k \in 1..Len(c) /\ d[k] = c[k]
          BY <3>1, <3>3, <4>1, <4>2 DEF ChainOrder
        <4> QED BY <2>5, <4>1, <4>2
      <3> QED BY <3>2, <3>3 DEF ChainOrder
    <2> QED BY <2>3, <2>11, <2>12
  <1>5. \A j \in Items : Steps[j] # "linked" => l2[j] = None
    BY DEF ChainInv
  <1>6. ASSUME NEW y \in Unfinished(r2), Steps[ItemOf(y)] # "linked"
        PROVE  r2[y].state # "PENDING" /\ r2[y].pending = None
    <2>1. y \in Ids /\ y \in Unfinished(r) /\ y # x
      BY <1>1, <1>6 DEF Unfinished
    <2>2. r[y].state # "PENDING" /\ r[y].pending = None
      BY <2>1, <1>6 DEF ChainInv
    <2>3. y # l[i]
      BY <1>2, <1>6, <2>1, LinkFacts, IdTypes
    <2> QED BY <2>1, <2>2, <2>3
  <1> QED BY <1>1, <1>3, <1>4, <1>5, <1>6 DEF ChainInv


(* The queue *)
LEMMA FlushQueuesType ==
  ASSUME NEW r \in [Ids -> Request]
  PROVE  FlushQueues(r) \in Queues /\ \A x \in Ids : FlushQueues(r)[x] = r[x].flush
  BY DEF FlushQueues, Queues, Request

(* The places of the queue depend on the flush queues only.                *)
LEMMA FlushQueuesSame ==
  ASSUME NEW r, NEW r2, \A x \in Ids : r2[x].flush = r[x].flush
  PROVE  FlushQueues(r2) = FlushQueues(r)
  BY DEF FlushQueues

(* The position of a value is 0 when it has no node in the queue.          *)
LEMMA IndexRange ==
  ASSUME queue \in Seq(Ids), NEW x
  PROVE  Index(x) \in 0..Len(queue)
  <1>1. CASE In1(queue, x)
    BY <1>1, IndexProperties, LenProperties
  <1>2. CASE ~In1(queue, x)
    <2>1. {k \in 1..Len(queue) : queue[k] = x} = {}
      BY <1>2 DEF In1
    <2> QED BY <2>1, LenProperties DEF Index, SelectInSeq
  <1> QED BY <1>1, <1>2

(* zbx_list_prepend and zbx_list_append insert at the first and after the  *)
(* last position.                                                          *)
LEMMA FirstAndLast ==
  ASSUME NEW Q \in Seq(Ids), NEW x \in Ids
  PROVE  <<x>> \o Q = InsertAt(Q, 1, x) /\ Append(Q, x) = InsertAt(Q, Len(Q) + 1, x)
  <1>0. Len(Q) \in Nat /\ 1 \in 1..(Len(Q) + 1) /\ Len(Q) + 1 \in 1..(Len(Q) + 1)
    BY LenProperties
  <1>1. <<x>> \o Q = InsertAt(Q, 1, x)
    <2> DEFINE A == <<x>> \o Q
               B == InsertAt(Q, 1, x)
    <2>1. B \in Seq(Ids) /\ Len(B) = Len(Q) + 1
          /\ \A k \in 1..(Len(Q) + 1) : B[k] = IF k < 1 THEN Q[k] ELSE IF k = 1 THEN x ELSE Q[k - 1]
      BY <1>0, InsertAtProperties
    <2>2. A \in Seq(Ids) /\ Len(A) = Len(Q) + 1 /\ \A k \in 1..(Len(Q) + 1) : A[k] = IF k = 1 THEN x ELSE Q[k - 1]
      <3>1. <<x>> \in Seq(Ids) /\ Len(<<x>>) = 1 /\ <<x>>[1] = x
        OBVIOUS
      <3>2. A \in Seq(Ids) /\ Len(A) = Len(<<x>>) + Len(Q)
            /\ \A k \in 1..Len(<<x>>) + Len(Q) : A[k] = IF k <= Len(<<x>>) THEN <<x>>[k] ELSE Q[k - Len(<<x>>)]
        BY <3>1, ConcatProperties, Zenon
      <3> HIDE DEF A
      <3>3. \A k \in 1..(Len(Q) + 1) : k \in 1..(1 + Len(Q)) /\ (k <= 1 <=> k = 1)
        BY <1>0
      <3> QED BY <1>0, <3>1, <3>2, <3>3
    <2> HIDE DEF A, B
    <2>3. \A k \in 1..(Len(Q) + 1) : A[k] = B[k]
      BY <1>0, <2>1, <2>2
    <2>4. A = B
      BY <2>1, <2>2, <2>3, SeqEqual
    <2> QED BY <2>4 DEF A, B
  <1>2. Append(Q, x) = InsertAt(Q, Len(Q) + 1, x)
    <2> DEFINE n == Len(Q) + 1
               A == Append(Q, x)
               B == InsertAt(Q, n, x)
    <2>0. n \in 1..(Len(Q) + 1)
      BY <1>0
    <2> HIDE DEF n
    <2>1. B \in Seq(Ids) /\ Len(B) = Len(Q) + 1
          /\ \A k \in 1..(Len(Q) + 1) : B[k] = IF k < n THEN Q[k] ELSE IF k = n THEN x ELSE Q[k - 1]
      BY <2>0, InsertAtProperties
    <2>b. n = Len(Q) + 1
      BY DEF n
    <2>2. A \in Seq(Ids) /\ Len(A) = Len(Q) + 1 /\ (\A k \in 1..Len(Q) : A[k] = Q[k]) /\ A[Len(Q) + 1] = x
      BY <1>0
    <2> HIDE DEF A, B
    <2>3. \A k \in 1..(Len(Q) + 1) : A[k] = B[k]
      BY <1>0, <2>1, <2>2, <2>b
    <2>4. A = B
      BY <2>1, <2>2, <2>3, SeqEqual
    <2> QED BY <2>4 DEF A, B, n
  <1> QED BY <1>1, <1>2

(* Where preprocessor_enqueue puts a request. *)
InsertPosition(id, master) ==
    IF Priority(id, master)
    THEN IF priority_tail # None THEN Index(priority_tail) + 1 ELSE 1
    ELSE IF master # None THEN Index(master) + 1 ELSE Len(queue) + 1

(* preprocessor_enqueue inserts a request at one position, whatever its    *)
(* priority.                                                               *)
LEMMA InsertedPosition ==
  ASSUME queue \in Seq(Ids), NEW id \in Ids, NEW master
  PROVE  /\ InsertPosition(id, master) \in 1..(Len(queue) + 1)
         /\ Inserted(id, master) = InsertAt(queue, InsertPosition(id, master), id)
  <1>1. Len(queue) \in Nat
    BY LenProperties
  <1>2. Index(priority_tail) + 1 \in 1..(Len(queue) + 1) /\ Index(master) + 1 \in 1..(Len(queue) + 1)
    BY <1>1, IndexRange
  <1>3. InsertPosition(id, master) \in 1..(Len(queue) + 1)
    BY <1>1, <1>2 DEF InsertPosition
  <1>4. <<id>> \o queue = InsertAt(queue, 1, id) /\ Append(queue, id) = InsertAt(queue, Len(queue) + 1, id)
    BY FirstAndLast
  <1>5. Inserted(id, master) = InsertAt(queue, InsertPosition(id, master), id)
    BY <1>4, Zenon DEF Inserted, InsertPosition
  <1> QED BY <1>3, <1>5

(* Only states change. *)
LEMMA QueueKeep ==
  ASSUME NEW Q, NEW r, NEW r2, QueueInv(Q, r),
         \A x \in Ids : r2[x].flush = r[x].flush,
         \A x \in Ids : x \in Held(r2) <=> x \in Held(r),
         \A x \in Unfinished(r2) : x \in Unfinished(r)
  PROVE  QueueInv(Q, r2)
  <1>1. FlushQueues(r2) = FlushQueues(r)
    BY FlushQueuesSame
  <1> QED BY <1>1 DEF QueueInv

(* A request is queued. *)
QueueGrows(Q, r, r2, x) ==
    /\ Q \in Seq(Ids) /\ r \in [Ids -> Request] /\ r2 \in [Ids -> Request] /\ QueueInv(Q, r)
    /\ x \in Ids /\ x \notin Held(r) /\ r[x].flush = <<>>
    /\ \A y \in Ids : r2[y].flush = r[y].flush
    /\ \A y \in Ids : y \in Held(r2) <=> y \in Held(r) \/ y = x
    /\ \A y \in Unfinished(r2) : y \in Unfinished(r) \/ y = x

(* A request inserted at any position of the queue is at one place.        *)
LEMMA QueueInsert ==
  ASSUME NEW Q, NEW r, NEW r2, NEW x, QueueGrows(Q, r, r2, x), NEW n \in 1..(Len(Q) + 1)
  PROVE  /\ QueueInv(InsertAt(Q, n, x), r2) /\ InsertAt(Q, n, x) \in Seq(Ids)
         /\ \A y : In1(InsertAt(Q, n, x), y) <=> In1(Q, y) \/ y = x
  <1> DEFINE R == InsertAt(Q, n, x)
             F == FlushQueues(r)
  <1>0. /\ Q \in Seq(Ids) /\ r \in [Ids -> Request] /\ r2 \in [Ids -> Request] /\ QueueInv(Q, r)
        /\ x \in Ids /\ x \notin Held(r) /\ r[x].flush = <<>>
        /\ \A y \in Ids : r2[y].flush = r[y].flush
        /\ \A y \in Ids : y \in Held(r2) <=> y \in Held(r) \/ y = x
        /\ \A y \in Unfinished(r2) : y \in Unfinished(r) \/ y = x
    BY DEF QueueGrows
  <1>1. F \in Queues /\ F[x] = <<>> /\ FlushQueues(r2) = F
    BY <1>0, FlushQueuesType, FlushQueuesSame
  <1>2. Len(Q) \in Nat
    BY <1>0, LenProperties
  <1>3. R \in Seq(Ids) /\ Len(R) = Len(Q) + 1
        /\ \A k \in 1..(Len(Q) + 1) : R[k] = IF k < n THEN Q[k] ELSE IF k = n THEN x ELSE Q[k - 1]
    <2>1. Q \in Seq(Ids) /\ x \in Ids
      BY <1>0
    <2>2. n \in 1..(Len(Q) + 1)
      OBVIOUS
    <2> QED BY ONLY <2>1, <2>2, InsertAtProperties DEF R
  <1> HIDE DEF F
  <1>4. ~In(Q, F, x)
    BY <1>0 DEF QueueInv, F
  <1>5. \A y \in Ids : F[y] = F[y]
    OBVIOUS
  <1>6. (\A y : In(R, F, y) <=> In(Q, F, y) \/ y = x) /\ (Unique(Q, F) => Unique(R, F))
    BY <1>0, <1>1, <1>4, <1>5, InsertPlaces, Zenon
  <1> HIDE DEF R
  <1>7. ASSUME NEW y PROVE In1(R, y) <=> In1(Q, y) \/ y = x
    <2>1. ASSUME In1(Q, y) PROVE In1(R, y)
      <3>1. PICK k \in 1..Len(Q) : Q[k] = y
        BY <2>1 DEF In1
      <3>2. CASE k < n
        BY <1>2, <1>3, <3>1, <3>2 DEF In1
      <3>3. CASE ~(k < n)
        <4>1. k + 1 \in 1..(Len(Q) + 1) /\ ~(k + 1 < n) /\ k + 1 # n /\ (k + 1) - 1 = k
          BY <1>2, <3>3
        <4>2. R[k + 1] = Q[k]
          BY <1>3, <4>1
        <4> QED BY <1>3, <3>1, <4>1, <4>2 DEF In1
      <3> QED BY <3>2, <3>3
    <2>2. In1(R, x)
      BY <1>2, <1>3 DEF In1
    <2>3. ASSUME In1(R, y), y # x PROVE In1(Q, y)
      <3>1. PICK k \in 1..Len(R) : R[k] = y
        BY <2>3 DEF In1
      <3>2. CASE k < n
        <4>1. k \in 1..Len(Q)
          BY <1>2, <1>3, <3>2
        <4> QED BY <1>3, <3>1, <3>2, <4>1 DEF In1
      <3>3. CASE ~(k < n)
        <4>1. k # n
          BY <1>3, <2>3, <3>1, <3>3
        <4>2. k - 1 \in 1..Len(Q) /\ k \in 1..(Len(Q) + 1)
          BY <1>2, <1>3, <3>3, <4>1
        <4> QED BY <1>3, <3>1, <3>3, <4>1, <4>2 DEF In1
      <3> QED BY <3>2, <3>3
    <2> QED BY <2>1, <2>2, <2>3
  <1>8. QueueInv(R, r2)
    <2>1. Unique(R, F)
      BY <1>0, <1>6 DEF QueueInv, F
    <2>2. \A y \in Ids : y \in Held(r2) <=> In(R, F, y)
      BY <1>0, <1>6 DEF QueueInv, F
    <2>3. \A y \in Unfinished(r2) : In1(R, y)
      BY <1>0, <1>7 DEF QueueInv
    <2> QED BY <1>1, <2>1, <2>2, <2>3 DEF QueueInv
  <1> QED BY <1>3, <1>7, <1>8 DEF R

(* A done request leaves the queue for a flush queue. *)
LEMMA QueueMerge ==
  ASSUME NEW Q \in Seq(Ids), NEW r \in [Ids -> Request], NEW r2 \in [Ids -> Request], QueueInv(Q, r),
         NEW n \in 1..Len(Q), n # 1,
         r2[Q[n - 1]].flush = r[Q[n - 1]].flush \o <<Q[n]>> \o r[Q[n]].flush,
         \A x \in Ids : x # Q[n - 1] => r2[x].flush = r[x].flush,
         \A y \in Ids : y \in Held(r2) <=> y \in Held(r),
         \A y \in Unfinished(r2) : y \in Unfinished(r) /\ y # Q[n]
  PROVE  /\ QueueInv(RemoveAt(Q, n), r2) /\ RemoveAt(Q, n) \in Seq(Ids)
         /\ \A y : y # Q[n] /\ In1(Q, y) => In1(RemoveAt(Q, n), y)
         /\ \A x, y : Before(Q, FlushQueues(r), x, y) => Before(RemoveAt(Q, n), FlushQueues(r2), x, y)
  <1> DEFINE R == RemoveAt(Q, n)
             F == FlushQueues(r)
             G == FlushQueues(r2)
  <1>1. F \in Queues /\ G \in Queues /\ (\A x \in Ids : F[x] = r[x].flush) /\ (\A x \in Ids : G[x] = r2[x].flush)
    BY FlushQueuesType
  <1>2. Len(Q) \in Nat /\ n - 1 \in 1..Len(Q)
    BY LenProperties
  <1>3. Q[n] \in Ids /\ Q[n - 1] \in Ids
    BY <1>2, ElementOfSeq, Zenon
  <1>4. R \in Seq(Ids) /\ Len(R) = Len(Q) - 1 /\ \A k \in 1..(Len(Q) - 1) : R[k] = IF k < n THEN Q[k] ELSE Q[k + 1]
    BY RemoveAtProperties
  <1> HIDE DEF F, G
  <1>5. Unique(Q, F)
    BY DEF QueueInv, F
  <1>6. G[Q[n - 1]] = F[Q[n - 1]] \o <<Q[n]>> \o F[Q[n]]
    BY <1>1, <1>3
  <1>7. \A x \in Ids : x # Q[n - 1] => G[x] = F[x]
    BY <1>1
  <1>8. /\ \A x : In(R, G, x) <=> In(Q, F, x)
        /\ Unique(R, G)
        /\ \A x, y : Before(Q, F, x, y) => Before(R, G, x, y)
    BY <1>1, <1>5, <1>6, <1>7, MergePlaces, Zenon
  <1> HIDE DEF R
  <1>9. ASSUME NEW y, y # Q[n], In1(Q, y) PROVE In1(R, y)
    <2>1. PICK k \in 1..Len(Q) : Q[k] = y
      BY <1>9 DEF In1
    <2>2. k # n
      BY <1>9, <2>1
    <2>3. CASE k < n
      <3>1. k \in 1..(Len(Q) - 1)
        BY <1>2, <2>3
      <3> QED BY <1>4, <2>1, <2>3, <3>1 DEF In1
    <2>4. CASE ~(k < n)
      <3>1. k - 1 \in 1..(Len(Q) - 1) /\ ~(k - 1 < n) /\ (k - 1) + 1 = k
        BY <1>2, <2>2, <2>4
      <3>2. R[k - 1] = Q[k]
        BY <1>4, <3>1
      <3> QED BY <1>4, <2>1, <3>1, <3>2 DEF In1
    <2> QED BY <2>3, <2>4
  <1>10. QueueInv(R, r2)
    <2>1. \A y \in Ids : y \in Held(r2) <=> In(R, G, y)
      BY <1>8 DEF QueueInv, F
    <2>2. \A y \in Unfinished(r2) : In1(R, y)
      BY <1>9 DEF QueueInv
    <2> QED BY <1>8, <2>1, <2>2 DEF QueueInv, G
  <1> QED BY <1>4, <1>8, <1>9, <1>10 DEF R, F, G

(* The first request, which is done, is flushed. *)
LEMMA QueueTail ==
  ASSUME NEW Q \in Seq(Ids), NEW r \in [Ids -> Request], NEW r2 \in [Ids -> Request], QueueInv(Q, r), Q # <<>>,
         \A x \in Ids : r2[x].flush = r[x].flush,
         \A x \in Ids : x \in Held(r2) <=> x \in Held(r) /\ x \notin FirstNode(Q, FlushQueues(r)),
         \A y \in Unfinished(r2) : y \in Unfinished(r) /\ y # Head(Q)
  PROVE  /\ QueueInv(Tail(Q), r2)
         /\ \A y : In1(Q, y) <=> y = Head(Q) \/ In1(Tail(Q), y)
         /\ \A x, y : Before(Q, FlushQueues(r), x, y) => Before(Tail(Q), FlushQueues(r2), x, y)
  <1> DEFINE R == Tail(Q)
             F == FlushQueues(r)
  <1>1. F \in Queues /\ FlushQueues(r2) = F
    BY FlushQueuesType, FlushQueuesSame
  <1>2. R \in Seq(Ids) /\ Len(R) = Len(Q) - 1 /\ (\A k \in 1..(Len(Q) - 1) : R[k] = Q[k + 1]) /\ Head(Q) = Q[1]
        /\ Len(Q) \in Nat /\ 1 \in 1..Len(Q)
    BY HeadTailProperties, LenProperties, EmptySeq
  <1> HIDE DEF F
  <1>3. \A y \in Ids : F[y] = F[y]
    OBVIOUS
  <1>4. /\ \A y : In(Q, F, y) <=> In(R, F, y) \/ y \in FirstNode(Q, F)
        /\ Unique(Q, F) => Unique(R, F) /\ \A y \in FirstNode(Q, F) : ~In(R, F, y)
        /\ \A y, z : Before(Q, F, y, z) => Before(R, F, y, z)
    BY <1>1, <1>3, TailPlaces, Zenon
  <1> HIDE DEF R
  <1>5. ASSUME NEW y PROVE In1(Q, y) <=> y = Head(Q) \/ In1(R, y)
    <2>1. \A k \in 1..Len(Q) : k = 1 \/ (k - 1 \in 1..Len(R) /\ (k - 1) + 1 = k)
      BY <1>2
    <2>2. \A k \in 1..Len(R) : k + 1 \in 1..Len(Q) /\ R[k] = Q[k + 1]
      BY <1>2
    <2>3. ASSUME In1(Q, y), y # Head(Q) PROVE In1(R, y)
      <3>1. PICK k \in 1..Len(Q) : Q[k] = y
        BY <2>3 DEF In1
      <3>2. k # 1
        BY <1>2, <2>3, <3>1
      <3>3. k - 1 \in 1..Len(R) /\ (k - 1) + 1 = k
        BY <2>1, <3>2
      <3>4. R[k - 1] = Q[k]
        BY <2>2, <3>3
      <3> QED BY <3>1, <3>3, <3>4 DEF In1
    <2> QED BY <1>2, <2>2, <2>3 DEF In1
  <1>6. QueueInv(R, r2)
    <2>1. Unique(R, F)
      BY <1>4 DEF QueueInv, F
    <2>2. ASSUME NEW x \in Ids PROVE x \in Held(r2) <=> In(R, F, x)
      <3>1. x \in Held(r) <=> In(Q, F, x)
        BY DEF QueueInv, F
      <3>2. Unique(Q, F)
        BY DEF QueueInv, F
      <3> QED BY <1>4, <3>1, <3>2 DEF F
    <2>3. \A y \in Unfinished(r2) : In1(R, y)
      BY <1>5 DEF QueueInv
    <2> QED BY <1>1, <2>1, <2>2, <2>3 DEF QueueInv
  <1> QED BY <1>1, <1>4, <1>5, <1>6 DEF R, F


(* preprocessor_set_request_state_done *)
LEMMA DoneFields ==
  ASSUME NEW id \in Ids, NEW r \in [Ids -> Request], queue \in Seq(Ids), queue # <<>>,
         r[id].pending # id, id = Head(queue) \/ (Index(id) - 1 \in 1..Len(queue) /\ NewPosition(id) # id)
  PROVE  LET u == AppendFlushQueue(id, DoneAndWakeup(id, r))
         IN  /\ u \in [Ids -> Request] /\ NewPosition(id) \in Ids
             /\ \A x \in Ids :
                   /\ u[x].state = IF x = id THEN "DONE" ELSE IF x = r[id].pending THEN "QUEUED" ELSE r[x].state
                   /\ u[x].flush = IF id # Head(queue) /\ x = NewPosition(id) THEN r[x].flush \o <<id>> \o r[id].flush
                                   ELSE r[x].flush
                   /\ u[x].pending = r[x].pending /\ u[x].supported = r[x].supported
                   /\ u[x].isset = r[x].isset /\ u[x].ver = r[x].ver /\ u[x].res = r[x].res
  <1> DEFINE v == DoneAndWakeup(id, r)
             p == NewPosition(id)
  <1>1. ASSUME NEW x \in Ids
        PROVE  /\ v[x] \in Request
               /\ v[x].state = IF x = id THEN "DONE" ELSE IF x = r[id].pending THEN "QUEUED" ELSE r[x].state
               /\ v[x].flush = r[x].flush /\ v[x].pending = r[x].pending /\ v[x].supported = r[x].supported
               /\ v[x].isset = r[x].isset /\ v[x].ver = r[x].ver /\ v[x].res = r[x].res
    <2>1. v[x] = IF x = id THEN [r[x] EXCEPT !.state = "DONE"]
                 ELSE IF x = r[id].pending THEN [r[x] EXCEPT !.state = "QUEUED"] ELSE r[x]
      BY DEF DoneAndWakeup
    <2> HIDE DEF v
    <2>2. CASE x = id
      BY <2>1, <2>2 DEF Request
    <2>3. CASE x # id /\ x = r[id].pending
      BY <2>1, <2>3 DEF Request
    <2>4. CASE x # id /\ x # r[id].pending
      BY <2>1, <2>4 DEF Request
    <2> QED BY <2>2, <2>3, <2>4
  <1>2. p \in Ids
    <2>1. Head(queue) = queue[1] /\ 1 \in 1..Len(queue)
      BY HeadTailProperties, LenProperties, EmptySeq
    <2>2. \A k \in 1..Len(queue) : queue[k] \in Ids
      BY ElementOfSeq, Zenon
    <2> QED BY <2>1, <2>2 DEF NewPosition
  <1>3. v = [x \in Ids |-> v[x]]
    BY DEF DoneAndWakeup
  <1> HIDE DEF v, p
  <1>4. CASE id = Head(queue)
    <2>1. AppendFlushQueue(id, v) = v
      BY <1>4 DEF AppendFlushQueue
    <2>2. v \in [Ids -> Request]
      BY <1>1, <1>3
    <2> QED BY <1>1, <1>2, <1>4, <2>1, <2>2 DEF v, p
  <1>5. CASE id # Head(queue)
    <2> DEFINE w == [v EXCEPT ![p].flush = @ \o <<id>> \o v[id].flush]
    <2>1. AppendFlushQueue(id, v) = w
      BY <1>5 DEF AppendFlushQueue, p
    <2>2. v[p].flush \o <<id>> \o v[id].flush \in Seq(Ids)
      <3>1. v[p] \in Request /\ v[id] \in Request
        BY <1>1, <1>2
      <3>2. v[p].flush \in Seq(Ids) /\ v[id].flush \in Seq(Ids) /\ <<id>> \in Seq(Ids)
        BY <3>1 DEF Request
      <3> QED BY <3>2
    <2>3. ASSUME NEW x \in Ids
          PROVE  /\ w[x] \in Request
                 /\ w[x].state = v[x].state
                 /\ w[x].flush = IF x = p THEN v[p].flush \o <<id>> \o v[id].flush ELSE v[x].flush
                 /\ w[x].pending = v[x].pending /\ w[x].supported = v[x].supported
                 /\ w[x].isset = v[x].isset /\ w[x].ver = v[x].ver /\ w[x].res = v[x].res
      <3>1. w[x] = IF x = p THEN [v[x] EXCEPT !.flush = v[p].flush \o <<id>> \o v[id].flush] ELSE v[x]
        BY <1>3, <1>2
      <3>2. v[x] \in Request
        BY <1>1
      <3> DEFINE f == v[p].flush \o <<id>> \o v[id].flush
      <3>3. f \in Seq(Ids)
        BY <2>2
      <3> HIDE DEF f, w
      <3>4. CASE x = p
        <4>1. w[x] = [v[x] EXCEPT !.flush = f]
          BY <3>1, <3>4 DEF f
        <4>2. /\ w[x] \in Request /\ w[x].flush = f
              /\ w[x].state = v[x].state /\ w[x].pending = v[x].pending /\ w[x].supported = v[x].supported
              /\ w[x].isset = v[x].isset /\ w[x].ver = v[x].ver /\ w[x].res = v[x].res
          BY <4>1, <3>2, <3>3 DEF Request
        <4> QED BY <4>2, <3>4 DEF f
      <3>5. CASE x # p
        BY <3>1, <3>2, <3>5
      <3> QED BY <3>4, <3>5
    <2>4. w \in [Ids -> Request]
      <3>1. w = [x \in Ids |-> w[x]]
        BY <1>3
      <3> HIDE DEF w
      <3> QED BY <2>3, <3>1
    <2> HIDE DEF w
    <2>5. \A x \in Ids :
                   /\ w[x].state = IF x = id THEN "DONE" ELSE IF x = r[id].pending THEN "QUEUED" ELSE r[x].state
                   /\ w[x].flush = IF x = p THEN r[x].flush \o <<id>> \o r[id].flush ELSE r[x].flush
                   /\ w[x].pending = r[x].pending /\ w[x].supported = r[x].supported
                   /\ w[x].isset = r[x].isset /\ w[x].ver = r[x].ver /\ w[x].res = r[x].res
      <3>1. TAKE x \in Ids
      <3>2. v[p].flush = r[p].flush /\ v[id].flush = r[id].flush
        BY <1>1, <1>2
      <3> QED BY <1>1, <2>3, <3>2
    <2> QED BY <1>2, <1>5, <2>1, <2>4, <2>5 DEF v, p
  <1> QED BY <1>4, <1>5

(* What preprocessor_set_request_state_done does for request id, whose      *)
(* result is already in r, when the calls s2 are pending afterwards.       *)
DoneEffect(id, r, s2) ==
    /\ queue' \in Seq(Ids) /\ req' \in [Ids -> Request] /\ linked_items' \in [Items -> Ids \cup {None}]
    /\ priority_tail' \in Ids \cup {None}
    /\ \A x \in Ids :
          /\ req'[x].state = IF x = id THEN "DONE" ELSE IF x = req[id].pending THEN "QUEUED" ELSE req[x].state
          /\ req'[x].pending = r[x].pending /\ req'[x].supported = r[x].supported
          /\ req'[x].isset = r[x].isset /\ req'[x].ver = r[x].ver /\ req'[x].res = r[x].res
    /\ \A x \in Ids : x \notin Held(req) => req'[x].flush = r[x].flush
    /\ \A x \in Ids : x \in Held(req') <=> x \in Held(req)
    /\ \A x \in Ids : x \in Unfinished(req') <=> x \in Unfinished(req) /\ x # id
    /\ QueueInv(queue', req')
    /\ ChainInv(req', linked_items', s2)
    /\ In1(queue, id) /\ NewPosition(id) \in Ids /\ In1(queue', NewPosition(id))
    /\ \A y : y # id /\ In1(queue, y) => In1(queue', y)
    /\ \A x, y : Before(queue, FlushQueues(req), x, y) => Before(queue', FlushQueues(req'), x, y)

(* preprocessor_set_request_state_done: the value stays at one place of    *)
(* the queue, moved to the flush queue of the request before it if it is   *)
(* not the first; the request waiting for it is woken up, the chain of its *)
(* item goes on without it, and nothing is reordered.                      *)
LEMMA DoneStep ==
  ASSUME TypeInv, QueueInv(queue, req), ChainInv(req, linked_items, todo),
         NEW id \in Unfinished(req), req[id].state # "PENDING",
         NEW r \in [Ids -> Request],
         \A x \in Ids : r[x].state = req[x].state /\ r[x].flush = req[x].flush /\ r[x].pending = req[x].pending,
         preprocessor_set_request_state_done(id, r),
         NEW s2, \A x \in CallsIn(s2, "enqueue") : ItemOf(x) \in TopItems => x \in CallsIn(todo, "enqueue")
  PROVE  DoneEffect(id, r, s2)
  <1>0. /\ queue \in Seq(Ids) /\ req \in [Ids -> Request] /\ linked_items \in [Items -> Ids \cup {None}]
        /\ priority_tail \in Ids \cup {None}
    BY DEF TypeInv
  <1>1. id \in Ids /\ id \in Held(req) /\ In1(queue, id)
    BY DEF Unfinished, Held, QueueInv
  <1>2. /\ Index(id) \in 1..Len(queue) /\ queue[Index(id)] = id /\ Len(queue) \in Nat
        /\ queue # <<>> /\ Head(queue) = queue[1] /\ 1 \in 1..Len(queue)
    BY <1>0, <1>1, IndexProperties, LenProperties, EmptySeq, HeadTailProperties DEF In1
  <1> DEFINE n == Index(id)
             p == NewPosition(id)
  <1>3. r[id].pending = req[id].pending /\ r[id].pending # id
        /\ (r[id].pending # None => r[id].pending \in Unfinished(req))
    BY <1>1, LinkFacts, IdTypes
  <1>4. \A k \in 1..Len(queue) : queue[k] \in Ids
    BY <1>0, ElementOfSeq, Zenon
  <1>5. ASSUME id # Head(queue)
        PROVE  n # 1 /\ n - 1 \in 1..Len(queue) /\ p = queue[n - 1] /\ p # id /\ p \in Ids
    <2>1. n # 1 /\ n - 1 \in 1..Len(queue) /\ n - 1 # n
      BY <1>2, <1>5
    <2>2. p = queue[n - 1]
      BY <1>5 DEF NewPosition
    <2>3. queue[n - 1] # id
      <3> DEFINE F == FlushQueues(req)
      <3>1. F \in Queues
        BY <1>0, FlushQueuesType
      <3> HIDE DEF F
      <3>2. \A k \in 1..Len(queue) : Len(F[queue[k]]) \in Nat
        BY <3>1, <1>4, LenProperties DEF Queues
      <3>3. <<n - 1, 0>> \in Places(queue, F) /\ <<n, 0>> \in Places(queue, F)
        <4>1. n \in 1..Len(queue) /\ n - 1 \in 1..Len(queue) /\ 0 \in Nat
          BY <1>2, <2>1
        <4>2. 0 <= Len(F[queue[n]]) /\ 0 <= Len(F[queue[n - 1]])
          BY <3>2, <4>1
        <4> QED BY <4>1, <4>2, PlacesIn
      <3>4. At(queue, F, <<n - 1, 0>>) = queue[n - 1] /\ At(queue, F, <<n, 0>>) = queue[n]
        BY DEF At, Value
      <3>5. <<n - 1, 0>> # <<n, 0>>
        BY <2>1, <1>2
      <3>6. Unique(queue, F)
        BY DEF QueueInv, F
      <3> QED BY <3>3, <3>4, <3>5, <3>6, <1>2 DEF Unique
    <2> QED BY <2>1, <2>2, <2>3, <1>4
  <1>6. req' = AppendFlushQueue(id, DoneAndWakeup(id, r))
        /\ linked_items' = RemoveLink(id) /\ priority_tail' = MovePriorityTail(id)
        /\ queue' = IF id = Head(queue) THEN queue ELSE RemoveAt(queue, n)
    BY DEF preprocessor_set_request_state_done
  <1>7. id = Head(queue) \/ (Index(id) - 1 \in 1..Len(queue) /\ NewPosition(id) # id)
    BY <1>5
  <1> HIDE DEF n, p
  <1>8. /\ req' \in [Ids -> Request] /\ p \in Ids
        /\ \A x \in Ids :
              /\ req'[x].state = IF x = id THEN "DONE" ELSE IF x = r[id].pending THEN "QUEUED" ELSE r[x].state
              /\ req'[x].flush = IF id # Head(queue) /\ x = p THEN r[x].flush \o <<id>> \o r[id].flush
                                ELSE r[x].flush
              /\ req'[x].pending = r[x].pending /\ req'[x].supported = r[x].supported
              /\ req'[x].isset = r[x].isset /\ req'[x].ver = r[x].ver /\ req'[x].res = r[x].res
    <2> DEFINE u == AppendFlushQueue(id, DoneAndWakeup(id, r))
    <2>1. /\ u \in [Ids -> Request] /\ NewPosition(id) \in Ids
          /\ \A x \in Ids :
              /\ u[x].state = IF x = id THEN "DONE" ELSE IF x = r[id].pending THEN "QUEUED" ELSE r[x].state
              /\ u[x].flush = IF id # Head(queue) /\ x = NewPosition(id) THEN r[x].flush \o <<id>> \o r[id].flush
                              ELSE r[x].flush
              /\ u[x].pending = r[x].pending /\ u[x].supported = r[x].supported
              /\ u[x].isset = r[x].isset /\ u[x].ver = r[x].ver /\ u[x].res = r[x].res
      BY <1>0, <1>1, <1>2, <1>3, <1>7, DoneFields
    <2> HIDE DEF u
    <2>2. req' = u
      BY <1>6 DEF u
    <2> QED BY <2>1, <2>2 DEF p
  <1>9. \A x \in Ids : /\ req'[x].state = IF x = id THEN "DONE" ELSE IF x = req[id].pending THEN "QUEUED" ELSE req[x].state
                       /\ req'[x].pending = req[x].pending
    BY <1>3, <1>8
  <1>10. \A i \in Items : linked_items'[i] = IF i = ItemOf(id) /\ linked_items[i] = id THEN None ELSE linked_items[i]
    BY <1>0, <1>6 DEF RemoveLink
  <1>11. ChainInv(req', linked_items', s2) /\ \A x \in Ids : x \in Unfinished(req') <=> x \in Unfinished(req) /\ x # id
    BY <1>9, <1>10, ChainDone
  <1>12. \A x \in Ids : x \in Held(req') <=> x \in Held(req)
    <2>1. r[id].pending # None => req[r[id].pending].state # "FREE"
      BY <1>3 DEF Unfinished
    <2> QED BY <1>1, <1>3, <1>9, <2>1, IdTypes DEF Held
  <1>13. /\ QueueInv(queue', req') /\ queue' \in Seq(Ids)
         /\ \A y : y # id /\ In1(queue, y) => In1(queue', y)
         /\ \A x, y : Before(queue, FlushQueues(req), x, y) => Before(queue', FlushQueues(req'), x, y)
    <2>1. CASE id = Head(queue)
      <3>1. queue' = queue
        BY <1>6, <2>1
      <3>2. \A x \in Ids : req'[x].flush = req[x].flush
        BY <1>8, <2>1
      <3>3. FlushQueues(req') = FlushQueues(req)
        BY <3>2, FlushQueuesSame
      <3>4. QueueInv(queue, req')
        <4>1. \A x \in Unfinished(req') : x \in Unfinished(req)
          <5>1. \A y \in Unfinished(req') : y \in Ids
            BY DEF Unfinished
          <5> QED BY <5>1, <1>11
        <4> QED BY <4>1, <1>12, <3>2, QueueKeep
      <3> QED BY <1>0, <3>1, <3>3, <3>4
    <2>2. CASE id # Head(queue)
      <3>1. n # 1 /\ n \in 1..Len(queue) /\ n - 1 \in 1..Len(queue) /\ p = queue[n - 1] /\ p # id /\ queue[n] = id
        BY <1>2, <1>5, <2>2 DEF n
      <3>2. queue' = RemoveAt(queue, n)
        BY <1>6, <2>2 DEF n
      <3>3. req'[queue[n - 1]].flush = req[queue[n - 1]].flush \o <<queue[n]>> \o req[queue[n]].flush
        <4>1. req'[p].flush = r[p].flush \o <<id>> \o r[id].flush
          BY <1>8, <2>2
        <4>2. r[p].flush = req[p].flush /\ r[id].flush = req[id].flush
          BY <1>1, <1>8
        <4> QED BY <3>1, <4>1, <4>2
      <3>4. \A x \in Ids : x # queue[n - 1] => req'[x].flush = req[x].flush
        BY <1>8, <3>1
      <3>5. \A y \in Unfinished(req') : y \in Unfinished(req) /\ y # queue[n]
        <4>1. \A y \in Unfinished(req') : y \in Ids
          BY DEF Unfinished
        <4> QED BY <4>1, <1>11, <3>1
      <3> QED BY <1>0, <1>8, <1>12, <3>1, <3>2, <3>3, <3>4, <3>5, QueueMerge
    <2> QED BY <2>1, <2>2
  <1>14. In1(queue', p)
    <2>1. CASE id = Head(queue)
      BY <1>1, <1>6, <2>1 DEF p, NewPosition
    <2>2. CASE id # Head(queue)
      <3>1. In1(queue, p) /\ p # id
        BY <1>5, <2>2 DEF In1, n, p
      <3> QED BY <3>1, <1>13
    <2> QED BY <2>1, <2>2
  <1>15. linked_items' \in [Items -> Ids \cup {None}]
    BY <1>0, <1>6 DEF RemoveLink
  <1>16. priority_tail' \in Ids \cup {None}
    BY <1>0, <1>6, <1>8 DEF MovePriorityTail, p
  <1>17. \A x \in Ids : x \notin Held(req) => req'[x].flush = r[x].flush
    <2>1. id # Head(queue) => p \in Held(req)
      <3>1. SUFFICES ASSUME id # Head(queue) PROVE p \in Held(req)
        OBVIOUS
      <3>2. n - 1 \in 1..Len(queue) /\ p = queue[n - 1] /\ p \in Ids
        BY <1>5, <3>1 DEF n, p
      <3> DEFINE F == FlushQueues(req)
      <3>3. F \in Queues
        BY <1>0, FlushQueuesType
      <3> HIDE DEF F
      <3>4. Len(F[queue[n - 1]]) \in Nat
        BY <3>2, <3>3, LenProperties DEF Queues
      <3>5. <<n - 1, 0>> \in Places(queue, F)
        <4>1. n - 1 \in 1..Len(queue) /\ 0 \in Nat /\ 0 <= Len(F[queue[n - 1]])
          BY <3>2, <3>4
        <4> QED BY <4>1, PlacesIn
      <3>6. At(queue, F, <<n - 1, 0>>) = p
        BY <3>2 DEF At, Value
      <3> QED BY <3>2, <3>5, <3>6 DEF In, QueueInv, F
    <2> QED BY <1>8, <2>1
  <1> QED BY <1>1, <1>3, <1>8, <1>9, <1>11, <1>12, <1>13, <1>14, <1>15, <1>16, <1>17 DEF p, DoneEffect


(* When the first call returns, the calls left have no conflicts, and a    *)
(* collected value that was about to be enqueued came before those of its  *)
(* item that still are.                                                    *)
LEMMA ReturnCalls ==
  ASSUME NEW s \in Seq(CallRecord), s # <<>>, CallInv(s)
  PROVE  /\ CallInv(Tail(s))
         /\ Head(s).op = "enqueue" /\ ItemOf(Head(s).id) \in TopItems =>
               \A x \in CallsIn(Tail(s), "enqueue") : ItemOf(x) = ItemOf(Head(s).id) => Head(s).id[1] < x[1]
  <1> DEFINE t == Tail(s)
             c == Head(s)
  <1>1. /\ Len(t) = Len(s) - 1 /\ \A k \in 1..(Len(s) - 1) : t[k] = s[k + 1]
    BY HeadTailProperties
  <1>2. c = s[1] /\ Len(s) \in Nat /\ Len(s) > 0 /\ 1 \in 1..Len(s)
    BY HeadTailProperties, LenProperties, EmptySeq
  <1>3. Apart(t)
    BY TailCalls DEF CallInv
  <1> HIDE DEF t, c
  <1>4. \A k \in 1..Len(t) : k + 1 \in 1..Len(s) /\ t[k] = s[k + 1] /\ 1 < k + 1
    BY <1>1, <1>2
  <1>5. ASSUME NEW j \in 1..Len(t), NEW k \in 1..Len(t),
               j < k, t[j].op = "enqueue", t[k].op = "enqueue",
               ItemOf(t[j].id) \in TopItems, ItemOf(t[k].id) = ItemOf(t[j].id)
        PROVE  t[j].id[1] < t[k].id[1]
    <2>1. j + 1 < k + 1
      BY <1>5, <1>1, <1>2
    <2> QED BY <1>4, <1>5, <2>1 DEF CallInv, TopOrder
  <1>6. ASSUME c.op = "enqueue", ItemOf(c.id) \in TopItems, NEW x \in CallsIn(t, "enqueue"), ItemOf(x) = ItemOf(c.id)
        PROVE  c.id[1] < x[1]
    <2>1. PICK k \in 1..Len(t) : t[k].op = "enqueue" /\ t[k].id = x
      BY DEF CallsIn
    <2>2. k + 1 \in 1..Len(s) /\ s[k + 1] = t[k] /\ 1 < k + 1
      BY <1>4
    <2> QED BY <1>2, <1>6, <2>1, <2>2 DEF CallInv, TopOrder
  <1>7. TopOrder(t)
    BY <1>5 DEF TopOrder
  <1> QED BY <1>3, <1>6, <1>7 DEF CallInv, t, c

(* A call may be replaced by calls that are not in conflict with the ones  *)
(* left.                                                                   *)
LEMMA CallCalls ==
  ASSUME NEW s \in Seq(CallRecord), NEW t \in Seq(CallRecord), Apart(s), CallInv(t),
         \A x \in CallsIn(s, "enqueue") : ItemOf(x) \notin TopItems,
         \A x : x \in CallsIn(s, "enqueue") \/ x \in CallsIn(s, "dependents") =>
                  x \notin CallsIn(t, "enqueue") /\ x \notin CallsIn(t, "dependents"),
         \A x : x \in CallsIn(s, "clear") => x \notin CallsIn(t, "clear"),
         ReleasesIn(s) = {} \/ ReleasesIn(t) = {}
  PROVE  CallInv(s \o t)
  <1>1. Apart(s \o t)
    BY ConcatCalls DEF CallInv
  <1>2. /\ s \o t \in Seq(CallRecord) /\ Len(s \o t) = Len(s) + Len(t)
        /\ \A k \in 1..(Len(s) + Len(t)) : (s \o t)[k] = IF k <= Len(s) THEN s[k] ELSE t[k - Len(s)]
    BY ConcatProperties, Zenon
  <1> DEFINE u == s \o t
  <1>3. Len(s) \in Nat /\ Len(t) \in Nat
    BY LenProperties
  <1>4. ASSUME NEW k \in 1..Len(u)
        PROVE  (k \in 1..Len(s) /\ u[k] = s[k]) \/ (k - Len(s) \in 1..Len(t) /\ u[k] = t[k - Len(s)])
    <2>1. k \in 1..Len(s) \/ (k - Len(s) \in 1..Len(t) /\ ~(k <= Len(s)))
      BY <1>2, <1>3
    <2> QED BY <1>2, <1>3, <2>1
  <1> HIDE DEF u
  <1>5. ASSUME NEW k \in 1..Len(s), s[k].op = "enqueue" PROVE ItemOf(s[k].id) \notin TopItems
    <2>1. s[k] \in CallRecord
      BY ElementOfSeq, Zenon
    <2>2. s[k].id \in Ids
      BY <1>5, <2>1, CallTypes
    <2>3. s[k].id \in CallsIn(s, "enqueue")
      BY <1>5, <2>2 DEF CallsIn
    <2> QED BY <2>3
  <1>6. ASSUME NEW j \in 1..Len(u), NEW k \in 1..Len(u),
               j < k, u[j].op = "enqueue", u[k].op = "enqueue",
               ItemOf(u[j].id) \in TopItems, ItemOf(u[k].id) = ItemOf(u[j].id)
        PROVE  u[j].id[1] < u[k].id[1]
    <2>1. j - Len(s) \in 1..Len(t) /\ u[j] = t[j - Len(s)]
      BY <1>4, <1>5, <1>6
    <2>2. k - Len(s) \in 1..Len(t) /\ u[k] = t[k - Len(s)]
      BY <1>4, <1>5, <1>6
    <2>3. j - Len(s) < k - Len(s)
      BY <1>3, <1>6
    <2> QED BY <1>6, <2>1, <2>2, <2>3 DEF CallInv, TopOrder
  <1>7. TopOrder(u)
    BY <1>6 DEF TopOrder
  <1> QED BY <1>1, <1>7 DEF CallInv, u

(* Plain calls have no conflicts.                                          *)
LEMMA PlainCallInv ==
  ASSUME NEW s, Plain(s)
  PROVE  CallInv(s)
  <1>1. Apart(s)
    BY PlainCalls
  <1>2. TopOrder(s)
    BY DEF TopOrder, Plain
  <1> QED BY <1>1, <1>2 DEF CallInv

(* A call returns. *)
LEMMA TodoReturn ==
  ASSUME todo \in Seq(CallRecord), CallInv(todo), todo # <<>>, todo' = Tail(todo)
  PROVE  /\ todo' \in Seq(CallRecord) /\ CallInv(todo') /\ Head(todo) \in CallRecord
         /\ \A op, x : x \in CallsIn(todo', op) => x \in CallsIn(todo, op)
         /\ \A op, x : x \in CallsIn(todo, op) => x \in CallsIn(todo', op) \/ (Head(todo).op = op /\ Head(todo).id = x)
         /\ Head(todo).op \in {"enqueue", "dependents"} =>
               /\ Head(todo).id \in CallsIn(todo, Head(todo).op)
               /\ Head(todo).id \notin CallsIn(todo', "enqueue") /\ Head(todo).id \notin CallsIn(todo', "dependents")
         /\ Head(todo).op = "clear" => Head(todo).id \in CallsIn(todo, "clear") /\ Head(todo).id \notin CallsIn(todo', "clear")
         /\ Head(todo).op = "release" => Head(todo).worker \in ReleasesIn(todo) /\ ReleasesIn(todo') = {}
         /\ ReleasesIn(todo') \subseteq ReleasesIn(todo)
  <1>1. Apart(todo)
    BY DEF CallInv
  <1>2. CallInv(Tail(todo))
    BY ReturnCalls
  <1> QED BY <1>1, <1>2, TailCalls

(* A call is replaced by plain calls. *)
LEMMA TodoPlain ==
  ASSUME todo \in Seq(CallRecord), CallInv(todo), todo # <<>>, NEW s, Plain(s), todo' = s \o Tail(todo),
         Head(todo).op \notin {"enqueue", "dependents", "clear", "release"}
  PROVE  /\ todo' \in Seq(CallRecord) /\ CallInv(todo')
         /\ \A op \in {"enqueue", "dependents", "clear"} : \A x : x \in CallsIn(todo', op) <=> x \in CallsIn(todo, op)
         /\ ReleasesIn(todo') \subseteq ReleasesIn(todo)
  <1> DEFINE t == Tail(todo)
  <1>1. Apart(todo)
    BY DEF CallInv
  <1>2. /\ t \in Seq(CallRecord) /\ CallInv(t)
        /\ \A op, x : x \in CallsIn(t, op) => x \in CallsIn(todo, op)
        /\ \A op, x : x \in CallsIn(todo, op) => x \in CallsIn(t, op) \/ (Head(todo).op = op /\ Head(todo).id = x)
        /\ ReleasesIn(t) \subseteq ReleasesIn(todo)
    BY <1>1, TailCalls, ReturnCalls
  <1> HIDE DEF t
  <1>3. /\ s \in Seq(CallRecord) /\ Apart(s) /\ ReleasesIn(s) = {}
        /\ \A op \in {"enqueue", "dependents", "clear"} : \A x : x \notin CallsIn(s, op)
    BY PlainCalls
  <1>4. /\ s \o t \in Seq(CallRecord)
        /\ \A op, x : x \in CallsIn(s \o t, op) <=> x \in CallsIn(s, op) \/ x \in CallsIn(t, op)
        /\ \A w : w \in ReleasesIn(s \o t) <=> w \in ReleasesIn(s) \/ w \in ReleasesIn(t)
    BY <1>2, <1>3, ConcatCalls
  <1>5. CallInv(s \o t)
    BY <1>2, <1>3, CallCalls
  <1>6. todo' = s \o t
    BY DEF t
  <1>7. \A op \in {"enqueue", "dependents", "clear"} : \A x : x \in CallsIn(todo, op) <=> x \in CallsIn(t, op)
    BY <1>2
  <1> QED BY <1>2, <1>3, <1>4, <1>5, <1>6, <1>7

(* Nothing is pending, and a handler makes its plain calls. *)
LEMMA TodoFirst ==
  ASSUME todo = <<>>, NEW s, Plain(s), todo' = s
  PROVE  /\ todo' \in Seq(CallRecord) /\ CallInv(todo')
         /\ \A op \in {"enqueue", "dependents", "clear"} : \A x : x \in CallsIn(todo', op) <=> x \in CallsIn(todo, op)
         /\ ReleasesIn(todo') \subseteq ReleasesIn(todo)
  <1>1. \A op, x : x \notin CallsIn(<<>>, op)
    BY DEF CallsIn
  <1> QED BY <1>1, PlainCalls, PlainCallInv

(* The values stay where they are, or are done with. *)
LEMMA ValueKeep ==
  ASSUME NEW r, NEW fl, NEW s, NEW n \in Nat, NEW r2, NEW s2, NEW n2 \in Nat, ValueInv(r, fl, s, n), n <= n2,
         \A x \in Ids : x \notin Known(r) => r2[x].state = r[x].state /\ r2[x].flush = r[x].flush /\ r2[x].pending = r[x].pending,
         \A x \in Ids : x \in Known(r2) <=> x \in Known(r),
         \A x \in Ids : x \in Held(r2) <=> x \in Held(r),
         \A x \in Ids : x \in Unfinished(r2) => x \in Unfinished(r),
         \A x : x \in CallsIn(s2, "enqueue") <=> x \in CallsIn(s, "enqueue"),
         \A x : x \in CallsIn(s2, "dependents") => x \in CallsIn(s, "dependents") \/ (x \in Unfinished(r) /\ x \notin Unfinished(r2) /\ x \in Known(r)),
         \A x : x \in CallsIn(s2, "clear") => x \in CallsIn(s, "clear"),
         \A x \in CallsIn(s, "enqueue") : r2[x].flush = r[x].flush /\ r2[x].pending = r[x].pending
  PROVE  ValueInv(r2, fl, s2, n2)
  <1>1. \A op, x : x \in CallsIn(s, op) => x \in Ids
    BY DEF CallsIn
  <1>2. \A op, x : x \in CallsIn(s2, op) => x \in Ids
    BY DEF CallsIn
  <1>3. \A x \in Ids \ Known(r2) : r2[x].state = "FREE" /\ r2[x].flush = <<>> /\ r2[x].pending = None
    BY DEF ValueInv
  <1>4. \A x \in CallsIn(s2, "enqueue") : x \in Known(r2) /\ x \notin Held(r2) /\ ~In1(fl, x)
    BY <1>1 DEF ValueInv
  <1>5. \A x \in CallsIn(s2, "dependents") : x \in Known(r2) /\ x \notin Unfinished(r2)
    BY <1>1, <1>2 DEF ValueInv
  <1>6. \A x \in CallsIn(s2, "clear") : In1(fl, x)
    BY DEF ValueInv
  <1>7. \A x \in Ids : In1(fl, x) => x \in Known(r2) /\ x \notin Held(r2)
    BY DEF ValueInv
  <1>k. Known(r2) \subseteq Ids
    BY DEF Known
  <1>8. \A x \in Known(r2) : x \in Held(r2) \/ In1(fl, x) \/ x \in CallsIn(s2, "enqueue")
    BY <1>k DEF ValueInv
  <1>9. \A x \in CallsIn(s2, "enqueue") : r2[x].flush = <<>> /\ r2[x].pending = None
    BY DEF ValueInv
  <1>10. ASSUME NEW x \in Ids,
                x \notin Known(r2) \/ x \in CallsIn(s2, "enqueue") \/ x \in CallsIn(s2, "dependents") \/ x \in Unfinished(r2),
                NEW y \in Children(x)
         PROVE  y \notin Known(r2)
    <2>1. y \notin Known(r)
      BY <1>10 DEF ValueInv
    <2> QED BY <2>1, <1>k
  <1>11. \A x \in Known(r2) : x[1] <= n2
    <2>1. ASSUME NEW x \in Known(r2) PROVE x[1] <= n2
      <3>1. x[1] <= n
        BY <1>k DEF ValueInv
      <3>2. x[1] \in Nat
        BY <1>k, IdTypes
      <3> QED BY <3>1, <3>2
    <2> QED BY <2>1
  <1>12. Injective(fl)
    BY DEF ValueInv
  <1> QED BY <1>3, <1>4, <1>5, <1>6, <1>7, <1>8, <1>9, <1>10, <1>11, <1>12 DEF ValueInv

(* The workers go on with what they do. *)
LEMMA WorkKeep ==
  ASSUME WorkInv, UNCHANGED <<inbox, outbox, task, started, workers>>,
         ReleasesIn(todo') \subseteq ReleasesIn(todo),
         \A x \in Ids : req[x].state = "PROCESSING" => req'[x].state = "PROCESSING",
         \A x \in Ids : x \in Known(req) /\ x \notin Unfinished(req) /\ x \notin CallsIn(todo, "enqueue")
                        => x \in Known(req') /\ x \notin Unfinished(req') /\ x \notin CallsIn(todo', "enqueue")
  PROVE  WorkInv'
  <1>1. ASSUME NEW w \in Workers
        PROVE  WorkerInv(inbox[w], outbox[w], task[w], w \in started, In1(workers, w),
                         w \in ReleasesIn(todo'), req', CallsIn(todo', "enqueue"))
    <2>1. WorkerInv(inbox[w], outbox[w], task[w], w \in started, In1(workers, w),
                    w \in ReleasesIn(todo), req, CallsIn(todo, "enqueue"))
      BY DEF WorkInv
    <2>2. (w \in ReleasesIn(todo')) => (w \in ReleasesIn(todo))
      OBVIOUS
    <2> QED BY <2>1, <2>2 DEF WorkerInv
  <1>2. \A w \in Workers : WorkerInv(inbox'[w], outbox'[w], task'[w], w \in started', In1(workers', w),
                         w \in ReleasesIn(todo'), req', CallsIn(todo', "enqueue"))
    BY <1>1
  <1>3. \A v, w \in Workers : task'[v] = task'[w] /\ task'[v] \in Ids => v = w
    BY DEF WorkInv
  <1> QED BY <1>2, <1>3 DEF WorkInv


(* Steps that leave the queue and the values alone. *)
LEMMA OtherStep ==
  ASSUME IInv, TypeInv', WorkInv', UNCHANGED <<queue, req, linked_items, flushed, received>>,
         CallInv(todo'),
         \A x : x \in CallsIn(todo', "enqueue") <=> x \in CallsIn(todo, "enqueue"),
         \A x : x \in CallsIn(todo', "dependents") => x \in CallsIn(todo, "dependents"),
         \A x : x \in CallsIn(todo', "clear") => x \in CallsIn(todo, "clear")
  PROVE  IInv'
  <1>1. QueueInv(queue', req')
    BY DEF IInv
  <1>2. received \in Nat /\ received' = received /\ received <= received
    BY PreprocAssumption DEF IInv, TypeInv
  <1>3. ValueInv(req, flushed, todo', received)
    <2>1. ValueInv(req, flushed, todo, received)
      BY DEF IInv
    <2> QED BY <1>2, <2>1, ValueKeep
  <1>4. ChainInv(req, linked_items, todo')
    <2>1. ChainInv(req, linked_items, todo)
      BY DEF IInv
    <2> QED BY <2>1, ChainSame
  <1> QED BY <1>1, <1>2, <1>3, <1>4 DEF IInv

(* preprocessor_add_test_request preserves the invariant.                  *)
LEMMA AddTestRequest ==
  ASSUME IInv, NEW t \in Tests, preprocessor_add_test_request(t)
  PROVE  IInv'
  <1>1. TypeInv /\ WorkInv
    BY DEF IInv
  <1>2. Plain(<<Assign(1), Flush, FlushHistory>>) /\ todo = <<>> /\ todo' = <<Assign(1), Flush, FlushHistory>>
    BY PlainLists DEF preprocessor_add_test_request
  <1>3. /\ todo' \in Seq(CallRecord) /\ CallInv(todo')
        /\ \A op \in {"enqueue", "dependents", "clear"} : \A x : x \in CallsIn(todo', op) <=> x \in CallsIn(todo, op)
        /\ ReleasesIn(todo') \subseteq ReleasesIn(todo)
    BY <1>2, TodoFirst
  <1>4. TypeInv'
    BY <1>1, <1>3 DEF TypeInv, preprocessor_add_test_request, qvars, nvars, wvars, ovars
  <1>5. UNCHANGED <<queue, req, linked_items, flushed, received, inbox, outbox, task, started, workers>>
    BY DEF preprocessor_add_test_request, qvars, wvars, ovars
  <1>6. WorkInv'
    BY <1>1, <1>3, <1>5, WorkKeep
  <1> QED BY <1>3, <1>4, <1>5, <1>6, OtherStep

(* A worker has at most one message, sent or received. *)
LEMMA OneMessage ==
  ASSUME NEW in \in Seq(Sent), NEW out \in Seq(Reply), Len(in) + Len(out) <= 1
  PROVE  /\ out # <<>> => in = <<>> /\ Tail(out) = <<>> /\ Head(out) = out[1] /\ Head(out) \in Reply
         /\ in # <<>> => out = <<>> /\ Tail(in) = <<>> /\ Head(in) = in[1] /\ Head(in) \in Sent
  <1>1. Len(in) \in Nat /\ Len(out) \in Nat /\ (in = <<>> <=> Len(in) = 0) /\ (out = <<>> <=> Len(out) = 0)
    BY LenProperties, EmptySeq
  <1>2. \A a, b \in Nat : a + b <= 1 /\ b # 0 => a = 0 /\ b - 1 = 0
    OBVIOUS
  <1>3. \A a, b \in Nat : a + b <= 1 /\ a # 0 => b = 0 /\ a - 1 = 0
    OBVIOUS
  <1>4. ASSUME out # <<>> PROVE in = <<>> /\ Tail(out) = <<>> /\ Head(out) = out[1] /\ Head(out) \in Reply
    <2>1. Len(in) = 0 /\ Len(out) - 1 = 0
      BY <1>1, <1>2, <1>4
    <2>2. Tail(out) \in Seq(Reply) /\ Len(Tail(out)) = Len(out) - 1 /\ Head(out) = out[1] /\ Head(out) \in Reply
      BY <1>4, HeadTailProperties
    <2>3. Tail(out) = <<>>
      BY <2>1, <2>2, EmptySeq
    <2> QED BY <1>1, <2>1, <2>2, <2>3
  <1>5. ASSUME in # <<>> PROVE out = <<>> /\ Tail(in) = <<>> /\ Head(in) = in[1] /\ Head(in) \in Sent
    <2>1. Len(out) = 0 /\ Len(in) - 1 = 0
      BY <1>1, <1>3, <1>5
    <2>2. Tail(in) \in Seq(Sent) /\ Len(Tail(in)) = Len(in) - 1 /\ Head(in) = in[1] /\ Head(in) \in Sent
      BY <1>5, HeadTailProperties
    <2>3. Tail(in) = <<>>
      BY <2>1, <2>2, EmptySeq
    <2> QED BY <1>1, <2>1, <2>2, <2>3
  <1> QED BY <1>4, <1>5

(* A step of one worker, or of the manager for it. *)
LEMMA WorkOne ==
  ASSUME WorkInv, NEW w \in Workers,
         \A v \in Workers : v # w =>
            /\ inbox'[v] = inbox[v] /\ outbox'[v] = outbox[v] /\ task'[v] = task[v]
            /\ (v \in started') <=> (v \in started)
            /\ In1(workers', v) <=> In1(workers, v)
            /\ v \in ReleasesIn(todo') => v \in ReleasesIn(todo),
         \A x \in Ids : x # task[w] /\ req[x].state = "PROCESSING" => req'[x].state = "PROCESSING",
         \A x \in Ids : x \in Known(req) /\ x \notin Unfinished(req) /\ x \notin CallsIn(todo, "enqueue")
                        => x \in Known(req') /\ x \notin Unfinished(req') /\ x \notin CallsIn(todo', "enqueue"),
         WorkerInv(inbox'[w], outbox'[w], task'[w], w \in started', In1(workers', w),
                   w \in ReleasesIn(todo'), req', CallsIn(todo', "enqueue")),
         task'[w] \in Ids => \A v \in Workers : v # w => task[v] # task'[w]
  PROVE  WorkInv'
  <1>1. ASSUME NEW v \in Workers
        PROVE  WorkerInv(inbox'[v], outbox'[v], task'[v], v \in started', In1(workers', v),
                         v \in ReleasesIn(todo'), req', CallsIn(todo', "enqueue"))
    <2>1. CASE v # w
      <3>1. WorkerInv(inbox[v], outbox[v], task[v], v \in started, In1(workers, v),
                      v \in ReleasesIn(todo), req, CallsIn(todo, "enqueue"))
        BY DEF WorkInv
      <3>2. task[v] \in Ids => task[v] # task[w]
        BY <2>1 DEF WorkInv
      <3> QED BY <2>1, <3>1, <3>2 DEF WorkerInv
    <2> QED BY <2>1
  <1>2. \A u, v \in Workers : task'[u] = task'[v] /\ task'[u] \in Ids => u = v
    BY DEF WorkInv
  <1> QED BY <1>1, <1>2 DEF WorkInv

(* A worker has at most one message under way, which is the first of its   *)
(* list.                                                                   *)
LEMMA WorkerFacts ==
  ASSUME TypeInv, WorkInv, NEW w \in Workers
  PROVE  /\ inbox[w] \in Seq(Sent) /\ outbox[w] \in Seq(Reply)
         /\ WorkerInv(inbox[w], outbox[w], task[w], w \in started, In1(workers, w),
                      w \in ReleasesIn(todo), req, CallsIn(todo, "enqueue"))
         /\ outbox[w] # <<>> => inbox[w] = <<>> /\ Tail(outbox[w]) = <<>> /\ Head(outbox[w]) = outbox[w][1] /\ Head(outbox[w]) \in Reply
         /\ inbox[w] # <<>> => outbox[w] = <<>> /\ Tail(inbox[w]) = <<>> /\ Head(inbox[w]) = inbox[w][1] /\ Head(inbox[w]) \in Sent
  <1>1. inbox[w] \in Seq(Sent) /\ outbox[w] \in Seq(Reply)
    BY DEF TypeInv
  <1>2. WorkerInv(inbox[w], outbox[w], task[w], w \in started, In1(workers, w),
                  w \in ReleasesIn(todo), req, CallsIn(todo, "enqueue"))
    BY DEF WorkInv
  <1>3. Len(inbox[w]) + Len(outbox[w]) <= 1
    BY <1>2 DEF WorkerInv
  <1> QED BY <1>1, <1>2, <1>3, OneMessage

(* preprocessor_register_worker preserves the invariant: a worker          *)
(* registers once and has no task.                                         *)
LEMMA RegisterWorker ==
  ASSUME IInv, NEW w \in Workers, preprocessor_register_worker(w)
  PROVE  IInv'
  <1>1. TypeInv /\ WorkInv
    BY DEF IInv
  <1>2. Plain(<<Assign(1), FlushHistory>>) /\ todo = <<>> /\ todo' = <<Assign(1), FlushHistory>>
    BY PlainLists DEF preprocessor_register_worker
  <1>3. /\ todo' \in Seq(CallRecord) /\ CallInv(todo')
        /\ \A op \in {"enqueue", "dependents", "clear"} : \A x : x \in CallsIn(todo', op) <=> x \in CallsIn(todo, op)
        /\ ReleasesIn(todo') \subseteq ReleasesIn(todo)
    BY <1>2, TodoFirst
  <1>4. UNCHANGED <<queue, req, linked_items, flushed, received, inbox, task, started>>
        /\ workers' = Append(workers, w) /\ outbox' = [outbox EXCEPT ![w] = Tail(@)]
        /\ outbox[w] # <<>> /\ Head(outbox[w]).kind = "register"
    BY DEF preprocessor_register_worker, qvars, ovars
  <1>5. /\ WorkerInv(inbox[w], outbox[w], task[w], w \in started, In1(workers, w),
                      w \in ReleasesIn(todo), req, CallsIn(todo, "enqueue"))
        /\ inbox[w] = <<>> /\ Tail(outbox[w]) = <<>> /\ Head(outbox[w]) = outbox[w][1]
    BY <1>1, <1>4, WorkerFacts
  <1>6. <<>> \in Seq(Reply) /\ Len(<<>>) + Len(<<>>) <= 1
    OBVIOUS
  <1>7. TypeInv'
    <2>1. outbox' \in [Workers -> Seq(Reply)]
      BY <1>1, <1>4, <1>5, <1>6 DEF TypeInv
    <2>2. workers' \in Seq(Workers)
      BY <1>1, <1>4 DEF TypeInv
    <2> QED BY <1>1, <1>3, <2>1, <2>2 DEF TypeInv, preprocessor_register_worker, qvars, nvars, ovars
  <1>8. workers \in Seq(Workers) /\ \A v \in Workers : In1(workers', v) <=> In1(workers, v) \/ v = w
    <2>1. workers \in Seq(Workers) /\ Len(workers) \in Nat
      BY <1>1, LenProperties DEF TypeInv
    <2>2. Len(workers') = Len(workers) + 1 /\ (\A k \in 1..Len(workers) : workers'[k] = workers[k])
          /\ workers'[Len(workers) + 1] = w
      BY <1>4, <2>1
    <2>3. \A k \in 1..Len(workers') : k \in 1..Len(workers) \/ k = Len(workers) + 1
      BY <2>1, <2>2
    <2>4. (\A k \in 1..Len(workers) : k \in 1..Len(workers')) /\ Len(workers) + 1 \in 1..Len(workers')
      BY <2>1, <2>2
    <2> QED BY <2>1, <2>2, <2>3, <2>4 DEF In1
  <1>9. WorkInv'
    <2>1. \A v \in Workers : v # w => outbox'[v] = outbox[v] /\ (In1(workers', v) <=> In1(workers, v))
      BY <1>1, <1>4, <1>8 DEF TypeInv
    <2>2. task[w] = None /\ w \in started /\ w \notin ReleasesIn(todo)
      BY <1>4, <1>5, IdTypes DEF WorkerInv
    <2>3. /\ task'[w] = None /\ w \in started' /\ w \notin ReleasesIn(todo') /\ None \notin Ids
          /\ inbox'[w] = <<>> /\ outbox'[w] = <<>>
      BY <1>1, <1>3, <1>4, <1>5, <2>2, IdTypes DEF TypeInv
    <2>4. WorkerInv(inbox'[w], outbox'[w], task'[w], w \in started', In1(workers', w),
                    w \in ReleasesIn(todo'), req', CallsIn(todo', "enqueue"))
      BY <1>6, <2>3 DEF WorkerInv
    <2> QED BY <1>1, <1>3, <1>4, <2>1, <2>3, <2>4, WorkOne
  <1> QED BY <1>3, <1>4, <1>7, <1>9, OtherStep


(* preprocessor_flush_test_result preserves the invariant.                 *)
LEMMA FlushTestResult ==
  ASSUME IInv, NEW w \in Workers, preprocessor_flush_test_result(w)
  PROVE  IInv'
  <1>1. TypeInv /\ WorkInv
    BY DEF IInv
  <1>2. Plain(<<Assign(1), Flush, FlushHistory>>) /\ todo = <<>> /\ todo' = <<Assign(1), Flush, FlushHistory>>
    BY PlainLists DEF preprocessor_flush_test_result
  <1>3. /\ todo' \in Seq(CallRecord) /\ CallInv(todo')
        /\ \A op \in {"enqueue", "dependents", "clear"} : \A x : x \in CallsIn(todo', op) <=> x \in CallsIn(todo, op)
        /\ ReleasesIn(todo') \subseteq ReleasesIn(todo)
    BY <1>2, TodoFirst
  <1>4. UNCHANGED <<queue, req, linked_items, flushed, received, inbox, workers, started>>
        /\ task' = [task EXCEPT ![w] = None] /\ outbox' = [outbox EXCEPT ![w] = Tail(@)]
        /\ outbox[w] # <<>> /\ Head(outbox[w]).kind = "test_result"
        /\ tests' = [tests EXCEPT ![task[w]] = IF @ = "waiting" THEN "answered" ELSE @]
    BY DEF preprocessor_flush_test_result, qvars, ovars
  <1>5. /\ WorkerInv(inbox[w], outbox[w], task[w], w \in started, In1(workers, w),
                      w \in ReleasesIn(todo), req, CallsIn(todo, "enqueue"))
        /\ inbox[w] = <<>> /\ Tail(outbox[w]) = <<>> /\ Head(outbox[w]) = outbox[w][1]
    BY <1>1, <1>4, WorkerFacts
  <1>6. <<>> \in Seq(Reply) /\ Len(<<>>) + Len(<<>>) <= 1
    OBVIOUS
  <1>7. TypeInv'
    <2>1. outbox' \in [Workers -> Seq(Reply)]
      BY <1>1, <1>4, <1>5, <1>6 DEF TypeInv
    <2>2. task' \in [Workers -> Ids \cup Tests \cup {None}]
      BY <1>1, <1>4 DEF TypeInv
    <2>3. tests' \in [Tests -> {"idle", "waiting", "answered", "closed"}]
      BY <1>1, <1>4 DEF TypeInv
    <2> QED BY <1>1, <1>3, <2>1, <2>2, <2>3 DEF TypeInv, preprocessor_flush_test_result, qvars, nvars, ovars
  <1>9. WorkInv'
    <2>1. \A v \in Workers : v # w => outbox'[v] = outbox[v] /\ task'[v] = task[v]
      BY <1>1, <1>4 DEF TypeInv
    <2>2. w \notin ReleasesIn(todo) /\ (In1(workers, w) => w \in started)
      BY <1>4, <1>5 DEF WorkerInv
    <2>3. /\ task'[w] = None /\ w \notin ReleasesIn(todo') /\ None \notin Ids
          /\ inbox'[w] = <<>> /\ outbox'[w] = <<>> /\ (In1(workers', w) => w \in started')
      BY <1>1, <1>3, <1>4, <1>5, <2>2, IdTypes DEF TypeInv
    <2>4. WorkerInv(inbox'[w], outbox'[w], task'[w], w \in started', In1(workers', w),
                    w \in ReleasesIn(todo'), req', CallsIn(todo', "enqueue"))
      BY <1>6, <2>3 DEF WorkerInv
    <2> QED BY <1>1, <1>3, <1>4, <2>1, <2>3, <2>4, WorkOne
  <1> QED BY <1>3, <1>4, <1>7, <1>9, OtherStep

(* A second without a message preserves the invariant.                     *)
LEMMA RecvTimeout ==
  ASSUME IInv, recv_timeout
  PROVE  IInv'
  <1>1. TypeInv /\ WorkInv
    BY DEF IInv
  <1>2. Plain(<<FlushHistory>>) /\ todo = <<>> /\ todo' = <<FlushHistory>>
    BY PlainLists DEF recv_timeout
  <1>3. /\ todo' \in Seq(CallRecord) /\ CallInv(todo')
        /\ \A op \in {"enqueue", "dependents", "clear"} : \A x : x \in CallsIn(todo', op) <=> x \in CallsIn(todo, op)
        /\ ReleasesIn(todo') \subseteq ReleasesIn(todo)
    BY <1>2, TodoFirst
  <1>4. TypeInv'
    BY <1>1, <1>3 DEF TypeInv, recv_timeout, qvars, nvars, wvars, ovars
  <1>5. UNCHANGED <<queue, req, linked_items, flushed, received, inbox, outbox, task, started, workers>>
    BY DEF recv_timeout, qvars, wvars, ovars
  <1>6. WorkInv'
    BY <1>1, <1>3, <1>5, WorkKeep
  <1> QED BY <1>3, <1>4, <1>5, <1>6, OtherStep

(* A call that returns at once. *)
LEMMA ReturnStep ==
  ASSUME IInv, todo # <<>>, Return, Head(todo).op # "enqueue", TypeInv',
         UNCHANGED <<queue, req, linked_items, flushed, received, inbox, outbox, task, started, workers>>
  PROVE  IInv'
  <1>1. TypeInv /\ WorkInv /\ todo \in Seq(CallRecord) /\ CallInv(todo) /\ todo' = Tail(todo)
    BY DEF IInv, TypeInv, Return
  <1>3. /\ todo' \in Seq(CallRecord) /\ CallInv(todo') /\ Head(todo) \in CallRecord
        /\ \A op, x : x \in CallsIn(todo', op) => x \in CallsIn(todo, op)
        /\ \A op, x : x \in CallsIn(todo, op) => x \in CallsIn(todo', op) \/ (Head(todo).op = op /\ Head(todo).id = x)
        /\ ReleasesIn(todo') \subseteq ReleasesIn(todo)
    BY <1>1, TodoReturn
  <1>4. \A x : x \in CallsIn(todo', "enqueue") <=> x \in CallsIn(todo, "enqueue")
    BY <1>3
  <1>5. WorkInv'
    BY <1>1, <1>3, <1>4, WorkKeep
  <1> QED BY <1>3, <1>4, <1>5, OtherStep

(* The calls that are left when a call returns.                            *)
LEMMA ReturnType ==
  ASSUME IInv, todo # <<>>, Return
  PROVE  todo' \in Seq(CallRecord) /\ TypeInv
  <1>1. TypeInv /\ todo \in Seq(CallRecord) /\ CallInv(todo) /\ todo' = Tail(todo)
    BY DEF IInv, TypeInv, Return
  <1> QED BY <1>1, TodoReturn

(* The end of preprocessor_enqueue, where queued_num is raised, preserves  *)
(* the invariant.                                                          *)
LEMMA EnqueueEnd ==
  ASSUME IInv, enqueue_end
  PROVE  IInv'
  <1>1. todo # <<>> /\ Return /\ Head(todo).op = "queued"
    BY DEF enqueue_end, Calling
  <1>2. TypeInv'
    BY <1>1, ReturnType DEF TypeInv, enqueue_end, qvars, wvars, ovars
  <1> QED BY <1>1, <1>2, ReturnStep DEF enqueue_end, qvars, wvars, ovars

(* preproc_item_value_clear preserves the invariant.                       *)
LEMMA ClearStep ==
  ASSUME IInv, preproc_item_value_clear
  PROVE  IInv'
  <1>1. todo # <<>> /\ Return /\ Head(todo).op = "clear"
    BY DEF preproc_item_value_clear, Calling
  <1>2. TypeInv'
    <2>1. refcount' \in [Results -> Int]
      <3>1. refcount \in [Results -> Int]
        BY <1>1, ReturnType DEF TypeInv
      <3>2. ASSUME NEW k PROVE [refcount EXCEPT ![k] = @ - 1] \in [Results -> Int]
        <4>1. \A r \in Results : refcount[r] \in Int /\ refcount[r] - 1 \in Int
          BY <3>1
        <4> QED BY <3>1, <4>1
      <3>3. refcount' = [refcount EXCEPT ![req[Head(todo).id].res] = @ - 1]
        BY DEF preproc_item_value_clear
      <3> QED BY <3>2, <3>3
    <2> QED BY <1>1, <2>1, ReturnType DEF TypeInv, preproc_item_value_clear, nvars, wvars, ovars
  <1> QED BY <1>1, <1>2, ReturnStep DEF preproc_item_value_clear, wvars, ovars

(* dc_flush_history at the end of an iteration of the main loop preserves  *)
(* the invariant.                                                          *)
LEMMA FlushHistoryStep ==
  ASSUME IInv, flush_history
  PROVE  IInv'
  <1>1. todo # <<>> /\ Return /\ Head(todo).op = "history"
    BY DEF flush_history, Calling
  <1>2. TypeInv'
    <2>1. Len(flushed) \in Nat
      BY LenProperties DEF IInv, TypeInv
    <2>2. delivered' \in 0..Len(flushed)
      BY <2>1, <1>1, ReturnType DEF flush_history, TypeInv
    <2> QED BY <1>1, <2>2, ReturnType DEF TypeInv, flush_history, qvars, nvars, wvars
  <1> QED BY <1>1, <1>2, ReturnStep DEF flush_history, qvars, wvars

(* The end of preprocessor_add_result, where the worker becomes free,      *)
(* preserves the invariant.                                                *)
LEMMA ResultEnd ==
  ASSUME IInv, result_end
  PROVE  IInv'
  <1> DEFINE w == Head(todo).worker
  <1>1. TypeInv /\ WorkInv /\ todo \in Seq(CallRecord) /\ CallInv(todo) /\ todo' = Tail(todo)
        /\ todo # <<>> /\ Head(todo).op = "release"
    BY DEF IInv, TypeInv, Return, result_end, Calling
  <1>3. /\ todo' \in Seq(CallRecord) /\ CallInv(todo') /\ Head(todo) \in CallRecord
        /\ \A op, x : x \in CallsIn(todo', op) => x \in CallsIn(todo, op)
        /\ \A op, x : x \in CallsIn(todo, op) => x \in CallsIn(todo', op) \/ (Head(todo).op = op /\ Head(todo).id = x)
        /\ w \in ReleasesIn(todo) /\ ReleasesIn(todo') = {}
    BY <1>1, TodoReturn
  <1>4. UNCHANGED <<queue, req, linked_items, flushed, received, inbox, outbox, workers, started>>
        /\ task' = [task EXCEPT ![w] = None]
    BY DEF result_end, qvars, wvars, ovars
  <1>w. w \in Workers
    BY <1>3 DEF ReleasesIn
  <1> HIDE DEF w
  <1>5. \A op \in {"enqueue", "dependents", "clear"} : \A x : x \in CallsIn(todo', op) <=> x \in CallsIn(todo, op)
    BY <1>1, <1>3
  <1>7. TypeInv'
    <2>2. task' \in [Workers -> Ids \cup Tests \cup {None}]
      BY <1>1, <1>4 DEF TypeInv
    <2> QED BY <1>1, <1>3, <2>2 DEF TypeInv, result_end, qvars, wvars, ovars
  <1>9. WorkInv'
    <2>1. \A v \in Workers : v # w => task'[v] = task[v]
      BY <1>1, <1>4 DEF TypeInv
    <2>2. WorkerInv(inbox[w], outbox[w], task[w], w \in started, In1(workers, w),
                      w \in ReleasesIn(todo), req, CallsIn(todo, "enqueue"))
      BY <1>1, <1>w, WorkerFacts
    <2>3. /\ task'[w] = None /\ w \notin ReleasesIn(todo') /\ None \notin Ids
          /\ inbox'[w] = <<>> /\ outbox'[w] = <<>> /\ (In1(workers', w) => w \in started')
      BY <1>1, <1>3, <1>4, <1>w, <2>2, IdTypes DEF TypeInv, WorkerInv
    <2>5. Len(<<>>) + Len(<<>>) <= 1
      OBVIOUS
    <2>4. WorkerInv(inbox'[w], outbox'[w], task'[w], w \in started', In1(workers', w),
                    w \in ReleasesIn(todo'), req', CallsIn(todo', "enqueue"))
      BY <2>3, <2>5 DEF WorkerInv
    <2> QED BY <1>w, <1>1, <1>3, <1>4, <1>5, <2>1, <2>3, <2>4, WorkOne
  <1> QED BY <1>3, <1>4, <1>5, <1>7, <1>9, OtherStep

(* A client that no longer waits for its test result preserves the         *)
(* invariant.                                                              *)
LEMMA ClientClose ==
  ASSUME IInv, NEW t \in Tests, client_close(t)
  PROVE  IInv'
  <1>1. TypeInv /\ WorkInv /\ CallInv(todo)
    BY DEF IInv
  <1>4. TypeInv'
    BY <1>1 DEF TypeInv, client_close, qvars, nvars, wvars, ovars
  <1>5. UNCHANGED <<todo, queue, req, linked_items, flushed, received, inbox, outbox, task, started, workers>>
    BY DEF client_close, qvars, wvars, ovars
  <1>6. WorkInv'
    BY <1>1, <1>5, WorkKeep
  <1> QED BY <1>1, <1>4, <1>5, <1>6, OtherStep

(* A configuration change preserves the invariant: the manager looks at    *)
(* its own copy.                                                           *)
LEMMA ConfigChange ==
  ASSUME IInv, NEW i \in Items, NEW present \in BOOLEAN, config_change(i, present)
  PROVE  IInv'
  <1>1. TypeInv /\ WorkInv /\ CallInv(todo)
    BY DEF IInv
  <1>2. config' \in [Items -> Config]
    <2>1. config \in [Items -> Config] /\ MaxConfigChanges \in Nat
      BY <1>1, PreprocAssumption DEF TypeInv
    <2>2. config[i].ver \in 0..MaxConfigChanges /\ config[i].ver < MaxConfigChanges
      BY <2>1 DEF config_change, Config
    <2>3. config[i].ver + 1 \in 0..MaxConfigChanges
      BY <2>1, <2>2
    <2>4. [present |-> present, ver |-> config[i].ver + 1] \in Config
      BY <2>3 DEF Config
    <2>5. config' = [config EXCEPT ![i] = [present |-> present, ver |-> config[i].ver + 1]]
      BY <2>1 DEF config_change
    <2> QED BY <2>1, <2>4, <2>5
  <1>4. TypeInv'
    BY <1>1, <1>2 DEF TypeInv, config_change, qvars, nvars, wvars, ovars
  <1>5. UNCHANGED <<todo, queue, req, linked_items, flushed, received, inbox, outbox, task, started, workers>>
    BY DEF config_change, qvars, wvars, ovars
  <1>6. WorkInv'
    BY <1>1, <1>5, WorkKeep
  <1> QED BY <1>1, <1>4, <1>5, <1>6, OtherStep


(* A worker that starts and sends its registration preserves the           *)
(* invariant.                                                              *)
LEMMA WorkerStart ==
  ASSUME IInv, NEW w \in Workers, worker_start(w)
  PROVE  IInv'
  <1>1. TypeInv /\ WorkInv /\ CallInv(todo)
    BY DEF IInv
  <1>2. UNCHANGED <<todo, queue, req, linked_items, flushed, received, inbox, task, workers>>
        /\ w \notin started /\ started' = started \cup {w}
        /\ outbox' = [outbox EXCEPT ![w] = Append(@, [kind |-> "register"])]
    BY DEF worker_start, qvars, ovars
  <1>3. WorkerInv(inbox[w], outbox[w], task[w], w \in started, In1(workers, w),
                  w \in ReleasesIn(todo), req, CallsIn(todo, "enqueue"))
    BY <1>1, WorkerFacts
  <1>4. inbox[w] = <<>> /\ outbox[w] = <<>> /\ task[w] = None /\ ~In1(workers, w) /\ w \notin ReleasesIn(todo)
    BY <1>2, <1>3 DEF WorkerInv
  <1> DEFINE m == [kind |-> "register"]
  <1>5. m \in Reply /\ m.kind = "register" /\ <<m>> \in Seq(Reply) /\ Append(<<>>, m) = <<m>> /\ <<m>>[1] = m
        /\ Len(<<>>) + Len(<<m>>) <= 1
    BY DEF Reply
  <1> HIDE DEF m
  <1>6. outbox'[w] = <<m>> /\ \A v \in Workers : v # w => outbox'[v] = outbox[v]
    BY <1>1, <1>2, <1>4, <1>5 DEF TypeInv, m
  <1>7. outbox' \in [Workers -> Seq(Reply)]
    BY <1>1, <1>2, <1>4, <1>5 DEF TypeInv, m
  <1>8. TypeInv'
    BY <1>1, <1>2, <1>7 DEF TypeInv, worker_start, qvars, nvars, ovars
  <1>9. WorkInv'
    <2>1. WorkerInv(inbox'[w], outbox'[w], task'[w], w \in started', In1(workers', w),
                    w \in ReleasesIn(todo'), req', CallsIn(todo', "enqueue"))
      <3>1. /\ inbox'[w] = <<>> /\ task'[w] = None /\ ~In1(workers', w) /\ w \notin ReleasesIn(todo') /\ w \in started'
            /\ None \notin Ids
        BY <1>2, <1>4, IdTypes
      <3> QED BY <1>5, <1>6, <3>1 DEF WorkerInv
    <2>2. \A v \in Workers : v # w => ((v \in started') <=> (v \in started))
      BY <1>2
    <2>3. task'[w] \notin Ids
      BY <1>2, <1>4, IdTypes
    <2> QED BY <1>1, <1>2, <1>6, <2>1, <2>2, <2>3, WorkOne
  <1> QED BY <1>1, <1>2, <1>8, <1>9, OtherStep

(* The fields of a message to a worker.                                    *)
LEMMA SentTypes ==
  ASSUME NEW m \in Sent
  PROVE  /\ m.kind \in {"test", "request"}
         /\ m.kind = "request" => m.id \in Ids /\ m.ver \in 0..MaxConfigChanges /\ m.history \in History \cup {None}
  BY DEF Sent

(* What worker_preprocess_value returns is a result.                       *)
LEMMA OutcomesType ==
  ASSUME NEW m \in Sent, m.kind = "request", NEW o \in Outcomes(m)
  PROVE  o[1] \in {"value", "none", "error"} /\ o[2] \in History \cup {None}
  <1>1. m.id \in Ids /\ m.ver \in 0..MaxConfigChanges /\ m.history \in History \cup {None}
    BY SentTypes
  <1> DEFINE remembered == [n |-> m.id[1], ver |-> m.ver]
  <1>2. remembered \in History
    BY <1>1, IdTypes DEF History
  <1>3. o \in (({"value", "none", "error"} \X {remembered, None}) \cup {<<"none", m.history>>})
        \/ o \in {"value", "none", "error"} \X {None}
    BY DEF Outcomes
  <1> HIDE DEF remembered
  <1> QED BY <1>1, <1>2, <1>3

(* worker_preprocess_value preserves the invariant: the request becomes a  *)
(* result, one for one.                                                    *)
LEMMA WorkerPreprocess ==
  ASSUME IInv, NEW w \in Workers, worker_preprocess_value(w)
  PROVE  IInv'
  <1>1. TypeInv /\ WorkInv /\ CallInv(todo)
    BY DEF IInv
  <1>a. PICK o \in Outcomes(Head(inbox[w])) :
          outbox' = [outbox EXCEPT ![w] = Append(@, [kind |-> "result", outcome |-> o[1], history |-> o[2]])]
    BY DEF worker_preprocess_value
  <1>2. UNCHANGED <<todo, queue, req, linked_items, flushed, received, started, task, workers>>
        /\ inbox[w] # <<>> /\ Head(inbox[w]).kind = "request" /\ inbox' = [inbox EXCEPT ![w] = Tail(@)]
    BY DEF worker_preprocess_value, qvars, ovars
  <1>3. /\ WorkerInv(inbox[w], outbox[w], task[w], w \in started, In1(workers, w),
                     w \in ReleasesIn(todo), req, CallsIn(todo, "enqueue"))
        /\ outbox[w] = <<>> /\ Tail(inbox[w]) = <<>> /\ Head(inbox[w]) = inbox[w][1] /\ Head(inbox[w]) \in Sent
    BY <1>1, <1>2, WorkerFacts
  <1>4. Head(inbox[w]).id \in Ids
    BY <1>2, <1>3, SentTypes
  <1>5. task[w] \in Ids /\ task[w] # None /\ w \in started /\ w \notin ReleasesIn(todo) /\ req[task[w]].state = "PROCESSING"
    BY <1>2, <1>3, <1>4, IdTypes DEF WorkerInv
  <1> DEFINE m == [kind |-> "result", outcome |-> o[1], history |-> o[2]]
  <1>6. m \in Reply /\ m.kind = "result"
    BY <1>2, <1>3, OutcomesType DEF Reply
  <1> HIDE DEF m
  <1>7. <<m>> \in Seq(Reply) /\ Append(<<>>, m) = <<m>> /\ <<m>>[1] = m /\ Len(<<>>) + Len(<<m>>) <= 1 /\ <<>> \in Seq(Sent)
    BY <1>6
  <1>8. outbox'[w] = <<m>> /\ inbox'[w] = <<>> /\ \A v \in Workers : v # w => outbox'[v] = outbox[v] /\ inbox'[v] = inbox[v]
    BY <1>a, <1>1, <1>2, <1>3, <1>7 DEF TypeInv, m
  <1>9. outbox' \in [Workers -> Seq(Reply)] /\ inbox' \in [Workers -> Seq(Sent)]
    BY <1>a, <1>1, <1>2, <1>3, <1>7 DEF TypeInv, m
  <1>10. TypeInv'
    BY <1>1, <1>2, <1>9 DEF TypeInv, worker_preprocess_value, qvars, nvars, ovars
  <1>11. WorkInv'
    <2>1. WorkerInv(inbox'[w], outbox'[w], task'[w], w \in started', In1(workers', w),
                    w \in ReleasesIn(todo'), req', CallsIn(todo', "enqueue"))
      <3>1. /\ task'[w] \in Ids /\ task'[w] # None /\ w \in started' /\ w \notin ReleasesIn(todo')
            /\ req'[task'[w]].state = "PROCESSING"
        BY <1>2, <1>5
      <3> QED BY <1>6, <1>7, <1>8, <3>1 DEF WorkerInv
    <2>2. task'[w] \in Ids => \A v \in Workers : v # w => task[v] # task'[w]
      BY <1>1, <1>2 DEF WorkInv
    <2> QED BY <1>1, <1>2, <1>8, <2>1, <2>2, WorkOne
  <1> QED BY <1>1, <1>2, <1>10, <1>11, OtherStep

(* worker_test_value preserves the invariant.                              *)
LEMMA WorkerTest ==
  ASSUME IInv, NEW w \in Workers, worker_test_value(w)
  PROVE  IInv'
  <1>1. TypeInv /\ WorkInv /\ CallInv(todo)
    BY DEF IInv
  <1> DEFINE m == [kind |-> "test_result"]
  <1>2. UNCHANGED <<todo, queue, req, linked_items, flushed, received, started, task, workers>>
        /\ inbox[w] # <<>> /\ Head(inbox[w]).kind = "test" /\ inbox' = [inbox EXCEPT ![w] = Tail(@)]
        /\ outbox' = [outbox EXCEPT ![w] = Append(@, m)]
    BY DEF worker_test_value, qvars, ovars
  <1>3. /\ WorkerInv(inbox[w], outbox[w], task[w], w \in started, In1(workers, w),
                     w \in ReleasesIn(todo), req, CallsIn(todo, "enqueue"))
        /\ outbox[w] = <<>> /\ Tail(inbox[w]) = <<>> /\ Head(inbox[w]) = inbox[w][1] /\ Head(inbox[w]) \in Sent
    BY <1>1, <1>2, WorkerFacts
  <1>5. task[w] \in Tests /\ task[w] # None /\ task[w] \notin Ids /\ w \in started /\ w \notin ReleasesIn(todo)
    BY <1>2, <1>3, IdTypes DEF WorkerInv
  <1>6. m \in Reply /\ m.kind = "test_result"
    BY DEF Reply
  <1> HIDE DEF m
  <1>7. <<m>> \in Seq(Reply) /\ Append(<<>>, m) = <<m>> /\ <<m>>[1] = m /\ Len(<<>>) + Len(<<m>>) <= 1 /\ <<>> \in Seq(Sent)
    BY <1>6
  <1>8. outbox'[w] = <<m>> /\ inbox'[w] = <<>> /\ \A v \in Workers : v # w => outbox'[v] = outbox[v] /\ inbox'[v] = inbox[v]
    BY <1>1, <1>2, <1>3, <1>7 DEF TypeInv
  <1>9. outbox' \in [Workers -> Seq(Reply)] /\ inbox' \in [Workers -> Seq(Sent)]
    BY <1>1, <1>2, <1>3, <1>7 DEF TypeInv
  <1>10. TypeInv'
    BY <1>1, <1>2, <1>9 DEF TypeInv, worker_test_value, qvars, nvars, ovars
  <1>11. WorkInv'
    <2>1. WorkerInv(inbox'[w], outbox'[w], task'[w], w \in started', In1(workers', w),
                    w \in ReleasesIn(todo'), req', CallsIn(todo', "enqueue"))
      <3>1. task'[w] \in Tests /\ task'[w] # None /\ task'[w] \notin Ids /\ w \in started' /\ w \notin ReleasesIn(todo')
        BY <1>2, <1>5
      <3> QED BY <1>6, <1>7, <1>8, <3>1 DEF WorkerInv
    <2>2. task'[w] \notin Ids
      BY <1>2, <1>5
    <2> QED BY <1>1, <1>2, <1>8, <2>1, <2>2, WorkOne
  <1> QED BY <1>1, <1>2, <1>10, <1>11, OtherStep

(* A value is sent to a worker, or a test request. *)
AssignReturn ==
    /\ Calling("assign")
    /\ Return
    /\ UNCHANGED <<qvars, direct_queue, task, inbox>>
    /\ UNCHANGED <<nvars, workers, item_config, config, outbox, started, tests, received, ovars>>

AssignTest(w) ==
    /\ Calling("assign")
    /\ FreeWorker # 0 /\ w = workers[FreeWorker] /\ direct_queue # <<>>
    /\ direct_queue' = Tail(direct_queue)
    /\ task' = [task EXCEPT ![w] = Head(direct_queue)]
    /\ inbox' = [inbox EXCEPT ![w] = Append(@, [kind |-> "test"])]
    /\ UNCHANGED <<todo, qvars>>
    /\ UNCHANGED <<nvars, workers, item_config, config, outbox, started, tests, received, ovars>>

AssignUnsupported(k, id) ==
    /\ Calling("assign")
    /\ k \in Nat \ {0} /\ k \in 1..Len(queue) /\ id = queue[k] /\ id \in Ids /\ req[id].state = "QUEUED"
    /\ ~req[id].supported
    /\ history_cache' = [history_cache EXCEPT ![ItemOf(id)] = None]
    /\ preprocessor_set_request_state_done(id, req)
    /\ Call(<<Assign(IF k = 1 THEN 2 ELSE k)>>)
    /\ UNCHANGED <<refcount, direct_queue, task, inbox>>
    /\ UNCHANGED <<nvars, workers, item_config, config, outbox, started, tests, received, ovars>>

AssignValue(w, id) ==
    /\ Calling("assign")
    /\ FreeWorker # 0 /\ w = workers[FreeWorker] /\ id \in Ids /\ req[id].state = "QUEUED"
    /\ req[id].supported
    /\ req' = [req EXCEPT ![id].state = "PROCESSING"]
    /\ task' = [task EXCEPT ![w] = id]
    /\ inbox' = [inbox EXCEPT ![w] = Append(@, [kind |-> "request", id |-> id,
                      ver |-> req[id].ver, history |-> history_cache[ItemOf(id)]])]
    /\ Call(<<Assign(1)>>)
    /\ UNCHANGED <<queue, refcount, linked_items, history_cache, priority_tail, direct_queue>>
    /\ UNCHANGED <<nvars, workers, item_config, config, outbox, started, tests, received, ovars>>

(* preprocessor_assign_tasks returns, or sends a test request, or finishes *)
(* a value that is not supported, or sends a value to a worker.            *)
LEMMA AssignCases ==
  ASSUME TypeInv, preprocessor_assign_tasks
  PROVE  \/ AssignReturn
         \/ \E w : AssignTest(w)
         \/ \E k, id : AssignUnsupported(k, id)
         \/ \E w, id : AssignValue(w, id)
  <1> DEFINE pos == Head(todo).pos
             k == SelectInSubSeq(queue, pos, Len(queue), LAMBDA x : req[x].state = "QUEUED")
  <1>1. Head(todo) \in CallRecord /\ Calling("assign")
    <2>1. todo \in Seq(CallRecord) /\ todo # <<>>
      BY DEF TypeInv, preprocessor_assign_tasks, Calling
    <2> QED BY <2>1, HeadTailProperties DEF preprocessor_assign_tasks
  <1>2. pos \in Nat \ {0}
    BY <1>1, CallTypes DEF Calling
  <1>3. queue \in Seq(Ids)
    BY DEF TypeInv
  <1> HIDE DEF pos
  <1>4. k # 0 => k \in 1..Len(queue) /\ k \in Nat \ {0} /\ queue[k] \in Ids /\ req[queue[k]].state = "QUEUED"
    BY <1>2, <1>3, NextTaskProperties
  <1>5. /\ \/ /\ Return
              /\ UNCHANGED <<qvars, direct_queue, task, inbox>>
           \/ /\ FreeWorker # 0 /\ direct_queue # <<>>
              /\ direct_queue' = Tail(direct_queue)
              /\ task' = [task EXCEPT ![workers[FreeWorker]] = Head(direct_queue)]
              /\ inbox' = [inbox EXCEPT ![workers[FreeWorker]] = Append(@, [kind |-> "test"])]
              /\ UNCHANGED <<todo, qvars>>
           \/ /\ k # 0
              /\ ~req[queue[k]].supported
              /\ history_cache' = [history_cache EXCEPT ![ItemOf(queue[k])] = None]
              /\ preprocessor_set_request_state_done(queue[k], req)
              /\ Call(<<Assign(IF k = 1 THEN 2 ELSE k)>>)
              /\ UNCHANGED <<refcount, direct_queue, task, inbox>>
           \/ /\ FreeWorker # 0 /\ k # 0
              /\ req[queue[k]].supported
              /\ req' = [req EXCEPT ![queue[k]].state = "PROCESSING"]
              /\ task' = [task EXCEPT ![workers[FreeWorker]] = queue[k]]
              /\ inbox' = [inbox EXCEPT ![workers[FreeWorker]] = Append(@, [kind |-> "request", id |-> queue[k],
                                ver |-> req[queue[k]].ver, history |-> history_cache[ItemOf(queue[k])]])]
              /\ Call(<<Assign(1)>>)
              /\ UNCHANGED <<queue, refcount, linked_items, history_cache, priority_tail,
                             direct_queue>>
        /\ UNCHANGED <<nvars, workers, item_config, config, outbox, started, tests,
                       received, ovars>>
    BY DEF preprocessor_assign_tasks, pos
  <1> HIDE DEF k
  <1> QED BY <1>1, <1>4, <1>5 DEF AssignReturn, AssignTest, AssignUnsupported, AssignValue


(* The end of preprocessor_assign_tasks preserves the invariant.           *)
LEMMA AssignReturnStep ==
  ASSUME IInv, AssignReturn
  PROVE  IInv'
  <1>1. todo # <<>> /\ Return /\ Head(todo).op = "assign"
    BY DEF AssignReturn, Calling
  <1>2. TypeInv'
    BY <1>1, ReturnType DEF TypeInv, AssignReturn, qvars, nvars, ovars
  <1> QED BY <1>1, <1>2, ReturnStep DEF AssignReturn, qvars, ovars

(* A test request sent to a free worker preserves the invariant.           *)
LEMMA AssignTestStep ==
  ASSUME IInv, NEW w, AssignTest(w)
  PROVE  IInv'
  <1>1. TypeInv /\ WorkInv /\ CallInv(todo)
    BY DEF IInv
  <1> DEFINE m == [kind |-> "test"]
             t == Head(direct_queue)
  <1>2. /\ UNCHANGED <<todo, queue, req, linked_items, flushed, received, started, outbox, workers>>
        /\ task' = [task EXCEPT ![w] = t] /\ direct_queue' = Tail(direct_queue) /\ direct_queue # <<>>
        /\ inbox' = [inbox EXCEPT ![w] = Append(@, m)]
    BY DEF AssignTest, qvars, ovars
  <1>3. w \in Workers /\ In1(workers, w) /\ task[w] = None
    BY <1>1, FreeWorkerProperties DEF AssignTest, TypeInv
  <1>4. WorkerInv(inbox[w], outbox[w], task[w], w \in started, In1(workers, w),
                  w \in ReleasesIn(todo), req, CallsIn(todo, "enqueue"))
    BY <1>1, <1>3, WorkerFacts
  <1>5. inbox[w] = <<>> /\ outbox[w] = <<>> /\ w \in started /\ w \notin ReleasesIn(todo)
    BY <1>3, <1>4 DEF WorkerInv
  <1>6. direct_queue \in Seq(Tests) /\ t \in Tests /\ Tail(direct_queue) \in Seq(Tests)
    BY <1>1, <1>2, HeadTailProperties DEF TypeInv
  <1>7. t # None /\ t \notin Ids
    BY <1>6, IdTypes
  <1> HIDE DEF t
  <1>8. m \in Sent /\ m.kind = "test" /\ <<m>> \in Seq(Sent) /\ Append(<<>>, m) = <<m>> /\ <<m>>[1] = m
        /\ Len(<<m>>) + Len(<<>>) <= 1
    BY DEF Sent
  <1> HIDE DEF m
  <1>9. /\ inbox'[w] = <<m>> /\ task'[w] = t
        /\ \A v \in Workers : v # w => inbox'[v] = inbox[v] /\ task'[v] = task[v]
    BY <1>1, <1>2, <1>3, <1>5, <1>8 DEF TypeInv
  <1>10. inbox' \in [Workers -> Seq(Sent)] /\ task' \in [Workers -> Ids \cup Tests \cup {None}]
    BY <1>1, <1>2, <1>3, <1>5, <1>6, <1>8 DEF TypeInv
  <1>11. TypeInv'
    BY <1>1, <1>2, <1>6, <1>10 DEF TypeInv, AssignTest, qvars, nvars, ovars
  <1>12. WorkInv'
    <2>1. WorkerInv(inbox'[w], outbox'[w], task'[w], w \in started', In1(workers', w),
                    w \in ReleasesIn(todo'), req', CallsIn(todo', "enqueue"))
      <3>1. task'[w] \in Tests /\ task'[w] # None /\ task'[w] \notin Ids /\ w \in started' /\ w \notin ReleasesIn(todo') /\ outbox'[w] = <<>>
        BY <1>2, <1>5, <1>6, <1>7, <1>9
      <3> QED BY <1>8, <1>9, <3>1 DEF WorkerInv
    <2> QED BY <1>1, <1>2, <1>3, <1>7, <1>9, <2>1, WorkOne
  <1> QED BY <1>1, <1>2, <1>11, <1>12, OtherStep

(* A request sent to a free worker preserves the invariant: no other       *)
(* worker has it.                                                          *)
LEMMA AssignValueStep ==
  ASSUME IInv, NEW w, NEW id, AssignValue(w, id)
  PROVE  IInv'
  <1>1. TypeInv /\ WorkInv /\ CallInv(todo) /\ todo \in Seq(CallRecord) /\ req \in [Ids -> Request]
    BY DEF IInv, TypeInv
  <1> DEFINE i == ItemOf(id)
             m == [kind |-> "request", id |-> id, ver |-> req[id].ver, history |-> history_cache[i]]
  <1>2. /\ UNCHANGED <<queue, linked_items, flushed, received, started, outbox, workers>>
        /\ task' = [task EXCEPT ![w] = id] /\ id \in Ids /\ req[id].state = "QUEUED"
        /\ inbox' = [inbox EXCEPT ![w] = Append(@, m)]
        /\ req' = [req EXCEPT ![id].state = "PROCESSING"]
        /\ todo # <<>> /\ Head(todo).op = "assign" /\ todo' = <<Assign(1)>> \o Tail(todo)
    BY DEF AssignValue, ovars, Call, Calling
  <1>3. w \in Workers /\ In1(workers, w) /\ task[w] = None
    BY <1>1, FreeWorkerProperties DEF AssignValue, TypeInv
  <1>4. WorkerInv(inbox[w], outbox[w], task[w], w \in started, In1(workers, w),
                  w \in ReleasesIn(todo), req, CallsIn(todo, "enqueue"))
    BY <1>1, <1>3, WorkerFacts
  <1>5. inbox[w] = <<>> /\ outbox[w] = <<>> /\ w \in started /\ w \notin ReleasesIn(todo)
    BY <1>3, <1>4 DEF WorkerInv
  <1>6. m \in Sent /\ m.kind = "request" /\ m.id = id
    <2>1. i \in Items /\ id # None
      BY <1>2, IdTypes
    <2>2. history_cache[i] \in History \cup {None} /\ req[id].ver \in 0..MaxConfigChanges
      BY <1>1, <1>2, <2>1 DEF TypeInv, Request
    <2> QED BY <1>2, <2>2 DEF Sent
  <1> HIDE DEF m
  <1>8. <<m>> \in Seq(Sent) /\ Append(<<>>, m) = <<m>> /\ <<m>>[1] = m /\ Len(<<m>>) + Len(<<>>) <= 1
    BY <1>6
  <1>9. /\ inbox'[w] = <<m>> /\ task'[w] = id
        /\ \A v \in Workers : v # w => inbox'[v] = inbox[v] /\ task'[v] = task[v]
    BY <1>1, <1>2, <1>3, <1>5, <1>8 DEF TypeInv
  <1>10. inbox' \in [Workers -> Seq(Sent)] /\ task' \in [Workers -> Ids \cup Tests \cup {None}]
    BY <1>1, <1>2, <1>3, <1>5, <1>8 DEF TypeInv
  <1>11. \A x \in Ids : /\ req'[x] \in Request
                        /\ req'[x].state = IF x = id THEN "PROCESSING" ELSE req[x].state
                        /\ req'[x].flush = req[x].flush /\ req'[x].pending = req[x].pending
                        /\ req'[x].res = req[x].res /\ (x # id => req'[x] = req[x])
    BY <1>1, <1>2 DEF Request
  <1>12. req' \in [Ids -> Request]
    <2>1. req' = [x \in Ids |-> req'[x]]
      BY <1>1, <1>2
    <2> QED BY <1>11, <2>1
  <1>13. Plain(<<Assign(1)>>)
    <2>1. 1 \in Nat \ {0}
      OBVIOUS
    <2> QED BY <2>1, PlainLists
  <1>14. /\ todo' \in Seq(CallRecord) /\ CallInv(todo')
         /\ \A op \in {"enqueue", "dependents", "clear"} : \A x : x \in CallsIn(todo', op) <=> x \in CallsIn(todo, op)
         /\ ReleasesIn(todo') \subseteq ReleasesIn(todo)
    BY <1>1, <1>2, <1>13, TodoPlain
  <1>15. TypeInv'
    BY <1>1, <1>2, <1>10, <1>12, <1>14 DEF TypeInv, AssignValue, nvars, ovars
  <1>16. /\ \A x \in Ids : x \in Held(req') <=> x \in Held(req)
         /\ \A x \in Ids : x \in Unfinished(req') <=> x \in Unfinished(req)
         /\ \A x \in Ids : x \in Known(req') <=> x \in Known(req)
         /\ \A x \in Ids : x \in CallsIn(todo', "enqueue") <=> x \in CallsIn(todo, "enqueue")
    BY <1>2, <1>11, <1>14 DEF Held, Unfinished, Known
  <1>17. Unfinished(req) \subseteq Ids /\ Unfinished(req') \subseteq Ids
    BY DEF Unfinished
  <1>18. QueueInv(queue', req')
    <2>1. QueueInv(queue, req)
      BY DEF IInv
    <2> QED BY <1>2, <1>11, <1>16, <1>17, <2>1, QueueKeep
  <1>19. id \in Known(req)
    <2>1. ValueInv(req, flushed, todo, received)
      BY DEF IInv
    <2>2. ASSUME id \notin Known(req) PROVE FALSE
      <3>1. req[id].state = "FREE"
        BY <1>2, <2>1, <2>2 DEF ValueInv
      <3> QED BY <1>2, <3>1
    <2> QED BY <2>2
  <1>20. ValueInv(req', flushed', todo', received')
    <2>1. ValueInv(req, flushed, todo, received) /\ received \in Nat
      BY PreprocAssumption DEF IInv, TypeInv
    <2>2. received <= received
      BY <2>1
    <2>3. \A x \in Ids : x \notin Known(req) => req'[x].state = req[x].state /\ req'[x].flush = req[x].flush
                                                 /\ req'[x].pending = req[x].pending
      BY <1>11, <1>19
    <2>4. \A x \in CallsIn(todo, "enqueue") : req'[x].flush = req[x].flush /\ req'[x].pending = req[x].pending
      BY <1>11 DEF CallsIn
    <2>5. /\ \A x : x \in CallsIn(todo', "enqueue") <=> x \in CallsIn(todo, "enqueue")
          /\ \A x : x \in CallsIn(todo', "dependents") => x \in CallsIn(todo, "dependents")
          /\ \A x : x \in CallsIn(todo', "clear") => x \in CallsIn(todo, "clear")
      BY <1>14
    <2>6. ValueInv(req', flushed, todo', received)
      BY <1>16, <2>1, <2>2, <2>3, <2>4, <2>5, ValueKeep
    <2> QED BY <1>2, <2>6
  <1>21. ChainInv(req', linked_items', todo')
    <2>1. ChainInv(req, linked_items, todo)
      BY DEF IInv
    <2>2. \A x \in Ids : (req'[x].state = "PENDING" <=> req[x].state = "PENDING") /\ req'[x].pending = req[x].pending
      BY <1>2, <1>11
    <2>3. \A x \in Unfinished(req) : x \in Unfinished(req')
      BY <1>16, <1>17
    <2>4. \A x \in Unfinished(req') : x \in Unfinished(req)
      BY <1>16, <1>17
    <2>5. \A x \in CallsIn(todo', "enqueue") : x \in CallsIn(todo, "enqueue")
      BY <1>14
    <2>6. ChainInv(req', linked_items, todo')
      BY <2>1, <2>2, <2>3, <2>4, <2>5, ChainSame
    <2> QED BY <1>2, <2>6
  <1>22. WorkInv'
    <2>1. WorkerInv(inbox'[w], outbox'[w], task'[w], w \in started', In1(workers', w),
                    w \in ReleasesIn(todo'), req', CallsIn(todo', "enqueue"))
      <3>1. /\ task'[w] = id /\ id \in Ids /\ w \in started' /\ w \notin ReleasesIn(todo') /\ outbox'[w] = <<>>
            /\ req'[id].state = "PROCESSING" /\ id # None
        BY <1>2, <1>5, <1>9, <1>11, <1>14, IdTypes
      <3> QED BY <1>6, <1>8, <1>9, <3>1 DEF WorkerInv
    <2>2. ASSUME NEW v \in Workers, v # w, task[v] = id PROVE FALSE
      <3>1. WorkerInv(inbox[v], outbox[v], task[v], v \in started, In1(workers, v),
                      v \in ReleasesIn(todo), req, CallsIn(todo, "enqueue"))
        BY <1>1, WorkerFacts
      <3> QED BY <1>2, <2>2, <3>1 DEF WorkerInv, Unfinished
    <2>3. \A v \in Workers : v # w =>
            /\ inbox'[v] = inbox[v] /\ outbox'[v] = outbox[v] /\ task'[v] = task[v]
            /\ (v \in started') <=> (v \in started)
            /\ In1(workers', v) <=> In1(workers, v)
            /\ v \in ReleasesIn(todo') => v \in ReleasesIn(todo)
      BY <1>2, <1>9, <1>14
    <2>4. \A x \in Ids : x # task[w] /\ req[x].state = "PROCESSING" => req'[x].state = "PROCESSING"
      BY <1>11
    <2>5. task'[w] \in Ids => \A v \in Workers : v # w => task[v] # task'[w]
      BY <1>9, <2>2
    <2> QED BY <1>1, <1>3, <1>16, <2>1, <2>3, <2>4, <2>5, WorkOne
  <1> QED BY <1>14, <1>15, <1>18, <1>20, <1>21, <1>22 DEF IInv


(* What the parts of ValueInv say of a value that is queued, unfinished or *)
(* about to be enqueued.                                                   *)
LEMMA ValueFacts ==
  ASSUME NEW r, NEW fl, NEW s, NEW n, ValueInv(r, fl, s, n)
  PROVE  /\ \A x \in Held(r) : x \in Known(r)
         /\ Unfinished(r) \subseteq Held(r) /\ Held(r) \subseteq Ids /\ Known(r) \subseteq Ids
         /\ \A x \in CallsIn(s, "enqueue") : x \notin Unfinished(r) /\ x \notin Held(r) /\ x \in Ids /\ x \in Known(r)
  <1>1. Unfinished(r) \subseteq Held(r) /\ Held(r) \subseteq Ids /\ Known(r) \subseteq Ids
    BY DEF Unfinished, Held, Known
  <1>2. \A x \in Held(r) : x \in Known(r)
    BY <1>1 DEF ValueInv, Held
  <1> QED BY <1>1, <1>2 DEF ValueInv, CallsIn

(* The same with what is known of the values. *)
ValuesEffect(id, r, s2) ==
    /\ queue' \in Seq(Ids) /\ req' \in [Ids -> Request] /\ linked_items' \in [Items -> Ids \cup {None}]
    /\ priority_tail' \in Ids \cup {None}
    /\ \A x \in Ids :
          /\ req'[x].state = IF x = id THEN "DONE" ELSE IF x = req[id].pending THEN "QUEUED" ELSE req[x].state
          /\ req'[x].pending = r[x].pending /\ req'[x].supported = r[x].supported
          /\ req'[x].isset = r[x].isset /\ req'[x].ver = r[x].ver /\ req'[x].res = r[x].res
    /\ \A x \in Ids : x \in Held(req') <=> x \in Held(req)
    /\ \A x \in Ids : x \in Known(req') <=> x \in Known(req)
    /\ \A x \in Ids : x \in Unfinished(req') <=> x \in Unfinished(req) /\ x # id
    /\ \A x \in Ids : x # id /\ req[x].state = "PROCESSING" => req'[x].state = "PROCESSING"
    /\ QueueInv(queue', req')
    /\ ChainInv(req', linked_items', s2)
    /\ ValueInv(req', flushed, s2, received)

(* The values after preprocessor_set_request_state_done. *)
LEMMA DoneValues ==
  ASSUME IInv, NEW id \in Unfinished(req), req[id].state # "PENDING",
         NEW r \in [Ids -> Request],
         \A x \in Ids : r[x].state = req[x].state /\ r[x].flush = req[x].flush /\ r[x].pending = req[x].pending,
         \A x \in Ids : r[x].res # None <=> req[x].res # None,
         preprocessor_set_request_state_done(id, r),
         NEW s2,
         \A x : x \in CallsIn(s2, "enqueue") <=> x \in CallsIn(todo, "enqueue"),
         \A x : x \in CallsIn(s2, "dependents") => x \in CallsIn(todo, "dependents") \/ x = id,
         \A x : x \in CallsIn(s2, "clear") => x \in CallsIn(todo, "clear")
  PROVE  ValuesEffect(id, r, s2)
  <1>1. /\ TypeInv /\ QueueInv(queue, req) /\ ChainInv(req, linked_items, todo) /\ ValueInv(req, flushed, todo, received)
        /\ \A x \in CallsIn(s2, "enqueue") : ItemOf(x) \in TopItems => x \in CallsIn(todo, "enqueue")
    BY DEF IInv
  <1>2. /\ queue' \in Seq(Ids) /\ req' \in [Ids -> Request] /\ linked_items' \in [Items -> Ids \cup {None}]
        /\ priority_tail' \in Ids \cup {None}
        /\ \A x \in Ids :
               /\ req'[x].state = IF x = id THEN "DONE" ELSE IF x = req[id].pending THEN "QUEUED" ELSE req[x].state
               /\ req'[x].pending = r[x].pending /\ req'[x].supported = r[x].supported
               /\ req'[x].isset = r[x].isset /\ req'[x].ver = r[x].ver /\ req'[x].res = r[x].res
        /\ \A x \in Ids : x \notin Held(req) => req'[x].flush = r[x].flush
        /\ \A x \in Ids : x \in Held(req') <=> x \in Held(req)
        /\ \A x \in Ids : x \in Unfinished(req') <=> x \in Unfinished(req) /\ x # id
        /\ QueueInv(queue', req')
        /\ ChainInv(req', linked_items', s2)
    <2>1. DoneEffect(id, r, s2)
      BY <1>1, DoneStep
    <2> QED BY <2>1 DEF DoneEffect
  <1>3. \A x \in Ids : x \in Known(req') <=> x \in Known(req)
    BY <1>2 DEF Known
  <1>4. \A x \in Ids : x # id /\ req[x].state = "PROCESSING" => req'[x].state = "PROCESSING"
    <2>1. req[id].pending # None => req[req[id].pending].state = "PENDING"
      BY <1>1, LinkFacts
    <2> QED BY <1>2, <2>1, IdTypes
  <1>5. ValueInv(req', flushed, s2, received)
    <2>1. received \in Nat /\ received <= received
      BY <1>1, PreprocAssumption DEF TypeInv
    <2>2. \A x \in Ids : x \notin Held(req) => req'[x].state = "FREE" /\ req'[x].flush = req[x].flush /\ req'[x].pending = req[x].pending
      BY <1>2 DEF Held
    <2>3. \A x \in Ids : x \notin Known(req) => x \notin Held(req)
      BY <1>1, ValueFacts
    <2>4. \A x \in Ids : x \notin Known(req) => req'[x].state = req[x].state /\ req'[x].flush = req[x].flush /\ req'[x].pending = req[x].pending
      BY <2>2, <2>3 DEF Held
    <2>5. \A x \in CallsIn(todo, "enqueue") : req'[x].flush = req[x].flush /\ req'[x].pending = req[x].pending
      BY <1>1, <2>2, ValueFacts
    <2>6. \A x \in Ids : x \in Unfinished(req') => x \in Unfinished(req)
      BY <1>2
    <2>7. id \in Ids /\ id \in Known(req) /\ id \notin Unfinished(req')
      BY <1>1, <1>2, ValueFacts
    <2>8. \A x : x \in CallsIn(s2, "dependents") => x \in CallsIn(todo, "dependents") \/ (x \in Unfinished(req) /\ x \notin Unfinished(req') /\ x \in Known(req))
      BY <2>7
    <2> QED BY <1>1, <1>2, <1>3, <2>1, <2>4, <2>5, <2>6, <2>8, ValueKeep
  <1> QED BY <1>2, <1>3, <1>4, <1>5 DEF ValuesEffect

(* A value that is not supported is done without a worker:                 *)
(* preprocessor_assign_tasks preserves the invariant.                      *)
LEMMA AssignUnsupportedStep ==
  ASSUME IInv, NEW k, NEW id, AssignUnsupported(k, id)
  PROVE  IInv' /\ ValuesEffect(id, req, todo')
  <1>1. TypeInv /\ WorkInv /\ CallInv(todo) /\ todo \in Seq(CallRecord) /\ req \in [Ids -> Request]
    BY DEF IInv, TypeInv
  <1>2. /\ UNCHANGED <<flushed, received, started, inbox, outbox, task, workers>>
        /\ id \in Ids /\ req[id].state = "QUEUED" /\ k \in Nat \ {0}
        /\ history_cache' = [history_cache EXCEPT ![ItemOf(id)] = None]
        /\ preprocessor_set_request_state_done(id, req)
        /\ todo # <<>> /\ Head(todo).op = "assign" /\ todo' = <<Assign(IF k = 1 THEN 2 ELSE k)>> \o Tail(todo)
    BY DEF AssignUnsupported, ovars, Call, Calling
  <1>3. Plain(<<Assign(IF k = 1 THEN 2 ELSE k)>>)
    <2>1. (IF k = 1 THEN 2 ELSE k) \in Nat \ {0}
      BY <1>2
    <2> QED BY <2>1, PlainLists
  <1>4. /\ todo' \in Seq(CallRecord) /\ CallInv(todo')
        /\ \A op \in {"enqueue", "dependents", "clear"} : \A x : x \in CallsIn(todo', op) <=> x \in CallsIn(todo, op)
        /\ ReleasesIn(todo') \subseteq ReleasesIn(todo)
    BY <1>1, <1>2, <1>3, TodoPlain
  <1>5. id \in Unfinished(req) /\ req[id].state # "PENDING"
    BY <1>2 DEF Unfinished
  <1>6. /\ \A x : x \in CallsIn(todo', "enqueue") <=> x \in CallsIn(todo, "enqueue")
        /\ \A x : x \in CallsIn(todo', "dependents") => x \in CallsIn(todo, "dependents") \/ x = id
        /\ \A x : x \in CallsIn(todo', "clear") => x \in CallsIn(todo, "clear")
    BY <1>4
  <1>a. ValuesEffect(id, req, todo')
    BY <1>1, <1>2, <1>5, <1>6, DoneValues
  <1>7. /\ queue' \in Seq(Ids) /\ req' \in [Ids -> Request] /\ linked_items' \in [Items -> Ids \cup {None}]
        /\ priority_tail' \in Ids \cup {None}
        /\ \A x \in Ids : x \in Known(req') <=> x \in Known(req)
        /\ \A x \in Ids : x \in Unfinished(req') <=> x \in Unfinished(req) /\ x # id
        /\ \A x \in Ids : x # id /\ req[x].state = "PROCESSING" => req'[x].state = "PROCESSING"
        /\ QueueInv(queue', req')
        /\ ChainInv(req', linked_items', todo')
        /\ ValueInv(req', flushed, todo', received)
    BY <1>a DEF ValuesEffect
  <1>8. TypeInv'
    <2>1. history_cache' \in [Items -> History \cup {None}]
      BY <1>1, <1>2 DEF TypeInv
    <2> QED BY <1>1, <1>2, <1>4, <1>7, <2>1 DEF TypeInv, AssignUnsupported, nvars, ovars
  <1>9. WorkInv'
    <2>1. \A x \in Ids : req[x].state = "PROCESSING" => req'[x].state = "PROCESSING"
      BY <1>2, <1>7
    <2>2. \A x \in Ids : x \in Known(req) /\ x \notin Unfinished(req) /\ x \notin CallsIn(todo, "enqueue")
                        => x \in Known(req') /\ x \notin Unfinished(req') /\ x \notin CallsIn(todo', "enqueue")
      BY <1>6, <1>7
    <2> QED BY <1>1, <1>2, <1>4, <2>1, <2>2, WorkKeep
  <1> QED BY <1>2, <1>4, <1>7, <1>8, <1>9, <1>a DEF IInv

(* preprocessor_assign_tasks preserves the invariant.                      *)
LEMMA AssignStep ==
  ASSUME IInv, preprocessor_assign_tasks
  PROVE  IInv'
  <1>1. TypeInv
    BY DEF IInv
  <1>2. \/ AssignReturn
        \/ \E w : AssignTest(w)
        \/ \E k, id : AssignUnsupported(k, id)
        \/ \E w, id : AssignValue(w, id)
    BY <1>1, AssignCases
  <1> QED BY <1>2, AssignReturnStep, AssignTestStep, AssignUnsupportedStep, AssignValueStep

(* preprocessor_set_variant_result *)
LEMMA VariantFields ==
  ASSUME NEW id \in Ids, NEW outcome \in {"value", "none", "error"}, req \in [Ids -> Request],
         refcount \in [Results -> Int]
  PROVE  LET v == SetVariantResult(id, outcome, req, refcount)
         IN  /\ v.req \in [Ids -> Request] /\ v.refcount \in [Results -> Int]
             /\ \A x \in Ids :
                   /\ v.req[x].state = req[x].state /\ v.req[x].flush = req[x].flush /\ v.req[x].pending = req[x].pending
                   /\ v.req[x].ver = req[x].ver
                   /\ v.req[x].supported = IF x = id /\ outcome = "error" THEN FALSE ELSE req[x].supported
                   /\ v.req[x].isset = IF x = id /\ outcome # "error" THEN (outcome = "value") ELSE req[x].isset
                   /\ v.req[x].res = IF x = id /\ outcome # "error" THEN <<id, "made">> ELSE req[x].res
  <1>1. <<id, "made">> \in Results
    BY IdTypes
  <1>2. CASE outcome = "error"
    <2> DEFINE u == [req EXCEPT ![id].supported = FALSE]
    <2>1. SetVariantResult(id, outcome, req, refcount) = [req |-> u, refcount |-> refcount]
      BY <1>2 DEF SetVariantResult
    <2>2. \A x \in Ids : u[x] = IF x = id THEN [req[x] EXCEPT !.supported = FALSE] ELSE req[x]
      OBVIOUS
    <2>3. u = [x \in Ids |-> u[x]]
      OBVIOUS
    <2> HIDE DEF u
    <2>4. ASSUME NEW x \in Ids
          PROVE  /\ u[x] \in Request
                 /\ u[x].state = req[x].state /\ u[x].flush = req[x].flush /\ u[x].pending = req[x].pending
                 /\ u[x].ver = req[x].ver /\ u[x].supported = IF x = id THEN FALSE ELSE req[x].supported
                 /\ u[x].isset = req[x].isset /\ u[x].res = req[x].res
      BY <2>2 DEF Request
    <2>5. u \in [Ids -> Request]
      BY <2>3, <2>4
    <2>6. SetVariantResult(id, outcome, req, refcount).req = u /\ SetVariantResult(id, outcome, req, refcount).refcount = refcount
      BY <2>1
    <2> QED BY <1>2, <2>4, <2>5, <2>6
  <1>3. CASE outcome # "error"
    <2> DEFINE u == [req EXCEPT ![id].isset = (outcome = "value"), ![id].res = <<id, "made">>]
               c == [refcount EXCEPT ![req[id].res] = @ - 1, ![<<id, "made">>] = 1]
    <2>1. SetVariantResult(id, outcome, req, refcount) = [req |-> u, refcount |-> c]
      BY <1>3 DEF SetVariantResult
    <2>2. \A x \in Ids : u[x] = IF x = id THEN [req[x] EXCEPT !.isset = (outcome = "value"), !.res = <<id, "made">>] ELSE req[x]
      OBVIOUS
    <2>3. u = [x \in Ids |-> u[x]]
      OBVIOUS
    <2>6. c \in [Results -> Int]
      <3>1. ASSUME NEW k PROVE [refcount EXCEPT ![k] = @ - 1, ![<<id, "made">>] = 1] \in [Results -> Int]
        <4>1. \A r \in Results : refcount[r] \in Int /\ refcount[r] - 1 \in Int
          OBVIOUS
        <4> QED BY <4>1, <1>1
      <3> QED BY <3>1
    <2> HIDE DEF u, c
    <2>4. ASSUME NEW x \in Ids
          PROVE  /\ u[x] \in Request
                 /\ u[x].state = req[x].state /\ u[x].flush = req[x].flush /\ u[x].pending = req[x].pending
                 /\ u[x].ver = req[x].ver /\ u[x].supported = req[x].supported
                 /\ u[x].isset = IF x = id THEN (outcome = "value") ELSE req[x].isset
                 /\ u[x].res = IF x = id THEN <<id, "made">> ELSE req[x].res
      BY <1>1, <2>2 DEF Request
    <2>5. u \in [Ids -> Request]
      BY <2>3, <2>4
    <2>7. SetVariantResult(id, outcome, req, refcount).req = u /\ SetVariantResult(id, outcome, req, refcount).refcount = c
      BY <2>1
    <2> QED BY <1>3, <2>4, <2>5, <2>6, <2>7
  <1> QED BY <1>2, <1>3


(* The fields of a worker's result.                                        *)
LEMMA ReplyTypes ==
  ASSUME NEW m \in Reply, m.kind = "result"
  PROVE  m.outcome \in {"value", "none", "error"} /\ m.history \in History \cup {None}
  BY DEF Reply

(* The calls made for a worker's result. *)
ResultCalls(w, id, outcome) ==
    (IF outcome = "value" THEN <<Dependents(id, NewPosition(id))>> ELSE <<>>)
        \o <<Release(w), Assign(1), Flush, FlushHistory>>

(* The calls that follow a worker's result: the dependent values, the      *)
(* release of the worker, and plain ones.                                  *)
LEMMA ResultCallsProperties ==
  ASSUME NEW w \in Workers, NEW id \in Ids, NewPosition(id) \in Ids, NEW outcome
  PROVE  LET s == ResultCalls(w, id, outcome)
         IN  /\ s \in Seq(CallRecord) /\ CallInv(s)
             /\ \A x : x \notin CallsIn(s, "enqueue") /\ x \notin CallsIn(s, "clear")
             /\ \A x : x \in CallsIn(s, "dependents") <=> x = id /\ outcome = "value"
             /\ \A v : v \in ReleasesIn(s) <=> v = w
  <1> DEFINE first == IF outcome = "value" THEN <<Dependents(id, NewPosition(id))>> ELSE <<>>
             plain == <<Assign(1), Flush, FlushHistory>>
             rest == <<Release(w), Assign(1), Flush, FlushHistory>>
  <1>1. Plain(plain) /\ Plain(<<>>)
    BY PlainLists
  <1>2. /\ plain \in Seq(CallRecord) /\ CallInv(plain) /\ ReleasesIn(plain) = {}
        /\ \A op \in {"enqueue", "dependents", "clear"} : \A x : x \notin CallsIn(plain, op)
    BY <1>1, PlainCalls, PlainCallInv
  <1>3. Release(w) \in CallRecord /\ Dependents(id, NewPosition(id)) \in CallRecord
    BY CallsAreRecords
  <1>4. /\ <<Release(w)>> \in Seq(CallRecord) /\ Apart(<<Release(w)>>)
        /\ \A op \in {"enqueue", "dependents", "clear"} : \A x : x \notin CallsIn(<<Release(w)>>, op)
        /\ \A v : v \in ReleasesIn(<<Release(w)>>) <=> v = w
    BY <1>3, SingleCall DEF Release
  <1>5. rest = <<Release(w)>> \o plain
    OBVIOUS
  <1> HIDE DEF plain, rest
  <1>6. /\ rest \in Seq(CallRecord) /\ CallInv(rest)
        /\ \A op \in {"enqueue", "dependents", "clear"} : \A x : x \notin CallsIn(rest, op)
        /\ \A v : v \in ReleasesIn(rest) <=> v = w
    <2>1. /\ rest \in Seq(CallRecord)
          /\ \A op, x : x \in CallsIn(rest, op) <=> x \in CallsIn(<<Release(w)>>, op) \/ x \in CallsIn(plain, op)
          /\ \A v : v \in ReleasesIn(rest) <=> v \in ReleasesIn(<<Release(w)>>) \/ v \in ReleasesIn(plain)
      BY <1>2, <1>4, <1>5, ConcatCalls
    <2>2. CallInv(<<Release(w)>> \o plain)
      BY <1>2, <1>4, CallCalls
    <2> QED BY <1>2, <1>4, <1>5, <2>1, <2>2
  <1>7. /\ first \in Seq(CallRecord) /\ Apart(first) /\ ReleasesIn(first) = {}
        /\ \A x : x \notin CallsIn(first, "enqueue") /\ x \notin CallsIn(first, "clear")
        /\ \A x : x \in CallsIn(first, "dependents") <=> x = id /\ outcome = "value"
    <2>1. CASE outcome = "value"
      <3>1. first = <<Dependents(id, NewPosition(id))>>
        BY <2>1
      <3> DEFINE c == Dependents(id, NewPosition(id))
      <3>2. c.op = "dependents" /\ c.id = id
        BY DEF Dependents
      <3> HIDE DEF c
      <3>3. /\ <<c>> \in Seq(CallRecord) /\ Apart(<<c>>)
            /\ \A op, x : x \in CallsIn(<<c>>, op) <=> x \in Ids /\ c.op = op /\ c.id = x
            /\ \A v : v \in ReleasesIn(<<c>>) <=> v \in Workers /\ c.op = "release" /\ c.worker = v
        BY <1>3, SingleCall DEF c
      <3> QED BY <2>1, <3>1, <3>2, <3>3 DEF c
    <2>2. CASE outcome # "value"
      <3>1. first = <<>>
        BY <2>2
      <3> QED BY <2>2, <3>1, <1>1, PlainCalls
    <2> QED BY <2>1, <2>2
  <1>8. ResultCalls(w, id, outcome) = first \o rest
    BY DEF ResultCalls, rest
  <1> HIDE DEF first
  <1>9. /\ first \o rest \in Seq(CallRecord)
        /\ \A op, x : x \in CallsIn(first \o rest, op) <=> x \in CallsIn(first, op) \/ x \in CallsIn(rest, op)
        /\ \A v : v \in ReleasesIn(first \o rest) <=> v \in ReleasesIn(first) \/ v \in ReleasesIn(rest)
    BY <1>6, <1>7, ConcatCalls
  <1>10. CallInv(first \o rest)
    BY <1>6, <1>7, CallCalls
  <1> QED BY <1>6, <1>7, <1>8, <1>9, <1>10

(* No calls are pending when todo is empty.                                *)
LEMMA NoCalls ==
  ASSUME todo = <<>>
  PROVE  ReleasesIn(todo) = {} /\ \A op, x : x \notin CallsIn(todo, op)
  <1>1. Len(todo) = 0
    BY EmptySeq
  <1> QED BY <1>1 DEF CallsIn, ReleasesIn

(* preprocessor_add_result preserves the invariant: the value is done and  *)
(* its worker about to be released.                                        *)
LEMMA AddResult ==
  ASSUME IInv, NEW w \in Workers, preprocessor_add_result(w)
  PROVE  /\ IInv'
         /\ ValuesEffect(task[w], SetVariantResult(task[w], Head(outbox[w]).outcome, req, refcount).req, todo')
         /\ NewPosition(task[w]) \in Ids /\ In1(queue', NewPosition(task[w]))
  <1>1. TypeInv /\ WorkInv /\ req \in [Ids -> Request] /\ refcount \in [Results -> Int]
    BY DEF IInv, TypeInv
  <1> DEFINE result == Head(outbox[w])
             id == task[w]
             v == SetVariantResult(id, result.outcome, req, refcount)
  <1>2. /\ todo = <<>> /\ outbox[w] # <<>> /\ result.kind = "result"
        /\ outbox' = [outbox EXCEPT ![w] = Tail(@)]
        /\ history_cache' = [history_cache EXCEPT ![ItemOf(id)] = result.history]
        /\ preprocessor_set_request_state_done(id, v.req)
        /\ refcount' = v.refcount
        /\ todo' = ResultCalls(w, id, result.outcome)
        /\ UNCHANGED <<flushed, received, started, inbox, task, workers>>
    BY DEF preprocessor_add_result, ResultCalls, ovars
  <1>3. WorkerInv(inbox[w], outbox[w], task[w], w \in started, In1(workers, w),
                  w \in ReleasesIn(todo), req, CallsIn(todo, "enqueue"))
        /\ inbox[w] = <<>> /\ Tail(outbox[w]) = <<>> /\ result = outbox[w][1] /\ result \in Reply
    BY <1>1, <1>2, WorkerFacts
  <1>4. id \in Ids /\ req[id].state = "PROCESSING" /\ w \in started
    BY <1>2, <1>3 DEF WorkerInv
  <1>5. result.outcome \in {"value", "none", "error"} /\ result.history \in History \cup {None}
    BY <1>2, <1>3, ReplyTypes
  <1>6. /\ v.req \in [Ids -> Request] /\ v.refcount \in [Results -> Int]
        /\ \A x \in Ids :
                   /\ v.req[x].state = req[x].state /\ v.req[x].flush = req[x].flush /\ v.req[x].pending = req[x].pending
                   /\ v.req[x].ver = req[x].ver
                   /\ v.req[x].supported = IF x = id /\ result.outcome = "error" THEN FALSE ELSE req[x].supported
                   /\ v.req[x].isset = IF x = id /\ result.outcome # "error" THEN (result.outcome = "value") ELSE req[x].isset
                   /\ v.req[x].res = IF x = id /\ result.outcome # "error" THEN <<id, "made">> ELSE req[x].res
    BY <1>1, <1>4, <1>5, VariantFields
  <1>7. ValueInv(req, flushed, todo, received) /\ id \in Unfinished(req) /\ req[id].state # "PENDING"
    BY <1>4 DEF IInv, Unfinished
  <1>8. id \in Known(req) /\ <<id, "made">> # None
    BY <1>4, <1>7, ValueFacts, IdTypes
  <1>9. \A x \in Ids : v.req[x].res # None <=> req[x].res # None
    BY <1>6, <1>8 DEF Known
  <1> DEFINE r == v.req
  <1>10. r \in [Ids -> Request] /\ \A x \in Ids : r[x].state = req[x].state /\ r[x].flush = req[x].flush /\ r[x].pending = req[x].pending
    BY <1>6
  <1>11. preprocessor_set_request_state_done(id, r) /\ \A x \in Ids : r[x].res # None <=> req[x].res # None
    BY <1>2, <1>9
  <1>12. v.refcount \in [Results -> Int]
    BY <1>6
  <1> HIDE DEF v, id, result, r
  <1>13. NewPosition(id) \in Ids /\ In1(queue', NewPosition(id))
    <2>1. \A x \in CallsIn(todo, "enqueue") : ItemOf(x) \in TopItems => x \in CallsIn(todo, "enqueue")
      OBVIOUS
    <2>2. DoneEffect(id, r, todo)
      BY <1>1, <1>7, <1>10, <1>11, <2>1, DoneStep DEF IInv
    <2> QED BY <2>2 DEF DoneEffect
  <1>14. /\ todo' \in Seq(CallRecord) /\ CallInv(todo')
         /\ \A x : x \notin CallsIn(todo', "enqueue") /\ x \notin CallsIn(todo', "clear")
         /\ \A x : x \in CallsIn(todo', "dependents") <=> x = id /\ result.outcome = "value"
         /\ \A u : u \in ReleasesIn(todo') <=> u = w
    <2>1. /\ ResultCalls(w, id, result.outcome) \in Seq(CallRecord) /\ CallInv(ResultCalls(w, id, result.outcome))
          /\ \A x : x \notin CallsIn(ResultCalls(w, id, result.outcome), "enqueue") /\ x \notin CallsIn(ResultCalls(w, id, result.outcome), "clear")
          /\ \A x : x \in CallsIn(ResultCalls(w, id, result.outcome), "dependents") <=> x = id /\ result.outcome = "value"
          /\ \A u : u \in ReleasesIn(ResultCalls(w, id, result.outcome)) <=> u = w
      BY <1>4, <1>13, ResultCallsProperties
    <2> QED BY <1>2, <2>1
  <1>15. ReleasesIn(todo) = {} /\ \A op, x : x \notin CallsIn(todo, op)
    BY <1>2, NoCalls
  <1>16. /\ \A x : x \in CallsIn(todo', "enqueue") <=> x \in CallsIn(todo, "enqueue")
         /\ \A x : x \in CallsIn(todo', "dependents") => x \in CallsIn(todo, "dependents") \/ x = id
         /\ \A x : x \in CallsIn(todo', "clear") => x \in CallsIn(todo, "clear")
    BY <1>14, <1>15
  <1>a. ValuesEffect(id, r, todo')
    BY <1>7, <1>10, <1>11, <1>16, DoneValues
  <1>17. /\ queue' \in Seq(Ids) /\ req' \in [Ids -> Request] /\ linked_items' \in [Items -> Ids \cup {None}]
         /\ priority_tail' \in Ids \cup {None}
         /\ \A x \in Ids : x \in Known(req') <=> x \in Known(req)
         /\ \A x \in Ids : x \in Unfinished(req') <=> x \in Unfinished(req) /\ x # id
         /\ \A x \in Ids : x # id /\ req[x].state = "PROCESSING" => req'[x].state = "PROCESSING"
         /\ QueueInv(queue', req')
         /\ ChainInv(req', linked_items', todo')
         /\ ValueInv(req', flushed, todo', received)
    BY <1>a DEF ValuesEffect
  <1>18. /\ outbox'[w] = <<>> /\ \A u \in Workers : u # w => outbox'[u] = outbox[u]
         /\ outbox' \in [Workers -> Seq(Reply)]
    <2>1. <<>> \in Seq(Reply) /\ outbox \in [Workers -> Seq(Reply)]
      BY <1>1 DEF TypeInv
    <2> QED BY <1>2, <1>3, <2>1
  <1>19. TypeInv'
    <2>1. history_cache' \in [Items -> History \cup {None}]
      BY <1>1, <1>2, <1>5 DEF TypeInv
    <2>2. refcount' \in [Results -> Int]
      BY <1>2, <1>12
    <2> QED BY <1>1, <1>2, <1>14, <1>17, <1>18, <2>1, <2>2 DEF TypeInv, preprocessor_add_result, nvars, ovars
  <1>20. WorkInv'
    <2>1. WorkerInv(inbox'[w], outbox'[w], task'[w], w \in started', In1(workers', w),
                    w \in ReleasesIn(todo'), req', CallsIn(todo', "enqueue"))
      <3>1. /\ task'[w] = id /\ id \in Ids /\ w \in started' /\ outbox'[w] = <<>> /\ inbox'[w] = <<>>
            /\ id \in Known(req') /\ id \notin Unfinished(req') /\ id \notin CallsIn(todo', "enqueue") /\ id # None
        BY <1>2, <1>3, <1>4, <1>8, <1>14, <1>17, <1>18, IdTypes DEF id
      <3>2. Len(<<>>) + Len(<<>>) <= 1
        OBVIOUS
      <3> QED BY <3>1, <3>2 DEF WorkerInv
    <2>2. \A u \in Workers : u # w =>
            /\ inbox'[u] = inbox[u] /\ outbox'[u] = outbox[u] /\ task'[u] = task[u]
            /\ (u \in started') <=> (u \in started)
            /\ In1(workers', u) <=> In1(workers, u)
            /\ u \in ReleasesIn(todo') => u \in ReleasesIn(todo)
      BY <1>2, <1>14, <1>18
    <2>3. \A x \in Ids : x # task[w] /\ req[x].state = "PROCESSING" => req'[x].state = "PROCESSING"
      BY <1>17 DEF id
    <2>4. task'[w] \in Ids => \A u \in Workers : u # w => task[u] # task'[w]
      BY <1>1, <1>2 DEF WorkInv
    <2>5. \A x \in Ids : x \in Known(req) /\ x \notin Unfinished(req) /\ x \notin CallsIn(todo, "enqueue")
                        => x \in Known(req') /\ x \notin Unfinished(req') /\ x \notin CallsIn(todo', "enqueue")
      BY <1>16, <1>17
    <2> QED BY <1>1, <2>1, <2>2, <2>3, <2>4, <2>5, WorkOne
  <1>21. IInv'
    BY <1>2, <1>14, <1>17, <1>19, <1>20 DEF IInv
  <1> QED BY <1>13, <1>21, <1>a DEF id, r, v, result


(* Descending(S) enumerates a set of numbers. *)
LEMMA DescendingProperties ==
  ASSUME NEW S \in SUBSET Nat, IsFiniteSet(S), NEW s \in Descending(S)
  PROVE  /\ Cardinality(S) \in Nat /\ DOMAIN s = 1..Cardinality(S)
         /\ \A k \in 1..Cardinality(S) : s[k] \in S
         /\ \A j, k \in 1..Cardinality(S) : j # k => s[j] # s[k]
         /\ \A x \in S : \E k \in 1..Cardinality(S) : s[k] = x
  <1> DEFINE n == Cardinality(S)
  <1>1. n \in Nat
    BY FS_CardinalityType
  <1> HIDE DEF n
  <1>2. s \in [1..n -> S] /\ \A j, k \in 1..n : j < k => s[j] > s[k]
    BY DEF Descending, n
  <1>3. \A k \in 1..n : s[k] \in S /\ s[k] \in Nat
    BY <1>2
  <1>4. ASSUME NEW j \in 1..n, NEW k \in 1..n, j # k PROVE s[j] # s[k]
    <2>1. j < k \/ k < j
      BY <1>1, <1>4
    <2> QED BY <1>2, <1>3, <2>1
  <1>5. s \in Injection(1..n, S)
    BY <1>2, <1>4 DEF Injection, IsInjective
  <1>6. Cardinality(1..n) = n
    BY <1>1, FS_Interval
  <1>7. s \in Surjection(1..n, S)
    BY <1>5, <1>6, FS_Injection DEF n
  <1>8. \A x \in S : \E k \in 1..n : s[k] = x
    BY <1>7, Zenon DEF Surjection
  <1> QED BY <1>1, <1>2, <1>3, <1>4, <1>8 DEF n

(* The calls that enqueue a list of different values. *)
EnqueueList(n, v, m, e) ==
    /\ \A k \in 1..n : v[k] \in Ids
    /\ \A j, k \in 1..n : j # k => v[j] # v[k]
    /\ e \in [1..n -> CallRecord] /\ \A k \in 1..n : e[k] = Enqueue(v[k], m)

(* A list of calls of preprocessor_enqueue, one for each value of a list.  *)
LEMMA EnqueueCalls ==
  ASSUME NEW n \in Nat, NEW v, NEW m, NEW e, EnqueueList(n, v, m, e)
  PROVE  /\ e \in Seq(CallRecord) /\ Len(e) = n /\ Apart(e) /\ ReleasesIn(e) = {}
         /\ \A k \in 1..n : e[k].op = "enqueue" /\ e[k].id = v[k] /\ e[k].master = m
         /\ \A x : x \in CallsIn(e, "enqueue") <=> \E k \in 1..n : x = v[k]
         /\ \A x : x \notin CallsIn(e, "dependents") /\ x \notin CallsIn(e, "clear")
  <1>1. /\ \A k \in 1..n : v[k] \in Ids
        /\ \A j, k \in 1..n : j # k => v[j] # v[k]
        /\ e \in [1..n -> CallRecord] /\ \A k \in 1..n : e[k] = Enqueue(v[k], m)
    BY DEF EnqueueList
  <1>2. e \in Seq(CallRecord) /\ Len(e) = n
    BY <1>1
  <1>4. \A k \in 1..n : e[k].op = "enqueue" /\ e[k].id = v[k] /\ e[k].master = m
    BY <1>1 DEF Enqueue
  <1>5. Apart(e)
    BY <1>1, <1>2, <1>4 DEF Apart, Conflict
  <1>6. ReleasesIn(e) = {}
    BY <1>2, <1>4 DEF ReleasesIn
  <1>7. \A x : x \in CallsIn(e, "enqueue") <=> \E k \in 1..n : x = v[k]
    BY <1>1, <1>2, <1>4 DEF CallsIn
  <1>8. \A x : x \notin CallsIn(e, "dependents") /\ x \notin CallsIn(e, "clear")
    BY <1>2, <1>4 DEF CallsIn
  <1> QED BY <1>2, <1>4, <1>5, <1>6, <1>7, <1>8

(* The values that are derived from another. *)
LEMMA ChildFacts ==
  /\ \A x \in Ids : \A y \in Children(x) : y \in Ids /\ y[1] = x[1] /\ ItemOf(y) \notin TopItems
  /\ \A x, z \in Ids : \A y : y \in Children(x) /\ y \in Children(z) => x = z
  <1>1. /\ Deps \in [Items -> Seq(Items)]
        /\ \A i \in Items : \A k \in DOMAIN Deps[i] :
              /\ Deps[i][k] \notin TopItems
              /\ \A j \in Items : \A l \in DOMAIN Deps[j] : Deps[i][k] = Deps[j][l] => i = j /\ k = l
    BY PreprocAssumption
  <1>2. \A i \in Items : \A k \in DOMAIN Deps[i] : Deps[i][k] \in Items
    <2>1. ASSUME NEW i \in Items, NEW k \in DOMAIN Deps[i] PROVE Deps[i][k] \in Items
      <3>1. Deps[i] \in Seq(Items)
        BY <1>1
      <3>2. k \in 1..Len(Deps[i])
        BY <2>1, <3>1
      <3> QED BY <3>1, <3>2, ElementOfSeq, Zenon
    <2> QED BY <2>1
  <1>3. ASSUME NEW x \in Ids, NEW y \in Children(x)
        PROVE  y \in Ids /\ y[1] = x[1] /\ ItemOf(y) \notin TopItems
    <2>1. PICK k \in DOMAIN Deps[ItemOf(x)] : y = <<x[1], Deps[ItemOf(x)][k]>>
      BY DEF Children
    <2>2. ItemOf(x) \in Items /\ x[1] \in 1..MaxReceived
      BY IdTypes
    <2> QED BY <1>1, <1>2, <2>1, <2>2 DEF Ids, ItemOf
  <1>4. ASSUME NEW x \in Ids, NEW z \in Ids, NEW y, y \in Children(x), y \in Children(z)
        PROVE  x = z
    <2>1. PICK k \in DOMAIN Deps[ItemOf(x)] : y = <<x[1], Deps[ItemOf(x)][k]>>
      BY <1>4 DEF Children
    <2>2. PICK l \in DOMAIN Deps[ItemOf(z)] : y = <<z[1], Deps[ItemOf(z)][l]>>
      BY <1>4 DEF Children
    <2>3. ItemOf(x) \in Items /\ ItemOf(z) \in Items /\ x = <<x[1], ItemOf(x)>> /\ z = <<z[1], ItemOf(z)>>
      BY IdTypes
    <2>4. x[1] = z[1] /\ Deps[ItemOf(x)][k] = Deps[ItemOf(z)][l]
      BY <2>1, <2>2
    <2>5. ItemOf(x) = ItemOf(z)
      BY <1>1, <2>3, <2>4
    <2> QED BY <2>3, <2>4, <2>5
  <1> QED BY <1>3, <1>4

DerivedIds(id) == {<<id[1], Deps[ItemOf(id)][k]>> : k \in dep_itemids(ItemOf(id))}

(* The two outcomes of preprocessor_enqueue_dependent. *)
DependentsNone ==
    /\ Calling("dependents")
    /\ Return
    /\ UNCHANGED <<qvars, nvars, direct_queue, workers, task, item_config, config, wvars, tests, received, ovars>>

DependentsDerived(id, s) ==
    /\ Calling("dependents") /\ id = Head(todo).id
    /\ s \in Descending(dep_itemids(ItemOf(id)))
    /\ req' = [x \in Ids |-> IF x \notin DerivedIds(id) THEN req[x]
                             ELSE [req[x] EXCEPT !.supported = req[id].supported,
                                                 !.isset = TRUE, !.res = req[id].res]]
    /\ refcount' = [refcount EXCEPT ![req[id].res] = @ + Cardinality(DerivedIds(id))]
    /\ todo' = ([k \in DOMAIN s |-> Enqueue(<<id[1], Deps[ItemOf(id)][s[k]]>>, Head(todo).master)] \o <<Assign(1), Flush>>) \o Tail(todo)
    /\ UNCHANGED <<queue, linked_items, history_cache, priority_tail, nvars, direct_queue,
                   workers, task, item_config, config, wvars, tests, received, ovars>>

(* preprocessor_enqueue_dependent has nothing to derive or derives the     *)
(* values of the dependent items.                                          *)
LEMMA DependentsCases ==
  ASSUME preprocessor_enqueue_dependent
  PROVE  DependentsNone \/ \E id, s : DependentsDerived(id, s)
  <1> DEFINE id == Head(todo).id
  <1>1. CASE req[id].isset /\ item_config[ItemOf(id)].present /\ DerivedIds(id) # {}
    BY <1>1 DEF preprocessor_enqueue_dependent, DependentsDerived, DerivedIds, Call
  <1>2. CASE ~(req[id].isset /\ item_config[ItemOf(id)].present /\ DerivedIds(id) # {})
    BY <1>2 DEF preprocessor_enqueue_dependent, DependentsNone, DerivedIds, qvars
  <1> QED BY <1>1, <1>2

(* preprocessor_enqueue_dependent with nothing to derive preserves the     *)
(* invariant.                                                              *)
LEMMA DependentsNoneStep ==
  ASSUME IInv, DependentsNone
  PROVE  IInv'
  <1>1. todo # <<>> /\ Return /\ Head(todo).op = "dependents"
    BY DEF DependentsNone, Calling
  <1>2. TypeInv'
    BY <1>1, ReturnType DEF TypeInv, DependentsNone, qvars, nvars, wvars, ovars
  <1> QED BY <1>1, <1>2, ReturnStep DEF DependentsNone, qvars, wvars, ovars


(* The derived values share the result and the state of the value of their *)
(* master item.                                                            *)
LEMMA DerivedFields ==
  ASSUME NEW id \in Ids, req \in [Ids -> Request], NEW s, DependentsDerived(id, s)
  PROVE  /\ req' \in [Ids -> Request]
         /\ \A x \in Ids : /\ req'[x].state = req[x].state /\ req'[x].flush = req[x].flush /\ req'[x].pending = req[x].pending
                           /\ req'[x].ver = req[x].ver
                           /\ req'[x].res = IF x \in DerivedIds(id) THEN req[id].res ELSE req[x].res
                           /\ req'[x].supported = IF x \in DerivedIds(id) THEN req[id].supported ELSE req[x].supported
  <1> DEFINE D == DerivedIds(id)
  <1>0. req' = [x \in Ids |-> IF x \notin D THEN req[x]
                               ELSE [req[x] EXCEPT !.supported = req[id].supported,
                                                   !.isset = TRUE, !.res = req[id].res]]
    BY DEF DependentsDerived
  <1>1. ASSUME NEW x \in Ids
        PROVE  /\ req'[x] \in Request
               /\ req'[x].state = req[x].state /\ req'[x].flush = req[x].flush /\ req'[x].pending = req[x].pending
               /\ req'[x].ver = req[x].ver
               /\ req'[x].res = IF x \in D THEN req[id].res ELSE req[x].res
               /\ req'[x].supported = IF x \in D THEN req[id].supported ELSE req[x].supported
    <2> HIDE DEF D
    <2>1. req[x] \in Request /\ req[id] \in Request
      OBVIOUS
    <2>2. req'[x] = IF x \notin D THEN req[x]
                    ELSE [req[x] EXCEPT !.supported = req[id].supported, !.isset = TRUE, !.res = req[id].res]
      BY <1>0 DEF D
    <2>3. CASE x \notin D
      BY <2>1, <2>2, <2>3
    <2>4. CASE x \in D
      <3>1. req'[x] = [req[x] EXCEPT !.supported = req[id].supported, !.isset = TRUE, !.res = req[id].res]
        BY <2>2, <2>4
      <3> QED BY ONLY <2>1, <2>4, <3>1 DEF Request
    <2> QED BY <2>3, <2>4
  <1>2. req' = [x \in Ids |-> req'[x]]
    BY <1>0
  <1>3. req' \in [Ids -> Request]
    BY ONLY <1>1, <1>2
  <1> QED BY ONLY <1>1, <1>3

(* The calls left after the values have been derived. *)
Silent(s) == \A k \in 1..Len(s) : s[k].op \notin {"queued", "release"}

(* preprocessor_enqueue_dependent replaces its call by the calls that      *)
(* enqueue the derived values.                                             *)
LEMMA DerivedCalls ==
  ASSUME todo \in Seq(CallRecord), CallInv(todo), NEW id, NEW s, DependentsDerived(id, s)
  PROVE  /\ id \in Ids /\ DerivedIds(id) \subseteq Children(id)
         /\ todo' \in Seq(CallRecord)
         /\ id \in CallsIn(todo, "dependents")
         /\ \A x : x \in CallsIn(todo', "enqueue") <=> x \in DerivedIds(id) \/ x \in CallsIn(todo, "enqueue")
         /\ \A x : x \in CallsIn(todo', "dependents") => x \in CallsIn(todo, "dependents")
         /\ \A x : x \in CallsIn(todo, "dependents") => x = id \/ x \in CallsIn(todo', "dependents")
         /\ id \notin CallsIn(todo', "dependents") /\ (id \notin DerivedIds(id) => id \notin CallsIn(todo', "enqueue"))
         /\ \A x : x \in CallsIn(todo', "clear") <=> x \in CallsIn(todo, "clear")
         /\ ReleasesIn(todo') \subseteq ReleasesIn(todo)
         /\ (\A x \in DerivedIds(id) : x \notin CallsIn(todo, "enqueue") /\ x \notin CallsIn(todo, "dependents")) => CallInv(todo')
         /\ \E u : u \in Seq(CallRecord) /\ Silent(u) /\ todo' = u \o Tail(todo)
  <1> DEFINE i == ItemOf(id)
             D == dep_itemids(i)
             n == Cardinality(D)
             v == [k \in 1..n |-> <<id[1], Deps[i][s[k]]>>]
             m == Head(todo).master
             e == [k \in 1..n |-> Enqueue(v[k], m)]
             rest == Tail(todo)
             plain == <<Assign(1), Flush>>
  <1>1. /\ todo # <<>> /\ id = Head(todo).id /\ Head(todo).op = "dependents"
        /\ s \in Descending(D)
        /\ todo' = ([k \in DOMAIN s |-> Enqueue(<<id[1], Deps[i][s[k]]>>, m)] \o plain) \o rest
    BY DEF DependentsDerived, Calling
  <1>2. /\ rest \in Seq(CallRecord) /\ Head(todo) \in CallRecord /\ CallInv(rest)
        /\ \A op, x : x \in CallsIn(rest, op) => x \in CallsIn(todo, op)
        /\ \A op, x : x \in CallsIn(todo, op) => x \in CallsIn(rest, op) \/ (Head(todo).op = op /\ Head(todo).id = x)
        /\ id \in CallsIn(todo, "dependents") /\ id \notin CallsIn(rest, "enqueue") /\ id \notin CallsIn(rest, "dependents")
        /\ ReleasesIn(rest) \subseteq ReleasesIn(todo)
    BY <1>1, TailCalls, ReturnCalls DEF CallInv
  <1>3. id \in Ids /\ m \in Ids \cup {None} /\ i \in Items
    BY <1>1, <1>2, CallTypes, IdTypes
  <1>4. Deps[i] \in Seq(Items) /\ D \subseteq DOMAIN Deps[i]
    BY <1>3, PreprocAssumption DEF dep_itemids
  <1>5. D \in SUBSET Nat /\ IsFiniteSet(D)
    <2>1. DOMAIN Deps[i] = 1..Len(Deps[i]) /\ Len(Deps[i]) \in Nat
      BY <1>4
    <2>2. IsFiniteSet(DOMAIN Deps[i])
      BY <2>1, FS_Interval
    <2> HIDE DEF D
    <2> QED BY <1>4, <2>1, <2>2, FS_Subset
  <1>6. /\ n \in Nat /\ DOMAIN s = 1..n
        /\ \A k \in 1..n : s[k] \in D
        /\ \A j, k \in 1..n : j # k => s[j] # s[k]
        /\ \A x \in D : \E k \in 1..n : s[k] = x
    <2> HIDE DEF D
    <2> QED BY <1>1, <1>5, DescendingProperties
  <1>7. DerivedIds(id) \subseteq Children(id)
    BY <1>4 DEF DerivedIds, Children
  <1>8. DerivedIds(id) \subseteq Ids
    BY <1>3, <1>7, ChildFacts
  <1> HIDE DEF D, n
  <1>9. \A k \in 1..n : v[k] \in DerivedIds(id) /\ v[k] \in Ids
    BY <1>6, <1>8 DEF DerivedIds, D
  <1>10. \A x \in DerivedIds(id) : \E k \in 1..n : x = v[k]
    BY <1>6 DEF DerivedIds, D
  <1>11. \A j, k \in 1..n : j # k => v[j] # v[k]
    <2>1. ASSUME NEW j \in 1..n, NEW k \in 1..n, j # k PROVE v[j] # v[k]
      <3>1. s[j] \in DOMAIN Deps[i] /\ s[k] \in DOMAIN Deps[i] /\ s[j] # s[k]
        BY <1>4, <1>6, <2>1
      <3>2. Deps[i][s[j]] # Deps[i][s[k]]
        BY <1>3, <3>1, PreprocAssumption
      <3> QED BY <3>2
    <2> QED BY <2>1
  <1>12. e = [k \in DOMAIN s |-> Enqueue(<<id[1], Deps[i][s[k]]>>, m)]
    BY <1>6
  <1> HIDE DEF v
  <1>13. /\ e \in Seq(CallRecord) /\ Len(e) = n /\ Apart(e) /\ ReleasesIn(e) = {}
         /\ \A k \in 1..n : e[k].op = "enqueue"
         /\ \A x : x \in CallsIn(e, "enqueue") <=> \E k \in 1..n : x = v[k]
         /\ \A x : x \notin CallsIn(e, "dependents") /\ x \notin CallsIn(e, "clear")
    <2>0. \A k \in 1..n : Enqueue(v[k], m) \in CallRecord
      BY <1>3, <1>9, CallsAreRecords
    <2>1. e \in [1..n -> CallRecord] /\ \A k \in 1..n : e[k] = Enqueue(v[k], m)
      BY <2>0
    <2>2. n \in Nat
      BY <1>6
    <2> HIDE DEF e, m
    <2>3. EnqueueList(n, v, m, e)
      BY <1>9, <1>11, <2>1 DEF EnqueueList
    <2> QED BY <2>2, <2>3, EnqueueCalls
  <1>14. \A x : x \in CallsIn(e, "enqueue") <=> x \in DerivedIds(id)
    BY <1>9, <1>10, <1>13
  <1>15. todo' = (e \o plain) \o rest
    BY <1>1, <1>12
  <1> HIDE DEF e, m
  <1>16. /\ Plain(plain) /\ plain \in Seq(CallRecord) /\ Apart(plain) /\ ReleasesIn(plain) = {}
         /\ \A op \in {"enqueue", "dependents", "clear"} : \A x : x \notin CallsIn(plain, op)
    BY PlainLists, PlainCalls
  <1>16a. Len(plain) \in Nat /\ \A k \in 1..Len(plain) : plain[k].op \notin {"queued", "release"}
    BY DEF Assign, Flush
  <1> HIDE DEF plain, rest
  <1> DEFINE t == e \o plain
  <1>17. /\ t \in Seq(CallRecord)
         /\ \A op, x : x \in CallsIn(t, op) <=> x \in CallsIn(e, op) \/ x \in CallsIn(plain, op)
         /\ \A w : w \in ReleasesIn(t) <=> w \in ReleasesIn(e) \/ w \in ReleasesIn(plain)
         /\ Apart(t)
    BY <1>13, <1>16, ConcatCalls
  <1>17a. Silent(t)
    <2>1. Len(t) = Len(e) + Len(plain) /\ \A k \in 1..Len(t) : t[k] = IF k <= Len(e) THEN e[k] ELSE plain[k - Len(e)]
      <3>1. e \in Seq(CallRecord) /\ plain \in Seq(CallRecord)
        BY <1>13, <1>16
      <3> QED BY <3>1, ConcatProperties, Zenon
    <2> HIDE DEF t
    <2>2. ASSUME NEW k \in 1..Len(t) PROVE t[k].op \notin {"queued", "release"}
      <3>1. n \in Nat /\ Len(e) = n /\ Len(plain) \in Nat /\ k \in 1..(n + Len(plain))
        BY <1>6, <1>13, <1>16a, <2>1
      <3>2. CASE k <= n
        BY <1>13, <2>1, <3>1, <3>2
      <3>3. CASE ~(k <= n)
        <4>1. k - n \in 1..Len(plain)
          BY ONLY <3>1, <3>3
        <4> QED BY <1>16a, <2>1, <3>1, <3>3, <4>1
      <3> QED BY <3>2, <3>3
    <2> QED BY <2>2 DEF Silent
  <1> HIDE DEF t
  <1>18. /\ ReleasesIn(t) = {}
         /\ \A x : x \in CallsIn(t, "enqueue") <=> x \in DerivedIds(id)
         /\ \A x : x \notin CallsIn(t, "dependents") /\ x \notin CallsIn(t, "clear")
    <2>1. \A w : w \notin ReleasesIn(t)
      BY <1>13, <1>16, <1>17
    <2> QED BY <1>13, <1>14, <1>16, <1>17, <2>1
  <1>19. /\ t \o rest \in Seq(CallRecord)
         /\ \A op, x : x \in CallsIn(t \o rest, op) <=> x \in CallsIn(t, op) \/ x \in CallsIn(rest, op)
         /\ \A w : w \in ReleasesIn(t \o rest) <=> w \in ReleasesIn(t) \/ w \in ReleasesIn(rest)
    BY <1>2, <1>17, ConcatCalls
  <1>20. todo' = t \o rest
    BY <1>15 DEF t
  <1>21. ASSUME \A x \in DerivedIds(id) : x \notin CallsIn(todo, "enqueue") /\ x \notin CallsIn(todo, "dependents")
         PROVE  CallInv(todo')
    <2>1. \A x \in CallsIn(t, "enqueue") : ItemOf(x) \notin TopItems
      BY <1>3, <1>7, <1>18, ChildFacts
    <2>2. \A x : x \in CallsIn(t, "enqueue") \/ x \in CallsIn(t, "dependents") =>
                  x \notin CallsIn(rest, "enqueue") /\ x \notin CallsIn(rest, "dependents")
      BY <1>2, <1>18, <1>21
    <2>3. \A x : x \in CallsIn(t, "clear") => x \notin CallsIn(rest, "clear")
      BY <1>18
    <2>4. CallInv(t \o rest)
      BY <1>2, <1>17, <1>18, <2>1, <2>2, <2>3, CallCalls
    <2> QED BY <1>20, <2>4
  <1>22. /\ \A x : x \in CallsIn(todo', "enqueue") <=> x \in DerivedIds(id) \/ x \in CallsIn(todo, "enqueue")
         /\ \A x : x \in CallsIn(todo', "dependents") => x \in CallsIn(todo, "dependents")
         /\ \A x : x \in CallsIn(todo, "dependents") => x = id \/ x \in CallsIn(todo', "dependents")
         /\ \A x : x \in CallsIn(todo', "clear") <=> x \in CallsIn(todo, "clear")
    BY <1>1, <1>2, <1>18, <1>19, <1>20
  <1>23. id \notin CallsIn(todo', "dependents") /\ (id \notin DerivedIds(id) => id \notin CallsIn(todo', "enqueue"))
    BY <1>2, <1>18, <1>19, <1>20
  <1>24. ReleasesIn(todo') \subseteq ReleasesIn(todo)
    BY <1>2, <1>18, <1>19, <1>20
  <1>25. t \in Seq(CallRecord) /\ Silent(t) /\ todo' = t \o Tail(todo)
    BY <1>17, <1>17a, <1>20 DEF rest
  <1> QED BY <1>2, <1>3, <1>7, <1>19, <1>20, <1>21, <1>22, <1>23, <1>24, <1>25


(* preprocessor_enqueue_dependent preserves the invariant: the values of   *)
(* the dependent items have not been derived before.                       *)
LEMMA DependentsDerivedStep ==
  ASSUME IInv, NEW id, NEW s, DependentsDerived(id, s)
  PROVE  IInv'
  <1> DEFINE D == DerivedIds(id)
  <1>1. /\ TypeInv /\ WorkInv /\ CallInv(todo) /\ todo \in Seq(CallRecord) /\ req \in [Ids -> Request]
        /\ QueueInv(queue, req) /\ ValueInv(req, flushed, todo, received) /\ ChainInv(req, linked_items, todo)
    BY DEF IInv, TypeInv
  <1>2. /\ id \in Ids /\ D \subseteq Children(id)
        /\ todo' \in Seq(CallRecord)
        /\ id \in CallsIn(todo, "dependents")
        /\ \A x : x \in CallsIn(todo', "enqueue") <=> x \in D \/ x \in CallsIn(todo, "enqueue")
        /\ \A x : x \in CallsIn(todo', "dependents") => x \in CallsIn(todo, "dependents")
        /\ \A x : x \in CallsIn(todo, "dependents") => x = id \/ x \in CallsIn(todo', "dependents")
        /\ id \notin CallsIn(todo', "dependents") /\ (id \notin D => id \notin CallsIn(todo', "enqueue"))
        /\ \A x : x \in CallsIn(todo', "clear") => x \in CallsIn(todo, "clear")
        /\ ReleasesIn(todo') \subseteq ReleasesIn(todo)
        /\ (\A x \in D : x \notin CallsIn(todo, "enqueue") /\ x \notin CallsIn(todo, "dependents")) => CallInv(todo')
    BY <1>1, DerivedCalls
  <1>3. D \subseteq Ids /\ \A x \in D : x[1] = id[1] /\ ItemOf(x) \notin TopItems
    BY <1>2, ChildFacts
  <1>4. id \in Known(req) /\ id \notin Unfinished(req) /\ id[1] <= received
    BY <1>1, <1>2 DEF ValueInv
  <1>5. \A x \in Children(id) : x \notin Known(req)
    BY <1>1, <1>2 DEF ValueInv
  <1>6. \A x \in Children(id) : /\ x \in Ids /\ x \notin CallsIn(todo, "enqueue") /\ x \notin CallsIn(todo, "dependents")
                                /\ x \notin Held(req) /\ x \notin Unfinished(req) /\ ~In1(flushed, x) /\ x # id
                                /\ req[x].flush = <<>> /\ req[x].pending = None
    <2>1. ASSUME NEW x \in Children(id)
          PROVE  /\ x \in Ids /\ x \notin CallsIn(todo, "enqueue") /\ x \notin CallsIn(todo, "dependents")
                 /\ x \notin Held(req) /\ x \notin Unfinished(req) /\ ~In1(flushed, x) /\ x # id
                 /\ req[x].flush = <<>> /\ req[x].pending = None
      <3>1. x \in Ids /\ x \notin Known(req) /\ x # id
        BY <1>2, <1>4, <1>5, ChildFacts
      <3>2. req[x].state = "FREE" /\ req[x].flush = <<>> /\ req[x].pending = None
        BY <1>1, <3>1 DEF ValueInv
      <3>3. x \notin CallsIn(todo, "enqueue") /\ x \notin CallsIn(todo, "dependents") /\ ~In1(flushed, x)
        BY <1>1, <3>1 DEF ValueInv
      <3> QED BY <3>1, <3>2, <3>3 DEF Held, Unfinished
    <2> QED BY <2>1
  <1>7. CallInv(todo')
    BY <1>2, <1>6
  <1> HIDE DEF D
  <1>8. /\ req' \in [Ids -> Request]
        /\ \A x \in Ids : /\ req'[x].state = req[x].state /\ req'[x].flush = req[x].flush /\ req'[x].pending = req[x].pending
                          /\ req'[x].res = IF x \in D THEN req[id].res ELSE req[x].res
    BY <1>1, <1>2, <1>3, DerivedFields DEF D
  <1>9. /\ UNCHANGED <<queue, linked_items, flushed, received, inbox, outbox, task, started, workers>>
    BY DEF DependentsDerived, wvars, ovars
  <1>10. /\ \A x \in Ids : x \in Held(req') <=> x \in Held(req)
         /\ \A x \in Ids : x \in Unfinished(req') <=> x \in Unfinished(req)
         /\ \A x \in Ids : x \in Known(req') <=> x \in Known(req) \/ x \in D
    <2>1. req[id].res # None
      BY <1>4 DEF Known
    <2> QED BY <1>8, <2>1 DEF Held, Unfinished, Known
  <1>11. Unfinished(req) \subseteq Ids /\ Unfinished(req') \subseteq Ids
    BY DEF Unfinished
  <1>12. TypeInv'
    <2>1. refcount' \in [Results -> Int]
      <3>1. IsFiniteSet(D)
        <4>1. Deps[ItemOf(id)] \in Seq(Items)
          BY <1>2, IdTypes, PreprocAssumption
        <4>2. DOMAIN Deps[ItemOf(id)] = 1..Len(Deps[ItemOf(id)]) /\ Len(Deps[ItemOf(id)]) \in Nat
          BY <4>1
        <4>3. IsFiniteSet(DOMAIN Deps[ItemOf(id)])
          BY <4>2, FS_Interval
        <4>4. dep_itemids(ItemOf(id)) \subseteq DOMAIN Deps[ItemOf(id)]
          BY DEF dep_itemids
        <4>5. IsFiniteSet(dep_itemids(ItemOf(id)))
          BY <4>3, <4>4, FS_Subset
        <4> DEFINE f == [k \in dep_itemids(ItemOf(id)) |-> <<id[1], Deps[ItemOf(id)][k]>>]
        <4>6. f \in Surjection(dep_itemids(ItemOf(id)), D)
          BY DEF Surjection, D, DerivedIds
        <4> QED BY <4>5, <4>6, FS_Surjection
      <3>2. Cardinality(D) \in Nat
        BY <3>1, FS_CardinalityType
      <3>3. \A k : [refcount EXCEPT ![k] = @ + Cardinality(D)] \in [Results -> Int]
        <4>1. \A r \in Results : refcount[r] \in Int /\ refcount[r] + Cardinality(D) \in Int
          BY <1>1, <3>2 DEF TypeInv
        <4> QED BY <1>1, <4>1 DEF TypeInv
      <3> QED BY <3>3 DEF DependentsDerived, D
    <2> QED BY <1>1, <1>2, <1>8, <2>1 DEF TypeInv, DependentsDerived, nvars, wvars, ovars
  <1>13. QueueInv(queue', req')
    <2>1. \A x \in Ids : req'[x].flush = req[x].flush
      BY <1>8
    <2>2. \A x \in Unfinished(req') : x \in Unfinished(req)
      BY <1>10, <1>11
    <2>3. QueueInv(queue, req')
      BY <1>1, <1>10, <2>1, <2>2, QueueKeep
    <2> QED BY <1>9, <2>3
  <1>14. ChainInv(req', linked_items', todo')
    <2>1. \A x \in Ids : (req'[x].state = "PENDING" <=> req[x].state = "PENDING") /\ req'[x].pending = req[x].pending
      BY <1>8
    <2>2. \A x \in Unfinished(req) : x \in Unfinished(req')
      BY <1>10, <1>11
    <2>3. \A x \in Unfinished(req') : x \in Unfinished(req)
      BY <1>10, <1>11
    <2>4. \A x \in CallsIn(todo', "enqueue") : ItemOf(x) \in TopItems => x \in CallsIn(todo, "enqueue")
      BY <1>2, <1>3
    <2>5. ChainInv(req', linked_items, todo')
      BY <1>1, <2>1, <2>2, <2>3, <2>4, ChainSame
    <2> QED BY <1>9, <2>5
  <1>15. WorkInv'
    <2>1. \A x \in Ids : req[x].state = "PROCESSING" => req'[x].state = "PROCESSING"
      BY <1>8
    <2>2. \A x \in Ids : x \in Known(req) /\ x \notin Unfinished(req) /\ x \notin CallsIn(todo, "enqueue")
                         => x \in Known(req') /\ x \notin Unfinished(req') /\ x \notin CallsIn(todo', "enqueue")
      BY <1>2, <1>5, <1>10 DEF D
    <2> QED BY <1>1, <1>2, <1>9, <2>1, <2>2, WorkKeep
  <1>16. ValueInv(req', flushed, todo', received)
    <2>1. \A x \in Ids \ Known(req') : req'[x].state = "FREE" /\ req'[x].flush = <<>> /\ req'[x].pending = None
      <3>1. ASSUME NEW x \in Ids \ Known(req') PROVE req'[x].state = "FREE" /\ req'[x].flush = <<>> /\ req'[x].pending = None
        <4>1. x \in Ids \ Known(req)
          BY <1>10
        <4> QED BY <1>1, <1>8, <4>1 DEF ValueInv
      <3> QED BY <3>1
    <2>2. \A x \in CallsIn(todo', "enqueue") : x \in Known(req') /\ x \notin Held(req') /\ ~In1(flushed, x)
      <3>1. ASSUME NEW x \in CallsIn(todo', "enqueue") PROVE x \in Known(req') /\ x \notin Held(req') /\ ~In1(flushed, x)
        <4>1. CASE x \in D
          BY <1>2, <1>3, <1>6, <1>10, <4>1 DEF D
        <4>2. CASE x \in CallsIn(todo, "enqueue")
          <5>1. x \in Known(req) /\ x \notin Held(req) /\ ~In1(flushed, x)
            BY <1>1, <4>2 DEF ValueInv
          <5>2. x \in Ids
            BY <4>2 DEF CallsIn
          <5> QED BY <1>10, <5>1, <5>2
        <4> QED BY <1>2, <3>1, <4>1, <4>2
      <3> QED BY <3>1
    <2>3. \A x \in CallsIn(todo', "dependents") : x \in Known(req') /\ x \notin Unfinished(req')
      <3>1. ASSUME NEW x \in CallsIn(todo', "dependents") PROVE x \in Known(req') /\ x \notin Unfinished(req')
        <4>1. x \in CallsIn(todo, "dependents")
          BY <1>2, <3>1
        <4>2. x \in Ids
          BY <4>1 DEF CallsIn
        <4>3. x \in Known(req) /\ x \notin Unfinished(req)
          BY <1>1, <4>1 DEF ValueInv
        <4> QED BY <1>10, <4>2, <4>3
      <3> QED BY <3>1
    <2>4. \A x \in CallsIn(todo', "clear") : In1(flushed, x)
      BY <1>1, <1>2 DEF ValueInv
    <2>5. \A x \in Ids : In1(flushed, x) => x \in Known(req') /\ x \notin Held(req')
      BY <1>1, <1>10 DEF ValueInv
    <2>6. \A x \in Known(req') : x \in Held(req') \/ In1(flushed, x) \/ x \in CallsIn(todo', "enqueue")
      <3>1. ASSUME NEW x \in Known(req') PROVE x \in Held(req') \/ In1(flushed, x) \/ x \in CallsIn(todo', "enqueue")
        <4>1. x \in Ids
          BY DEF Known
        <4>2. x \in D \/ x \in Known(req)
          BY <1>10, <4>1
        <4>3. x \in Known(req) => x \in Held(req) \/ In1(flushed, x) \/ x \in CallsIn(todo, "enqueue")
          BY <1>1 DEF ValueInv
        <4> QED BY <1>2, <1>10, <4>1, <4>2, <4>3 DEF D
      <3> QED BY <3>1
    <2>7. \A x \in CallsIn(todo', "enqueue") : req'[x].flush = <<>> /\ req'[x].pending = None
      <3>1. ASSUME NEW x \in CallsIn(todo', "enqueue") PROVE req'[x].flush = <<>> /\ req'[x].pending = None
        <4>1. x \in Ids
          BY DEF CallsIn
        <4>2. req[x].flush = <<>> /\ req[x].pending = None
          <5>1. CASE x \in D
            BY <1>2, <1>6, <5>1 DEF D
          <5>2. CASE x \in CallsIn(todo, "enqueue")
            BY <1>1, <5>2 DEF ValueInv
          <5> QED BY <1>2, <3>1, <5>1, <5>2 DEF D
        <4> QED BY <1>8, <4>1, <4>2
      <3> QED BY <3>1
    <2>8. \A x \in Ids : x \notin Known(req') \/ x \in CallsIn(todo', "enqueue") \/ x \in CallsIn(todo', "dependents") \/ x \in Unfinished(req')
              => \A y \in Children(x) : y \notin Known(req')
      <3>1. ASSUME NEW x \in Ids, x \notin Known(req') \/ x \in CallsIn(todo', "enqueue") \/ x \in CallsIn(todo', "dependents") \/ x \in Unfinished(req'),
                   NEW y \in Children(x)
            PROVE  y \notin Known(req')
        <4>1. x # id
          <5>1. id \in Known(req') /\ id \notin Unfinished(req')
            BY <1>2, <1>4, <1>10
          <5>2. id \notin D
            BY <1>2, <1>6
          <5> QED BY <1>2, <3>1, <5>1, <5>2 DEF D
        <4>2. y \in Ids /\ y \notin Children(id)
          BY <1>2, <3>1, <4>1, ChildFacts
        <4>3. y \notin D
          BY <1>2, <4>2 DEF D
        <4>4. x \notin Known(req) \/ x \in CallsIn(todo, "enqueue") \/ x \in CallsIn(todo, "dependents") \/ x \in Unfinished(req)
          <5>1. x \in D => x \notin Known(req)
            BY <1>2, <1>5 DEF D
          <5> QED BY <1>2, <1>10, <3>1, <5>1 DEF D
        <4>5. y \notin Known(req)
          BY <1>1, <3>1, <4>4 DEF ValueInv
        <4> QED BY <1>10, <4>2, <4>3, <4>5
      <3> QED BY <3>1
    <2>9. \A x \in Known(req') : x[1] <= received
      <3>1. ASSUME NEW x \in Known(req') PROVE x[1] <= received
        <4>1. x \in Ids
          BY DEF Known
        <4>2. x \in D \/ x \in Known(req)
          BY <1>10, <4>1
        <4>3. x \in Known(req) => x[1] <= received
          BY <1>1 DEF ValueInv
        <4> QED BY <1>3, <1>4, <4>2, <4>3
      <3> QED BY <3>1
    <2>10. Injective(flushed)
      BY <1>1 DEF ValueInv
    <2> QED BY <2>1, <2>2, <2>3, <2>4, <2>5, <2>6, <2>7, <2>8, <2>9, <2>10 DEF ValueInv
  <1> QED BY <1>7, <1>9, <1>12, <1>13, <1>14, <1>15, <1>16 DEF IInv

(* preprocessor_enqueue_dependent preserves the invariant.                 *)
LEMMA DependentsStep ==
  ASSUME IInv, preprocessor_enqueue_dependent
  PROVE  IInv'
  BY DependentsCases, DependentsNoneStep, DependentsDerivedStep


(* The first request and the values of its flush queue. *)
LEMMA FirstNodeProperties ==
  ASSUME NEW Q \in Seq(Ids), Q # <<>>, NEW F \in Queues, Unique(Q, F)
  PROVE  LET ids == <<Head(Q)>> \o F[Head(Q)]
         IN  /\ ids \in Seq(Ids) /\ Len(ids) \in Nat
             /\ \A k \in 1..Len(ids) : <<1, k - 1>> \in Places(Q, F) /\ ids[k] = At(Q, F, <<1, k - 1>>) /\ ids[k] \in Ids
             /\ Injective(ids)
             /\ \A x : In1(ids, x) <=> x \in FirstNode(Q, F)
             /\ \A x : x \in FirstNode(Q, F) => In(Q, F, x)
             /\ Head(Q) \in FirstNode(Q, F) /\ Head(Q) = Q[1] /\ Head(Q) \in Ids
  <1> DEFINE h == Head(Q)
             f == F[h]
             ids == <<h>> \o f
  <1>1. h \in Ids /\ h = Q[1] /\ Len(Q) \in Nat /\ 1 \in 1..Len(Q)
    BY HeadTailProperties, LenProperties, EmptySeq
  <1>2. f \in Seq(Ids) /\ Len(f) \in Nat /\ f = F[Q[1]]
    BY <1>1 DEF Queues
  <1>3. ids \in Seq(Ids) /\ Len(ids) = Len(f) + 1 /\ \A k \in 1..Len(ids) : ids[k] = IF k = 1 THEN h ELSE f[k - 1]
    BY <1>1, <1>2
  <1> HIDE DEF ids, f, h
  <1>4. \A k \in 1..Len(ids) : ids[k] \in Ids
    BY <1>3, ElementOfSeq, Zenon
  <1>5. ASSUME NEW k \in 1..Len(ids)
        PROVE  /\ <<1, k - 1>> \in Places(Q, F) /\ ids[k] = At(Q, F, <<1, k - 1>>)
               /\ k - 1 \in 0..Len(F[Q[1]]) /\ ids[k] = Value(Q, F, 1, k - 1)
    <2>1. k - 1 \in Nat /\ k - 1 <= Len(F[Q[1]]) /\ (k - 1 = 0 <=> k = 1)
      BY <1>2, <1>3
    <2>2. <<1, k - 1>> \in Places(Q, F)
      BY <1>1, <2>1, PlacesIn
    <2>3. At(Q, F, <<1, k - 1>>) = Value(Q, F, 1, k - 1)
      BY DEF At
    <2>4. Value(Q, F, 1, k - 1) = ids[k]
      BY <1>1, <1>2, <1>3, <2>1 DEF Value
    <2>5. k - 1 \in 0..Len(F[Q[1]])
      BY <1>2, <1>3
    <2> QED BY <2>2, <2>3, <2>4, <2>5
  <1>6. Injective(ids)
    <2>1. ASSUME NEW j \in 1..Len(ids), NEW k \in 1..Len(ids), j # k PROVE ids[j] # ids[k]
      <3>1. <<1, j - 1>> # <<1, k - 1>>
        <4>1. j - 1 # k - 1
          BY <2>1, <1>2, <1>3
        <4> QED BY <4>1
      <3> QED BY <3>1, <1>5 DEF Unique
    <2> QED BY <2>1 DEF Injective
  <1>7. \A x : In1(ids, x) => x \in FirstNode(Q, F)
    <2>1. ASSUME NEW k \in 1..Len(ids) PROVE ids[k] \in FirstNode(Q, F)
      <3>1. k - 1 \in 0..Len(F[Q[1]]) /\ ids[k] = Value(Q, F, 1, k - 1)
        BY <1>5
      <3> QED BY <3>1 DEF FirstNode
    <2> QED BY <2>1 DEF In1
  <1>8. ASSUME NEW x \in FirstNode(Q, F) PROVE In1(ids, x) /\ In(Q, F, x)
    <2>1. PICK j \in 0..Len(F[Q[1]]) : x = Value(Q, F, 1, j)
      BY DEF FirstNode
    <2>2. j + 1 \in 1..Len(ids) /\ (j + 1) - 1 = j
      BY <1>2, <1>3, <2>1
    <2>3. <<1, j>> \in Places(Q, F) /\ ids[j + 1] = At(Q, F, <<1, j>>)
      BY <1>5, <2>2
    <2>4. At(Q, F, <<1, j>>) = x
      BY <2>1 DEF At
    <2> QED BY <2>2, <2>3, <2>4 DEF In1, In
  <1>9. h \in FirstNode(Q, F)
    <2>1. 1 \in 1..Len(ids) /\ ids[1] = h
      BY <1>2, <1>3
    <2> QED BY <2>1, <1>7 DEF In1
  <1>10. Len(ids) \in Nat
    BY <1>2, <1>3
  <1>11. \A x : In1(ids, x) <=> x \in FirstNode(Q, F)
    BY <1>7, <1>8
  <1> QED BY <1>1, <1>3, <1>4, <1>5, <1>6, <1>8, <1>9, <1>10, <1>11 DEF ids, f, h

(* The elements of two lists one after the other.                          *)
LEMMA ConcatInjective ==
  ASSUME NEW s \in Seq(Ids), NEW t \in Seq(Ids)
  PROVE  /\ s \o t \in Seq(Ids) /\ Len(s \o t) = Len(s) + Len(t)
         /\ \A x : In1(s \o t, x) <=> In1(s, x) \/ In1(t, x)
         /\ Injective(s) /\ Injective(t) /\ (\A x : In1(s, x) => ~In1(t, x)) => Injective(s \o t)
  <1> DEFINE u == s \o t
  <1>1. /\ u \in Seq(Ids) /\ Len(u) = Len(s) + Len(t) /\ Len(s) \in Nat /\ Len(t) \in Nat
        /\ \A k \in 1..Len(u) : u[k] = IF k <= Len(s) THEN s[k] ELSE t[k - Len(s)]
    OBVIOUS
  <1> HIDE DEF u
  <1>2. ASSUME NEW k \in 1..Len(u)
        PROVE  (k \in 1..Len(s) /\ u[k] = s[k]) \/ (k - Len(s) \in 1..Len(t) /\ u[k] = t[k - Len(s)] /\ k \notin 1..Len(s))
    <2>1. (k \in 1..Len(s) /\ k <= Len(s)) \/ (k - Len(s) \in 1..Len(t) /\ ~(k <= Len(s)) /\ k \notin 1..Len(s))
      BY <1>1
    <2> QED BY <1>1, <2>1
  <1>3. \A k \in 1..Len(s) : k \in 1..Len(u) /\ u[k] = s[k]
    <2>1. \A k \in 1..Len(s) : k \in 1..Len(u) /\ k <= Len(s)
      BY <1>1
    <2> QED BY <1>1, <2>1
  <1>4. \A k \in 1..Len(t) : Len(s) + k \in 1..Len(u) /\ u[Len(s) + k] = t[k]
    <2>1. \A k \in 1..Len(t) : Len(s) + k \in 1..Len(u) /\ ~(Len(s) + k <= Len(s)) /\ (Len(s) + k) - Len(s) = k
      BY <1>1
    <2> QED BY <1>1, <2>1
  <1>5. ASSUME NEW x PROVE In1(u, x) <=> In1(s, x) \/ In1(t, x)
    <2>1. In1(u, x) => In1(s, x) \/ In1(t, x)
      BY <1>2 DEF In1
    <2>2. In1(s, x) => In1(u, x)
      BY <1>3 DEF In1
    <2>3. In1(t, x) => In1(u, x)
      BY <1>4 DEF In1
    <2> QED BY <2>1, <2>2, <2>3
  <1>6. ASSUME Injective(s), Injective(t), \A x : In1(s, x) => ~In1(t, x) PROVE Injective(u)
    <2>1. ASSUME NEW j \in 1..Len(u), NEW k \in 1..Len(u), j # k PROVE u[j] # u[k]
      <3>1. CASE j \in 1..Len(s) /\ k \in 1..Len(s)
        BY <1>3, <1>6, <2>1, <3>1 DEF Injective
      <3>2. CASE j \notin 1..Len(s) /\ k \notin 1..Len(s)
        <4>1. j - Len(s) # k - Len(s)
          BY <1>1, <2>1
        <4> QED BY <1>2, <1>6, <3>2, <4>1 DEF Injective
      <3>3. CASE j \in 1..Len(s) /\ k \notin 1..Len(s)
        <4>1. In1(s, u[j]) /\ In1(t, u[k])
          BY <1>2, <3>3 DEF In1
        <4> QED BY <4>1, <1>6
      <3>4. CASE j \notin 1..Len(s) /\ k \in 1..Len(s)
        <4>1. In1(t, u[j]) /\ In1(s, u[k])
          BY <1>2, <3>4 DEF In1
        <4> QED BY <4>1, <1>6
      <3> QED BY <3>1, <3>2, <3>3, <3>4
    <2> QED BY <2>1 DEF Injective
  <1> QED BY <1>1, <1>5, <1>6 DEF u


FlushNone ==
    /\ Calling("flush")
    /\ Return
    /\ UNCHANGED <<queue, req, refcount, priority_tail, queued_num, flushed>>
    /\ UNCHANGED <<linked_items, history_cache, preproc_num, direct_queue, workers, task,
                   item_config, config, wvars, tests, received, delivered>>

FlushFirst(ids) ==
    /\ Calling("flush")
    /\ queue # <<>> /\ req[Head(queue)].state = "DONE"
    /\ ids = <<Head(queue)>> \o req[Head(queue)].flush
    /\ flushed' = flushed \o ids
    /\ queued_num' = queued_num - Len(ids)
    /\ req' = [x \in Ids |-> IF Contains(ids, x) THEN [req[x] EXCEPT !.state = "FREE"] ELSE req[x]]
    /\ refcount' = [r \in Results |->
          refcount[r] - Cardinality({k \in DOMAIN ids : req[ids[k]].res = r})]
    /\ priority_tail' = IF priority_tail = Head(queue) THEN None ELSE priority_tail
    /\ queue' = Tail(queue)
    /\ UNCHANGED todo
    /\ UNCHANGED <<linked_items, history_cache, preproc_num, direct_queue, workers, task,
                   item_config, config, wvars, tests, received, delivered>>

(* preprocessing_flush_queue ends, or flushes the first request with its   *)
(* flush queue.                                                            *)
LEMMA FlushCases ==
  ASSUME preprocessing_flush_queue
  PROVE  FlushNone \/ \E ids : FlushFirst(ids)
  <1>1. CASE HeadDone
    <2> DEFINE ids == <<Head(queue)>> \o req[Head(queue)].flush
    <2>1. FlushFirst(ids)
      BY <1>1 DEF preprocessing_flush_queue, FlushFirst, HeadDone
    <2> QED BY <2>1
  <1>2. CASE ~HeadDone
    BY <1>2 DEF preprocessing_flush_queue, FlushNone
  <1> QED BY <1>1, <1>2

(* The end of preprocessing_flush_queue preserves the invariant.           *)
LEMMA FlushNoneStep ==
  ASSUME IInv, FlushNone
  PROVE  IInv'
  <1>1. todo # <<>> /\ Return /\ Head(todo).op = "flush"
    BY DEF FlushNone, Calling
  <1>2. TypeInv'
    BY <1>1, ReturnType DEF TypeInv, FlushNone, wvars
  <1> QED BY <1>1, <1>2, ReturnStep DEF FlushNone, wvars

(* The values that are flushed. *)
FlushedIds == FirstNode(queue, FlushQueues(req))

(* preprocessing_flush_queue flushes what is at the first node of the      *)
(* queue, all of it done.                                                  *)
LEMMA FlushFields ==
  ASSUME IInv, NEW ids, FlushFirst(ids)
  PROVE  /\ ids \in Seq(Ids) /\ Len(ids) \in Nat /\ Injective(ids)
         /\ \A k \in 1..Len(ids) : <<1, k - 1>> \in Places(queue, FlushQueues(req)) /\ ids[k] = At(queue, FlushQueues(req), <<1, k - 1>>)
         /\ \A x : In1(ids, x) <=> x \in FlushedIds
         /\ \A x : x \in FlushedIds => x \in Held(req) /\ x \in Ids /\ x \notin Unfinished(req)
         /\ Head(queue) \in FlushedIds
         /\ req' \in [Ids -> Request]
         /\ \A x \in Ids :
               /\ req'[x].state = IF x \in FlushedIds THEN "FREE" ELSE req[x].state
               /\ req'[x].flush = req[x].flush /\ req'[x].pending = req[x].pending
               /\ req'[x].res = req[x].res /\ req'[x].supported = req[x].supported
  <1> DEFINE F == FlushQueues(req)
  <1>1. /\ req \in [Ids -> Request] /\ queue \in Seq(Ids) /\ queue # <<>> /\ QueueInv(queue, req)
        /\ req[Head(queue)].state = "DONE" /\ F \in Queues /\ \A x \in Ids : F[x] = req[x].flush
    BY FlushQueuesType DEF IInv, TypeInv, FlushFirst
  <1>2. Unique(queue, F) /\ (\A x \in Ids : x \in Held(req) <=> In(queue, F, x)) /\ \A x \in Unfinished(req) : In1(queue, x)
    BY <1>1 DEF QueueInv
  <1> HIDE DEF F
  <1>3. ids = <<Head(queue)>> \o F[Head(queue)]
    <2>1. Head(queue) \in Ids
      BY <1>1, HeadTailProperties
    <2> QED BY <1>1, <2>1 DEF FlushFirst
  <1>4. /\ ids \in Seq(Ids) /\ Len(ids) \in Nat
        /\ \A k \in 1..Len(ids) : <<1, k - 1>> \in Places(queue, F) /\ ids[k] = At(queue, F, <<1, k - 1>>) /\ ids[k] \in Ids
        /\ Injective(ids)
        /\ \A x : In1(ids, x) <=> x \in FirstNode(queue, F)
        /\ \A x : x \in FirstNode(queue, F) => In(queue, F, x)
        /\ Head(queue) \in FirstNode(queue, F) /\ Head(queue) = queue[1] /\ Head(queue) \in Ids
    BY <1>1, <1>2, <1>3, FirstNodeProperties
  <1>5. \A x : x \in FlushedIds <=> x \in FirstNode(queue, F)
    BY DEF FlushedIds, F
  <1>6. \A x : x \in FirstNode(queue, F) => x \in Ids
    BY <1>4 DEF In1
  <1>7. ASSUME NEW x \in FirstNode(queue, F), x \in Unfinished(req) PROVE FALSE
    <2>1. PICK k \in 1..Len(queue) : queue[k] = x
      BY <1>2, <1>7 DEF In1
    <2>2. PICK j \in 1..Len(ids) : ids[j] = x
      BY <1>4, <1>7 DEF In1
    <2>3. <<k, 0>> \in Places(queue, F) /\ At(queue, F, <<k, 0>>) = x
      <3>1. queue[k] \in Ids
        BY <2>1, <1>6
      <3>2. F[queue[k]] \in Seq(Ids)
        BY <1>1, <3>1 DEF Queues
      <3>3. 0 \in Nat /\ 0 <= Len(F[queue[k]])
        BY <3>2, LenProperties
      <3> QED BY <2>1, <3>3, PlacesIn DEF At, Value
    <2>4. <<1, j - 1>> \in Places(queue, F) /\ At(queue, F, <<1, j - 1>>) = x
      BY <1>4, <2>2
    <2>5. <<k, 0>> = <<1, j - 1>>
      BY <1>2, <2>3, <2>4 DEF Unique
    <2>6. x = Head(queue)
      BY <2>1, <2>5, <1>4
    <2> QED BY <1>1, <1>7, <2>6 DEF Unfinished
  <1>8. \A x \in Ids : req'[x] = IF x \in FlushedIds THEN [req[x] EXCEPT !.state = "FREE"] ELSE req[x]
    <2>1. \A x : Contains(ids, x) <=> In1(ids, x)
      BY DEF Contains, In1
    <2> QED BY <1>4, <1>5, <2>1 DEF FlushFirst
  <1>9. ASSUME NEW x \in Ids
        PROVE  /\ req'[x] \in Request
               /\ req'[x].state = IF x \in FlushedIds THEN "FREE" ELSE req[x].state
               /\ req'[x].flush = req[x].flush /\ req'[x].pending = req[x].pending
               /\ req'[x].res = req[x].res /\ req'[x].supported = req[x].supported
    <2>1. req[x] \in Request
      BY <1>1
    <2>2. CASE x \in FlushedIds
      <3>1. req'[x] = [req[x] EXCEPT !.state = "FREE"]
        BY <1>8, <2>2
      <3> QED BY ONLY <2>1, <2>2, <3>1 DEF Request
    <2>3. CASE x \notin FlushedIds
      <3>1. req'[x] = req[x]
        BY <1>8, <2>3
      <3> QED BY ONLY <2>1, <2>3, <3>1
    <2> QED BY <2>2, <2>3
  <1>10. req' \in [Ids -> Request]
    <2>1. req' = [x \in Ids |-> req'[x]]
      BY DEF FlushFirst
    <2> QED BY <1>9, <2>1
  <1> QED BY <1>2, <1>4, <1>5, <1>6, <1>7, <1>9, <1>10 DEF F


(* Flushing the first request with its flush queue preserves the           *)
(* invariant: what leaves the queue is flushed, once.                      *)
LEMMA FlushFirstStep ==
  ASSUME IInv, NEW ids, FlushFirst(ids)
  PROVE  IInv'
  <1> DEFINE N == FlushedIds
  <1>1. /\ TypeInv /\ WorkInv /\ CallInv(todo) /\ req \in [Ids -> Request] /\ queue \in Seq(Ids) /\ flushed \in Seq(Ids)
        /\ QueueInv(queue, req) /\ ValueInv(req, flushed, todo, received) /\ ChainInv(req, linked_items, todo)
    BY DEF IInv, TypeInv
  <1>2. /\ ids \in Seq(Ids) /\ Len(ids) \in Nat /\ Injective(ids)
        /\ \A x : In1(ids, x) <=> x \in N
        /\ \A x : x \in N => x \in Held(req) /\ x \in Ids /\ x \notin Unfinished(req)
        /\ Head(queue) \in N
        /\ req' \in [Ids -> Request]
        /\ \A x \in Ids :
              /\ req'[x].state = IF x \in N THEN "FREE" ELSE req[x].state
              /\ req'[x].flush = req[x].flush /\ req'[x].pending = req[x].pending
              /\ req'[x].res = req[x].res
    BY FlushFields
  <1>3. /\ UNCHANGED <<todo, linked_items, received, inbox, outbox, task, started, workers>>
        /\ queue # <<>> /\ queue' = Tail(queue) /\ flushed' = flushed \o ids
    BY DEF FlushFirst, wvars
  <1> HIDE DEF N
  <1>4. /\ \A x \in Ids : x \in Held(req') <=> x \in Held(req) /\ x \notin N
        /\ \A x \in Ids : x \in Unfinished(req') <=> x \in Unfinished(req)
        /\ \A x \in Ids : x \in Known(req') <=> x \in Known(req)
    BY <1>2 DEF Held, Unfinished, Known
  <1>5. Unfinished(req) \subseteq Ids /\ Unfinished(req') \subseteq Ids /\ Known(req) \subseteq Ids /\ Known(req') \subseteq Ids
    BY DEF Unfinished, Known
  <1>6. /\ flushed' \in Seq(Ids) /\ Len(flushed') = Len(flushed) + Len(ids)
        /\ \A x : In1(flushed', x) <=> In1(flushed, x) \/ x \in N
    BY <1>1, <1>2, <1>3, ConcatInjective
  <1>7. Injective(flushed')
    <2>1. \A x : In1(flushed, x) => ~In1(ids, x)
      BY <1>1, <1>2 DEF ValueInv
    <2>2. Injective(flushed)
      BY <1>1 DEF ValueInv
    <2> QED BY <1>1, <1>2, <1>3, <2>1, <2>2, ConcatInjective
  <1>8. TypeInv'
    <2>1. queue' \in Seq(Ids)
      BY <1>1, <1>3, HeadTailProperties
    <2>2. refcount' \in [Results -> Int]
      <3>1. ASSUME NEW r \in Results PROVE refcount[r] - Cardinality({k \in DOMAIN ids : req[ids[k]].res = r}) \in Int
        <4> DEFINE S == {k \in DOMAIN ids : req[ids[k]].res = r}
        <4>1. DOMAIN ids = 1..Len(ids)
          BY <1>2
        <4>2. IsFiniteSet(DOMAIN ids)
          BY <1>2, <4>1, FS_Interval
        <4>3. S \subseteq DOMAIN ids
          OBVIOUS
        <4> HIDE DEF S
        <4>4. Cardinality(S) \in Nat
          BY <4>2, <4>3, FS_Subset, FS_CardinalityType
        <4>5. refcount[r] \in Int
          BY <1>1 DEF TypeInv
        <4>6. refcount[r] - Cardinality(S) \in Int
          BY <4>4, <4>5
        <4> QED BY <4>6 DEF S
      <3> QED BY <3>1 DEF FlushFirst
    <2>3. queued_num' \in Int
      BY <1>1, <1>2 DEF TypeInv, FlushFirst
    <2>4. delivered' \in 0..Len(flushed')
      <3>1. delivered \in 0..Len(flushed) /\ Len(flushed) \in Nat /\ delivered' = delivered
        BY <1>1, LenProperties DEF TypeInv, FlushFirst
      <3> QED BY <1>2, <1>6, <3>1
    <2>5. priority_tail' \in Ids \cup {None}
      BY <1>1 DEF TypeInv, FlushFirst
    <2> QED BY <1>1, <1>2, <1>6, <2>1, <2>2, <2>3, <2>4, <2>5 DEF TypeInv, FlushFirst, wvars
  <1>9. QueueInv(queue', req')
    <2>1. \A x \in Ids : req'[x].flush = req[x].flush
      BY <1>2
    <2>2. \A x \in Ids : x \in Held(req') <=> x \in Held(req) /\ x \notin FirstNode(queue, FlushQueues(req))
      BY <1>4 DEF FlushedIds, N
    <2>3. \A y \in Unfinished(req') : y \in Unfinished(req) /\ y # Head(queue)
      BY <1>2, <1>4, <1>5
    <2>4. QueueInv(Tail(queue), req')
      BY <1>1, <1>2, <1>3, <2>1, <2>2, <2>3, QueueTail
    <2> QED BY <1>3, <2>4
  <1>10. ChainInv(req', linked_items', todo')
    <2>1. \A x \in Ids : (req'[x].state = "PENDING" <=> req[x].state = "PENDING") /\ req'[x].pending = req[x].pending
      <3>1. \A x \in N : req[x].state # "PENDING"
        BY <1>2 DEF Unfinished
      <3> QED BY <1>2, <3>1
    <2>2. \A x \in Unfinished(req) : x \in Unfinished(req')
      BY <1>4, <1>5
    <2>3. \A x \in Unfinished(req') : x \in Unfinished(req)
      BY <1>4, <1>5
    <2>4. \A x \in CallsIn(todo, "enqueue") : ItemOf(x) \in TopItems => x \in CallsIn(todo, "enqueue")
      OBVIOUS
    <2>5. ChainInv(req', linked_items, todo)
      BY <1>1, <2>1, <2>2, <2>3, <2>4, ChainSame
    <2> QED BY <1>3, <2>5
  <1>11. WorkInv'
    <2>1. \A x \in Ids : req[x].state = "PROCESSING" => req'[x].state = "PROCESSING"
      <3>1. \A x \in N : req[x].state # "PROCESSING"
        BY <1>2 DEF Unfinished
      <3> QED BY <1>2, <3>1
    <2>2. \A x \in Ids : x \in Known(req) /\ x \notin Unfinished(req) /\ x \notin CallsIn(todo, "enqueue")
                         => x \in Known(req') /\ x \notin Unfinished(req') /\ x \notin CallsIn(todo', "enqueue")
      BY <1>3, <1>4
    <2>3. ReleasesIn(todo') \subseteq ReleasesIn(todo)
      BY <1>3
    <2> QED BY <1>1, <1>3, <2>1, <2>2, <2>3, WorkKeep
  <1>12. ValueInv(req', flushed', todo, received)
    <2>1. \A x \in Ids \ Known(req') : req'[x].state = "FREE" /\ req'[x].flush = <<>> /\ req'[x].pending = None
      BY <1>1, <1>2, <1>4 DEF ValueInv
    <2>2. \A x \in CallsIn(todo, "enqueue") : x \in Known(req') /\ x \notin Held(req') /\ ~In1(flushed', x)
      <3>1. \A x \in CallsIn(todo, "enqueue") : x \in Ids /\ x \in Known(req) /\ x \notin Held(req) /\ ~In1(flushed, x)
        BY <1>1 DEF ValueInv, CallsIn
      <3> QED BY <1>2, <1>4, <1>6, <3>1
    <2>3. \A x \in CallsIn(todo, "dependents") : x \in Known(req') /\ x \notin Unfinished(req')
      <3>1. \A x \in CallsIn(todo, "dependents") : x \in Ids /\ x \in Known(req) /\ x \notin Unfinished(req)
        BY <1>1 DEF ValueInv, CallsIn
      <3> QED BY <1>4, <3>1
    <2>4. \A x \in CallsIn(todo, "clear") : In1(flushed', x)
      BY <1>1, <1>6 DEF ValueInv
    <2>5. \A x \in Ids : In1(flushed', x) => x \in Known(req') /\ x \notin Held(req')
      <3>1. \A x \in Ids : In1(flushed, x) => x \in Known(req) /\ x \notin Held(req)
        BY <1>1 DEF ValueInv
      <3>2. \A x \in N : x \in Known(req)
        BY <1>1, <1>2, ValueFacts
      <3> QED BY <1>4, <1>6, <3>1, <3>2
    <2>6. \A x \in Known(req') : x \in Held(req') \/ In1(flushed', x) \/ x \in CallsIn(todo, "enqueue")
      <3>1. \A x \in Known(req) : x \in Held(req) \/ In1(flushed, x) \/ x \in CallsIn(todo, "enqueue")
        BY <1>1 DEF ValueInv
      <3> QED BY <1>4, <1>5, <1>6, <3>1
    <2>7. \A x \in CallsIn(todo, "enqueue") : req'[x].flush = <<>> /\ req'[x].pending = None
      <3>1. \A x \in CallsIn(todo, "enqueue") : x \in Ids /\ req[x].flush = <<>> /\ req[x].pending = None
        BY <1>1 DEF ValueInv, CallsIn
      <3> QED BY <1>2, <3>1
    <2>8. \A x \in Ids : x \notin Known(req') \/ x \in CallsIn(todo, "enqueue") \/ x \in CallsIn(todo, "dependents") \/ x \in Unfinished(req')
              => \A y \in Children(x) : y \notin Known(req')
      <3>1. ASSUME NEW x \in Ids, x \notin Known(req') \/ x \in CallsIn(todo, "enqueue") \/ x \in CallsIn(todo, "dependents") \/ x \in Unfinished(req'),
                   NEW y \in Children(x)
            PROVE  y \notin Known(req')
        <4>1. y \in Ids
          BY ChildFacts
        <4>2. y \notin Known(req)
          BY <1>1, <1>4, <3>1 DEF ValueInv
        <4> QED BY <1>4, <4>1, <4>2
      <3> QED BY <3>1
    <2>9. \A x \in Known(req') : x[1] <= received
      BY <1>1, <1>4, <1>5 DEF ValueInv
    <2> QED BY <1>7, <2>1, <2>2, <2>3, <2>4, <2>5, <2>6, <2>7, <2>8, <2>9 DEF ValueInv
  <1> QED BY <1>1, <1>3, <1>8, <1>9, <1>10, <1>11, <1>12 DEF IInv

(* preprocessing_flush_queue preserves the invariant.                      *)
LEMMA FlushStep ==
  ASSUME IInv, preprocessing_flush_queue
  PROVE  IInv'
  BY FlushCases, FlushNoneStep, FlushFirstStep


EnqueueNow(id) ==
    /\ Calling("enqueue") /\ id = Head(todo).id
    /\ NeedsNoPreprocessing(id) /\ queue = <<>>
    /\ flushed' = Append(flushed, id)
    /\ todo' = <<Dependents(id, None), Clear(id)>> \o Tail(todo)
    /\ UNCHANGED <<queue, req, linked_items, priority_tail, preproc_num>>
    /\ UNCHANGED <<refcount, history_cache, queued_num, direct_queue, workers, task,
                   item_config, config, wvars, tests, received, delivered>>

EnqueueCall(id, done) == (IF done THEN <<Dependents(id, id)>> ELSE <<>>) \o <<Queued>>

EnqueueQueued(id, master, done, r) ==
    /\ Calling("enqueue") /\ id = Head(todo).id /\ master = Head(todo).master
    /\ done = NeedsNoPreprocessing(id) /\ (done => queue # <<>>)
    /\ r = [req EXCEPT ![id].state = IF done THEN "DONE" ELSE "QUEUED",
                       ![id].ver = item_config[ItemOf(id)].ver]
    /\ master # None => Contains(queue, master)
    /\ preproc_num' = preproc_num + IF ~done /\ req[id].supported THEN 1 ELSE 0
    /\ queue' = Inserted(id, master)
    /\ priority_tail' = IF Priority(id, master) \/ (master # None /\ master = priority_tail)
                        THEN id ELSE priority_tail
    /\ req' = Linked(id, r).req
    /\ linked_items' = Linked(id, r).linked_items
    /\ todo' = EnqueueCall(id, done) \o Tail(todo)
    /\ UNCHANGED flushed
    /\ UNCHANGED <<refcount, history_cache, queued_num, direct_queue, workers, task,
                   item_config, config, wvars, tests, received, delivered>>

(* preprocessor_enqueue flushes a value at once or puts it in the queue.   *)
LEMMA EnqueueCases ==
  ASSUME preprocessor_enqueue
  PROVE  (\E id : EnqueueNow(id)) \/ \E id, master, done, r : EnqueueQueued(id, master, done, r)
  <1> DEFINE id == Head(todo).id
             master == Head(todo).master
             done == NeedsNoPreprocessing(id)
             r == [req EXCEPT ![id].state = IF done THEN "DONE" ELSE "QUEUED",
                              ![id].ver = item_config[ItemOf(id)].ver]
  <1>1. CASE done /\ queue = <<>>
    <2>1. EnqueueNow(id)
      BY <1>1 DEF preprocessor_enqueue, EnqueueNow, Call
    <2> QED BY <2>1
  <1>2. CASE ~(done /\ queue = <<>>)
    <2>1. EnqueueQueued(id, master, done, r)
      BY <1>2 DEF preprocessor_enqueue, EnqueueQueued, Call, EnqueueCall
    <2> QED BY <2>1
  <1> QED BY <1>1, <1>2

(* The value whose enqueueing is the first pending call. *)
LEMMA EnqueueFacts ==
  ASSUME IInv, Calling("enqueue"), NEW id, id = Head(todo).id
  PROVE  LET t == Tail(todo)
         IN  /\ id \in Ids /\ Head(todo).master \in Ids \cup {None} /\ Head(todo).op = "enqueue" /\ todo # <<>>
             /\ id \in CallsIn(todo, "enqueue") /\ id \in Known(req) /\ id \notin Held(req) /\ id \notin Unfinished(req)
             /\ ~In1(flushed, id) /\ req[id].state = "FREE" /\ req[id].flush = <<>> /\ req[id].pending = None
             /\ \A y \in Children(id) : y \notin Known(req)
             /\ t \in Seq(CallRecord) /\ CallInv(t)
             /\ \A op, x : x \in CallsIn(t, op) => x \in CallsIn(todo, op)
             /\ \A op, x : x \in CallsIn(todo, op) => x \in CallsIn(t, op) \/ (op = "enqueue" /\ x = id)
             /\ id \notin CallsIn(t, "enqueue") /\ id \notin CallsIn(t, "dependents") /\ id \notin CallsIn(t, "clear")
             /\ ReleasesIn(t) \subseteq ReleasesIn(todo)
             /\ ItemOf(id) \in TopItems => \A x \in CallsIn(t, "enqueue") : ItemOf(x) = ItemOf(id) => id[1] < x[1]
  <1> DEFINE t == Tail(todo)
  <1>1. todo \in Seq(CallRecord) /\ CallInv(todo) /\ Apart(todo) /\ todo # <<>> /\ Head(todo).op = "enqueue"
        /\ ValueInv(req, flushed, todo, received)
    BY DEF IInv, TypeInv, Calling, CallInv
  <1>2. /\ t \in Seq(CallRecord) /\ Head(todo) \in CallRecord
        /\ \A op, x : x \in CallsIn(t, op) => x \in CallsIn(todo, op)
        /\ \A op, x : x \in CallsIn(todo, op) => x \in CallsIn(t, op) \/ (Head(todo).op = op /\ Head(todo).id = x)
        /\ id \in CallsIn(todo, "enqueue") /\ id \notin CallsIn(t, "enqueue") /\ id \notin CallsIn(t, "dependents")
        /\ ReleasesIn(t) \subseteq ReleasesIn(todo)
    BY <1>1, TailCalls
  <1>3. CallInv(t) /\ (ItemOf(id) \in TopItems => \A x \in CallsIn(t, "enqueue") : ItemOf(x) = ItemOf(id) => id[1] < x[1])
    BY <1>1, ReturnCalls
  <1>4. id \in Ids /\ Head(todo).master \in Ids \cup {None}
    BY <1>1, <1>2, CallTypes
  <1>5. id \in Known(req) /\ id \notin Held(req) /\ ~In1(flushed, id) /\ req[id].flush = <<>> /\ req[id].pending = None
    BY <1>1, <1>2 DEF ValueInv
  <1>6. req[id].state = "FREE" /\ id \notin Unfinished(req)
    BY <1>4, <1>5 DEF Held, Unfinished
  <1>7. \A y \in Children(id) : y \notin Known(req)
    BY <1>1, <1>2, <1>4 DEF ValueInv
  <1>8. id \notin CallsIn(t, "clear")
    BY <1>1, <1>2, <1>5 DEF ValueInv
  <1> QED BY <1>1, <1>2, <1>3, <1>4, <1>5, <1>6, <1>7, <1>8

(* The calls of preprocessor_enqueue for a value that is flushed at once.  *)
LEMMA EnqueueNowCalls ==
  ASSUME NEW id \in Ids
  PROVE  LET s == <<Dependents(id, None), Clear(id)>>
         IN  /\ s \in Seq(CallRecord) /\ Apart(s) /\ ReleasesIn(s) = {}
             /\ \A x : x \in CallsIn(s, "dependents") <=> x = id
             /\ \A x : x \in CallsIn(s, "clear") <=> x = id
             /\ \A x : x \notin CallsIn(s, "enqueue")
  <1> DEFINE c == Dependents(id, None)
             d == Clear(id)
  <1>1. c \in CallRecord /\ d \in CallRecord /\ c.op = "dependents" /\ c.id = id /\ d.op = "clear" /\ d.id = id
    BY CallsAreRecords DEF Dependents, Clear
  <1>2. <<Dependents(id, None), Clear(id)>> = <<c>> \o <<d>>
    OBVIOUS
  <1> HIDE DEF c, d
  <1>3. /\ <<c>> \in Seq(CallRecord) /\ Apart(<<c>>)
        /\ \A op, x : x \in CallsIn(<<c>>, op) <=> x \in Ids /\ c.op = op /\ c.id = x
        /\ \A w : w \in ReleasesIn(<<c>>) <=> w \in Workers /\ c.op = "release" /\ c.worker = w
    BY <1>1, SingleCall
  <1>4. /\ <<d>> \in Seq(CallRecord) /\ Apart(<<d>>)
        /\ \A op, x : x \in CallsIn(<<d>>, op) <=> x \in Ids /\ d.op = op /\ d.id = x
        /\ \A w : w \in ReleasesIn(<<d>>) <=> w \in Workers /\ d.op = "release" /\ d.worker = w
    BY <1>1, SingleCall
  <1>5. ReleasesIn(<<c>>) = {} /\ ReleasesIn(<<d>>) = {}
    BY <1>1, <1>3, <1>4
  <1>6. /\ <<c>> \o <<d>> \in Seq(CallRecord)
        /\ \A op, x : x \in CallsIn(<<c>> \o <<d>>, op) <=> x \in CallsIn(<<c>>, op) \/ x \in CallsIn(<<d>>, op)
        /\ \A w : w \in ReleasesIn(<<c>> \o <<d>>) <=> w \in ReleasesIn(<<c>>) \/ w \in ReleasesIn(<<d>>)
    BY <1>3, <1>4, ConcatCalls
  <1>7. Apart(<<c>> \o <<d>>)
    <2>1. \A x : x \in CallsIn(<<c>>, "enqueue") \/ x \in CallsIn(<<c>>, "dependents") =>
                  x \notin CallsIn(<<d>>, "enqueue") /\ x \notin CallsIn(<<d>>, "dependents")
      BY <1>1, <1>4
    <2>2. \A x : x \in CallsIn(<<c>>, "clear") => x \notin CallsIn(<<d>>, "clear")
      BY <1>1, <1>3
    <2> QED BY <1>3, <1>4, <1>5, <2>1, <2>2, ConcatCalls
  <1>8. ReleasesIn(<<c>> \o <<d>>) = {}
    BY <1>5, <1>6
  <1>9. /\ \A x : x \in CallsIn(<<c>> \o <<d>>, "dependents") <=> x = id
        /\ \A x : x \in CallsIn(<<c>> \o <<d>>, "clear") <=> x = id
        /\ \A x : x \notin CallsIn(<<c>> \o <<d>>, "enqueue")
    BY <1>1, <1>3, <1>4, <1>6
  <1> QED BY <1>2, <1>6, <1>7, <1>8, <1>9

(* The calls of preprocessor_enqueue for a value that is put in the queue. *)
LEMMA EnqueueQueuedCalls ==
  ASSUME NEW id \in Ids, NEW done \in BOOLEAN
  PROVE  LET s == EnqueueCall(id, done)
         IN  /\ s \in Seq(CallRecord) /\ Apart(s) /\ ReleasesIn(s) = {}
             /\ \A x : x \in CallsIn(s, "dependents") <=> x = id /\ done
             /\ \A x : x \notin CallsIn(s, "enqueue") /\ x \notin CallsIn(s, "clear")
  <1> DEFINE c == Dependents(id, id)
             q == <<Queued>>
             first == IF done THEN <<c>> ELSE <<>>
  <1>1. c \in CallRecord /\ c.op = "dependents" /\ c.id = id
    BY CallsAreRecords DEF Dependents
  <1>2. Plain(q) /\ Plain(<<>>)
    BY PlainLists
  <1>3. /\ q \in Seq(CallRecord) /\ Apart(q) /\ ReleasesIn(q) = {}
        /\ \A op \in {"enqueue", "dependents", "clear"} : \A x : x \notin CallsIn(q, op)
    BY <1>2, PlainCalls
  <1>4. EnqueueCall(id, done) = first \o q
    BY DEF EnqueueCall
  <1> HIDE DEF c, q
  <1>5. /\ first \in Seq(CallRecord) /\ Apart(first) /\ ReleasesIn(first) = {}
        /\ \A x : x \in CallsIn(first, "dependents") <=> x = id /\ done
        /\ \A x : x \notin CallsIn(first, "enqueue") /\ x \notin CallsIn(first, "clear")
    <2>1. CASE done
      <3>1. first = <<c>>
        BY <2>1
      <3>2. /\ <<c>> \in Seq(CallRecord) /\ Apart(<<c>>)
            /\ \A op, x : x \in CallsIn(<<c>>, op) <=> x \in Ids /\ c.op = op /\ c.id = x
            /\ \A w : w \in ReleasesIn(<<c>>) <=> w \in Workers /\ c.op = "release" /\ c.worker = w
        BY <1>1, SingleCall
      <3> QED BY <1>1, <2>1, <3>1, <3>2
    <2>2. CASE ~done
      <3>1. first = <<>>
        BY <2>2
      <3> QED BY <2>2, <3>1, <1>2, PlainCalls
    <2> QED BY <2>1, <2>2
  <1> HIDE DEF first
  <1>6. /\ first \o q \in Seq(CallRecord)
        /\ \A op, x : x \in CallsIn(first \o q, op) <=> x \in CallsIn(first, op) \/ x \in CallsIn(q, op)
        /\ \A w : w \in ReleasesIn(first \o q) <=> w \in ReleasesIn(first) \/ w \in ReleasesIn(q)
    BY <1>3, <1>5, ConcatCalls
  <1>7. Apart(first \o q)
    BY <1>3, <1>5, ConcatCalls
  <1> QED BY <1>3, <1>4, <1>5, <1>6, <1>7


(* The elements of a list with one more at its end.                        *)
LEMMA AppendIn ==
  ASSUME NEW s \in Seq(Ids), NEW id \in Ids
  PROVE  /\ Append(s, id) \in Seq(Ids) /\ Len(Append(s, id)) = Len(s) + 1
         /\ \A x : In1(Append(s, id), x) <=> In1(s, x) \/ x = id
         /\ Injective(s) /\ ~In1(s, id) => Injective(Append(s, id))
  <1>1. <<id>> \in Seq(Ids) /\ Len(<<id>>) = 1 /\ <<id>>[1] = id /\ Append(s, id) = s \o <<id>>
    OBVIOUS
  <1>2. \A x : In1(<<id>>, x) <=> x = id
    <2>1. \A k \in 1..Len(<<id>>) : k = 1
      BY <1>1
    <2> QED BY <1>1, <2>1 DEF In1
  <1>3. Injective(<<id>>)
    BY <1>1 DEF Injective
  <1>4. /\ s \o <<id>> \in Seq(Ids) /\ Len(s \o <<id>>) = Len(s) + Len(<<id>>)
        /\ \A x : In1(s \o <<id>>, x) <=> In1(s, x) \/ In1(<<id>>, x)
        /\ Injective(s) /\ Injective(<<id>>) /\ (\A x : In1(s, x) => ~In1(<<id>>, x)) => Injective(s \o <<id>>)
    BY <1>1, ConcatInjective
  <1>5. Injective(s) /\ ~In1(s, id) => Injective(s \o <<id>>)
    BY <1>2, <1>3, <1>4
  <1> QED BY <1>1, <1>2, <1>4, <1>5

(* preprocessor_enqueue preserves the invariant for a value that is        *)
(* flushed at once.                                                        *)
LEMMA EnqueueNowStep ==
  ASSUME IInv, NEW id, EnqueueNow(id)
  PROVE  IInv'
  <1> DEFINE t == Tail(todo)
             s == <<Dependents(id, None), Clear(id)>>
  <1>1. /\ TypeInv /\ WorkInv /\ flushed \in Seq(Ids) /\ req \in [Ids -> Request]
        /\ QueueInv(queue, req) /\ ValueInv(req, flushed, todo, received) /\ ChainInv(req, linked_items, todo)
    BY DEF IInv, TypeInv
  <1>2. /\ Calling("enqueue") /\ id = Head(todo).id
        /\ flushed' = Append(flushed, id) /\ todo' = s \o t
        /\ UNCHANGED <<queue, req, linked_items, received, inbox, outbox, task, started, workers, delivered>>
    BY DEF EnqueueNow, wvars
  <1>3. /\ id \in Ids
        /\ id \in CallsIn(todo, "enqueue") /\ id \in Known(req) /\ id \notin Held(req) /\ id \notin Unfinished(req)
        /\ ~In1(flushed, id)
        /\ \A y \in Children(id) : y \notin Known(req)
        /\ t \in Seq(CallRecord) /\ CallInv(t)
        /\ \A op, x : x \in CallsIn(t, op) => x \in CallsIn(todo, op)
        /\ \A op, x : x \in CallsIn(todo, op) => x \in CallsIn(t, op) \/ (op = "enqueue" /\ x = id)
        /\ id \notin CallsIn(t, "enqueue") /\ id \notin CallsIn(t, "dependents") /\ id \notin CallsIn(t, "clear")
        /\ ReleasesIn(t) \subseteq ReleasesIn(todo)
    BY <1>2, EnqueueFacts
  <1>4. /\ s \in Seq(CallRecord) /\ Apart(s) /\ ReleasesIn(s) = {}
        /\ \A x : x \in CallsIn(s, "dependents") <=> x = id
        /\ \A x : x \in CallsIn(s, "clear") <=> x = id
        /\ \A x : x \notin CallsIn(s, "enqueue")
    BY <1>3, EnqueueNowCalls
  <1> HIDE DEF s, t
  <1>5. /\ s \o t \in Seq(CallRecord)
        /\ \A op, x : x \in CallsIn(s \o t, op) <=> x \in CallsIn(s, op) \/ x \in CallsIn(t, op)
        /\ \A w : w \in ReleasesIn(s \o t) <=> w \in ReleasesIn(s) \/ w \in ReleasesIn(t)
    BY <1>3, <1>4, ConcatCalls
  <1>6. CallInv(s \o t)
    <2>1. \A x \in CallsIn(s, "enqueue") : ItemOf(x) \notin TopItems
      BY <1>4
    <2>2. \A x : x \in CallsIn(s, "enqueue") \/ x \in CallsIn(s, "dependents") =>
                  x \notin CallsIn(t, "enqueue") /\ x \notin CallsIn(t, "dependents")
      BY <1>3, <1>4
    <2>3. \A x : x \in CallsIn(s, "clear") => x \notin CallsIn(t, "clear")
      BY <1>3, <1>4
    <2> QED BY <1>3, <1>4, <2>1, <2>2, <2>3, CallCalls
  <1>7. /\ todo' \in Seq(CallRecord) /\ CallInv(todo')
        /\ \A x : x \in CallsIn(todo', "enqueue") <=> x \in CallsIn(todo, "enqueue") /\ x # id
        /\ \A x : x \in CallsIn(todo', "dependents") <=> x \in CallsIn(todo, "dependents") \/ x = id
        /\ \A x : x \in CallsIn(todo', "clear") <=> x \in CallsIn(todo, "clear") \/ x = id
        /\ ReleasesIn(todo') \subseteq ReleasesIn(todo)
    BY <1>2, <1>3, <1>4, <1>5, <1>6
  <1>8. /\ flushed' \in Seq(Ids) /\ Len(flushed') = Len(flushed) + 1
        /\ \A x : In1(flushed', x) <=> In1(flushed, x) \/ x = id
    BY <1>1, <1>2, <1>3, AppendIn
  <1>9. Injective(flushed')
    <2>1. Injective(flushed)
      BY <1>1 DEF ValueInv
    <2> QED BY <1>1, <1>2, <1>3, <2>1, AppendIn
  <1>10. TypeInv'
    <2>1. delivered' \in 0..Len(flushed')
      <3>1. delivered \in 0..Len(flushed) /\ Len(flushed) \in Nat
        BY <1>1, LenProperties DEF TypeInv
      <3> QED BY <1>2, <1>8, <3>1
    <2> QED BY <1>1, <1>7, <1>8, <2>1 DEF TypeInv, EnqueueNow, wvars
  <1>11. QueueInv(queue', req')
    BY <1>1, <1>2
  <1>12. ChainInv(req', linked_items', todo')
    <2>1. \A x \in CallsIn(todo', "enqueue") : x \in CallsIn(todo, "enqueue")
      BY <1>7
    <2>2. ChainInv(req, linked_items, todo')
      BY <1>1, <2>1, ChainSame
    <2> QED BY <1>2, <2>2
  <1>13. WorkInv'
    <2>1. \A x \in Ids : req[x].state = "PROCESSING" => req'[x].state = "PROCESSING"
      BY <1>2
    <2>2. \A x \in Ids : x \in Known(req) /\ x \notin Unfinished(req) /\ x \notin CallsIn(todo, "enqueue")
                         => x \in Known(req') /\ x \notin Unfinished(req') /\ x \notin CallsIn(todo', "enqueue")
      BY <1>2, <1>7
    <2> QED BY <1>1, <1>2, <1>7, <2>1, <2>2, WorkKeep
  <1>14. ValueInv(req, flushed', todo', received)
    <2>1. \A x \in Ids \ Known(req) : req[x].state = "FREE" /\ req[x].flush = <<>> /\ req[x].pending = None
      BY <1>1 DEF ValueInv
    <2>2. \A x \in CallsIn(todo', "enqueue") : x \in Known(req) /\ x \notin Held(req) /\ ~In1(flushed', x)
      BY <1>1, <1>7, <1>8 DEF ValueInv
    <2>3. \A x \in CallsIn(todo', "dependents") : x \in Known(req) /\ x \notin Unfinished(req)
      BY <1>1, <1>3, <1>7 DEF ValueInv
    <2>4. \A x \in CallsIn(todo', "clear") : In1(flushed', x)
      BY <1>1, <1>7, <1>8 DEF ValueInv
    <2>5. \A x \in Ids : In1(flushed', x) => x \in Known(req) /\ x \notin Held(req)
      BY <1>1, <1>3, <1>8 DEF ValueInv
    <2>6. \A x \in Known(req) : x \in Held(req) \/ In1(flushed', x) \/ x \in CallsIn(todo', "enqueue")
      BY <1>1, <1>7, <1>8 DEF ValueInv
    <2>7. \A x \in CallsIn(todo', "enqueue") : req[x].flush = <<>> /\ req[x].pending = None
      BY <1>1, <1>7 DEF ValueInv
    <2>8. \A x \in Ids : x \notin Known(req) \/ x \in CallsIn(todo', "enqueue") \/ x \in CallsIn(todo', "dependents") \/ x \in Unfinished(req)
              => \A y \in Children(x) : y \notin Known(req)
      BY <1>1, <1>3, <1>7 DEF ValueInv
    <2>9. \A x \in Known(req) : x[1] <= received
      BY <1>1 DEF ValueInv
    <2> QED BY <1>9, <2>1, <2>2, <2>3, <2>4, <2>5, <2>6, <2>7, <2>8, <2>9 DEF ValueInv
  <1> QED BY <1>2, <1>7, <1>10, <1>11, <1>12, <1>13, <1>14 DEF IInv


Joins(id, done) == ~done /\ Steps[ItemOf(id)] = "linked"

(* preprocessor_enqueue and preprocessor_link_items: the state of a value  *)
(* put in the queue, and the last request of its item, which it waits for. *)
LEMMA QueuedFields ==
  ASSUME IInv, NEW id, NEW master, NEW done, NEW r, EnqueueQueued(id, master, done, r)
  PROVE  LET last == linked_items[ItemOf(id)]
         IN  /\ req' \in [Ids -> Request] /\ linked_items' \in [Items -> Ids \cup {None}]
             /\ \A x \in Ids :
                  /\ req'[x].state = IF x = id
                                     THEN (IF done THEN "DONE"
                                           ELSE IF Joins(id, done) /\ last # None THEN "PENDING" ELSE "QUEUED")
                                     ELSE req[x].state
                  /\ req'[x].pending = IF Joins(id, done) /\ x = last THEN id ELSE req[x].pending
                  /\ req'[x].flush = req[x].flush /\ req'[x].res = req[x].res
                  /\ req'[x].supported = req[x].supported /\ req'[x].isset = req[x].isset
             /\ \A i \in Items : linked_items'[i] = IF Joins(id, done) /\ i = ItemOf(id) THEN id ELSE linked_items[i]
  <1> DEFINE i0 == ItemOf(id)
             last == linked_items[i0]
             st == IF done THEN "DONE" ELSE "QUEUED"
             ver == item_config[i0].ver
  <1>1. req \in [Ids -> Request] /\ linked_items \in [Items -> Ids \cup {None}] /\ ChainInv(req, linked_items, todo)
        /\ item_config \in [Items -> Config]
    BY DEF IInv, TypeInv
  <1>2. id \in Ids /\ id \notin Unfinished(req) /\ i0 \in Items /\ id # None
    BY EnqueueFacts, IdTypes DEF EnqueueQueued
  <1>3. ver \in 0..MaxConfigChanges /\ st \in {"DONE", "QUEUED"}
    BY <1>1, <1>2 DEF Config
  <1>4. last \in Ids \cup {None} /\ (last # None => last \in Ids /\ last # id /\ req[last].state # "DONE")
    <2>1. last # None => last \in Unfinished(req)
      BY <1>1, <1>2, LinkFacts
    <2> QED BY <1>1, <1>2, <2>1 DEF Unfinished
  <1>5. \A x \in Ids : r[x] = IF x = id THEN [req[x] EXCEPT !.state = st, !.ver = ver] ELSE req[x]
    BY <1>1 DEF EnqueueQueued
  <1>6. r = [x \in Ids |-> r[x]]
    BY <1>1 DEF EnqueueQueued
  <1> HIDE DEF st, ver
  <1>7. ASSUME NEW x \in Ids
        PROVE  /\ r[x] \in Request
               /\ r[x].state = IF x = id THEN st ELSE req[x].state
               /\ r[x].pending = req[x].pending /\ r[x].flush = req[x].flush /\ r[x].res = req[x].res
               /\ r[x].supported = req[x].supported /\ r[x].isset = req[x].isset
    <2>1. req[x] \in Request
      BY <1>1
    <2>2. CASE x = id
      <3>1. r[x] = [req[x] EXCEPT !.state = st, !.ver = ver]
        BY <1>5, <2>2
      <3> QED BY ONLY <1>3, <2>1, <2>2, <3>1 DEF Request
    <2>3. CASE x # id
      <3>1. r[x] = req[x]
        BY <1>5, <2>3
      <3> QED BY ONLY <2>1, <2>3, <3>1
    <2> QED BY <2>2, <2>3
  <1>8. r \in [Ids -> Request]
    BY ONLY <1>6, <1>7
  <1>9. r[id].state = st /\ (st = "QUEUED" <=> ~done)
    BY <1>2, <1>7 DEF st
  <1>q. req' = Linked(id, r).req /\ linked_items' = Linked(id, r).linked_items
    BY Zenon DEF EnqueueQueued
  <1>10. CASE ~Joins(id, done)
    <2>1. Linked(id, r) = [req |-> r, linked_items |-> linked_items]
      BY <1>9, <1>10 DEF Linked, Joins
    <2>2. req' = r /\ linked_items' = linked_items
      BY ONLY <1>q, <2>1
    <2> QED BY <1>1, <1>7, <1>8, <1>10, <2>2 DEF st
  <1>11. CASE Joins(id, done)
    <2>1. st = "QUEUED" /\ ~done /\ Steps[i0] = "linked"
      BY <1>11 DEF Joins, st
    <2> DEFINE wait == last # None /\ r[last].state # "DONE"
               u == IF wait THEN [r EXCEPT ![last].pending = id, ![id].state = "PENDING"] ELSE r
               l == [linked_items EXCEPT ![i0] = id]
    <2>2. Linked(id, r) = [req |-> u, linked_items |-> l]
      BY <1>9, <2>1 DEF Linked
    <2>3. req' = u /\ linked_items' = l
      BY ONLY <1>q, <2>2
    <2>4. wait <=> last # None
      BY <1>4, <1>7
    <2>5. \A x \in Ids : u[x] = IF wait /\ x = id THEN [r[x] EXCEPT !.state = "PENDING"]
                                ELSE IF wait /\ x = last THEN [r[x] EXCEPT !.pending = id] ELSE r[x]
      <3>1. CASE ~wait
        BY <3>1
      <3>2. CASE wait
        <4>1. last \in Ids /\ last # id
          BY <1>4, <3>2
        <4>2. u = [r EXCEPT ![last].pending = id, ![id].state = "PENDING"]
          BY <3>2
        <4> HIDE DEF u, wait, last
        <4>3. ASSUME NEW x \in Ids
              PROVE  u[x] = IF x = id THEN [r[x] EXCEPT !.state = "PENDING"]
                            ELSE IF x = last THEN [r[x] EXCEPT !.pending = id] ELSE r[x]
          BY ONLY <1>2, <1>8, <4>1, <4>2, x \in Ids
        <4> QED BY <3>2, <4>3
      <3> QED BY <3>1, <3>2
    <2>6. u = [x \in Ids |-> u[x]]
      BY <1>8
    <2> HIDE DEF u, wait, l, last
    <2>7. ASSUME NEW x \in Ids
          PROVE  /\ u[x] \in Request
                 /\ u[x].state = IF wait /\ x = id THEN "PENDING" ELSE r[x].state
                 /\ u[x].pending = IF wait /\ x # id /\ x = last THEN id ELSE r[x].pending
                 /\ u[x].flush = r[x].flush /\ u[x].res = r[x].res
                 /\ u[x].supported = r[x].supported /\ u[x].isset = r[x].isset
      <3>1. r[x] \in Request
        BY <1>7
      <3>2. CASE wait /\ x = id
        <4>1. u[x] = [r[x] EXCEPT !.state = "PENDING"]
          BY <2>5, <3>2
        <4> QED BY ONLY <3>1, <3>2, <4>1 DEF Request
      <3>3. CASE wait /\ x # id /\ x = last
        <4>1. u[x] = [r[x] EXCEPT !.pending = id]
          BY <2>5, <3>3
        <4> QED BY ONLY <1>2, <3>1, <3>3, <4>1 DEF Request
      <3>4. CASE ~(wait /\ x = id) /\ ~(wait /\ x # id /\ x = last)
        <4>1. u[x] = r[x]
          BY <2>5, <3>4
        <4> QED BY ONLY <3>1, <3>4, <4>1
      <3> QED BY <3>2, <3>3, <3>4
    <2>8. u \in [Ids -> Request]
      BY ONLY <2>6, <2>7
    <2>9. l \in [Items -> Ids \cup {None}] /\ \A i \in Items : l[i] = IF i = i0 THEN id ELSE linked_items[i]
      BY <1>1, <1>2 DEF l
    <2>10. ASSUME NEW x \in Ids
           PROVE  /\ u[x].state = IF x = id THEN (IF last # None THEN "PENDING" ELSE "QUEUED") ELSE req[x].state
                  /\ u[x].pending = IF x = last THEN id ELSE req[x].pending
                  /\ u[x].flush = req[x].flush /\ u[x].res = req[x].res
                  /\ u[x].supported = req[x].supported /\ u[x].isset = req[x].isset
      <3>1. x # None
        BY IdTypes
      <3>2. /\ u[x].state = IF wait /\ x = id THEN "PENDING" ELSE r[x].state
            /\ u[x].pending = IF wait /\ x # id /\ x = last THEN id ELSE r[x].pending
            /\ u[x].flush = r[x].flush /\ u[x].res = r[x].res
            /\ u[x].supported = r[x].supported /\ u[x].isset = r[x].isset
        BY <2>7
      <3>3. /\ r[x].state = IF x = id THEN st ELSE req[x].state
            /\ r[x].pending = req[x].pending /\ r[x].flush = req[x].flush /\ r[x].res = req[x].res
            /\ r[x].supported = req[x].supported /\ r[x].isset = req[x].isset
        BY <1>7
      <3>4. wait <=> last # None
        BY <2>4
      <3>5. last # None => last # id
        BY <1>4 DEF last
      <3> QED BY ONLY <2>1, <3>1, <3>2, <3>3, <3>4, <3>5
    <2> QED BY <1>11, <2>1, <2>3, <2>8, <2>9, <2>10 DEF last
  <1> QED BY <1>10, <1>11


(* preprocessor_enqueue preserves the invariant for a value that is put in *)
(* the queue.                                                              *)
LEMMA EnqueueQueuedStep ==
  ASSUME IInv, NEW id, NEW master, NEW done, NEW r, EnqueueQueued(id, master, done, r)
  PROVE  IInv'
  <1> DEFINE t == Tail(todo)
             s == EnqueueCall(id, done)
             last == linked_items[ItemOf(id)]
  <1>1. /\ TypeInv /\ WorkInv /\ queue \in Seq(Ids) /\ req \in [Ids -> Request]
        /\ QueueInv(queue, req) /\ ValueInv(req, flushed, todo, received) /\ ChainInv(req, linked_items, todo)
    BY DEF IInv, TypeInv
  <1>2. /\ Calling("enqueue") /\ id = Head(todo).id /\ todo' = s \o t /\ queue' = Inserted(id, master)
        /\ UNCHANGED <<flushed, received, inbox, outbox, task, started, workers, delivered>>
    BY DEF EnqueueQueued, wvars
  <1>3. /\ id \in Ids
        /\ id \in CallsIn(todo, "enqueue") /\ id \in Known(req) /\ id \notin Held(req) /\ id \notin Unfinished(req)
        /\ ~In1(flushed, id) /\ req[id].state = "FREE" /\ req[id].flush = <<>> /\ req[id].pending = None
        /\ \A y \in Children(id) : y \notin Known(req)
        /\ t \in Seq(CallRecord) /\ CallInv(t)
        /\ \A op, x : x \in CallsIn(t, op) => x \in CallsIn(todo, op)
        /\ \A op, x : x \in CallsIn(todo, op) => x \in CallsIn(t, op) \/ (op = "enqueue" /\ x = id)
        /\ id \notin CallsIn(t, "enqueue") /\ id \notin CallsIn(t, "dependents") /\ id \notin CallsIn(t, "clear")
        /\ ReleasesIn(t) \subseteq ReleasesIn(todo)
        /\ ItemOf(id) \in TopItems => \A x \in CallsIn(t, "enqueue") : ItemOf(x) = ItemOf(id) => id[1] < x[1]
    BY <1>2, EnqueueFacts
  <1>4. done \in BOOLEAN
    BY DEF EnqueueQueued, NeedsNoPreprocessing
  <1>5. /\ s \in Seq(CallRecord) /\ Apart(s) /\ ReleasesIn(s) = {}
        /\ \A x : x \in CallsIn(s, "dependents") <=> x = id /\ done
        /\ \A x : x \notin CallsIn(s, "enqueue") /\ x \notin CallsIn(s, "clear")
    BY <1>3, <1>4, EnqueueQueuedCalls
  <1> HIDE DEF s, t
  <1>6. /\ s \o t \in Seq(CallRecord)
        /\ \A op, x : x \in CallsIn(s \o t, op) <=> x \in CallsIn(s, op) \/ x \in CallsIn(t, op)
        /\ \A w : w \in ReleasesIn(s \o t) <=> w \in ReleasesIn(s) \/ w \in ReleasesIn(t)
    BY <1>3, <1>5, ConcatCalls
  <1>7. CallInv(s \o t)
    <2>1. \A x \in CallsIn(s, "enqueue") : ItemOf(x) \notin TopItems
      BY <1>5
    <2>2. \A x : x \in CallsIn(s, "enqueue") \/ x \in CallsIn(s, "dependents") =>
                  x \notin CallsIn(t, "enqueue") /\ x \notin CallsIn(t, "dependents")
      BY <1>3, <1>5
    <2>3. \A x : x \in CallsIn(s, "clear") => x \notin CallsIn(t, "clear")
      BY <1>5
    <2> QED BY <1>3, <1>5, <2>1, <2>2, <2>3, CallCalls
  <1>8. /\ todo' \in Seq(CallRecord) /\ CallInv(todo')
        /\ \A x : x \in CallsIn(todo', "enqueue") <=> x \in CallsIn(todo, "enqueue") /\ x # id
        /\ \A x : x \in CallsIn(todo', "enqueue") <=> x \in CallsIn(t, "enqueue")
        /\ \A x : x \in CallsIn(todo', "dependents") <=> x \in CallsIn(todo, "dependents") \/ (x = id /\ done)
        /\ \A x : x \in CallsIn(todo', "clear") <=> x \in CallsIn(todo, "clear")
        /\ ReleasesIn(todo') \subseteq ReleasesIn(todo)
    BY <1>2, <1>3, <1>5, <1>6, <1>7
  <1>9. /\ req' \in [Ids -> Request] /\ linked_items' \in [Items -> Ids \cup {None}]
        /\ \A x \in Ids :
             /\ req'[x].state = IF x = id
                                THEN (IF done THEN "DONE"
                                      ELSE IF Joins(id, done) /\ last # None THEN "PENDING" ELSE "QUEUED")
                                ELSE req[x].state
             /\ req'[x].pending = IF Joins(id, done) /\ x = last THEN id ELSE req[x].pending
             /\ req'[x].flush = req[x].flush /\ req'[x].res = req[x].res
        /\ \A i \in Items : linked_items'[i] = IF Joins(id, done) /\ i = ItemOf(id) THEN id ELSE linked_items[i]
    BY QueuedFields
  <1>10. ItemOf(id) \in Items /\ (last # None => last \in Unfinished(req))
    BY <1>1, <1>3, LinkFacts, IdTypes
  <1> HIDE DEF last
  <1>11. /\ \A x \in Ids : x \in Held(req') <=> x \in Held(req) \/ x = id
         /\ \A x \in Ids : x \in Unfinished(req') <=> x \in Unfinished(req) \/ (x = id /\ ~done)
         /\ \A x \in Ids : x \in Known(req') <=> x \in Known(req)
    BY <1>3, <1>4, <1>9 DEF Held, Unfinished, Known
  <1>12. Unfinished(req) \subseteq Ids /\ Unfinished(req') \subseteq Ids /\ Known(req) \subseteq Ids /\ Known(req') \subseteq Ids
    BY DEF Unfinished, Known
  <1>13. queue' \in Seq(Ids) /\ QueueInv(queue', req')
    <2>1. PICK n \in 1..(Len(queue) + 1) : queue' = InsertAt(queue, n, id)
      BY <1>1, <1>2, <1>3, InsertedPosition
    <2>2. \A y \in Ids : req'[y].flush = req[y].flush
      BY <1>9
    <2>3. \A y \in Unfinished(req') : y \in Unfinished(req) \/ y = id
      BY <1>11, <1>12
    <2>a. \A y \in Ids : y \in Held(req') <=> y \in Held(req) \/ y = id
      BY <1>11
    <2>b. id \notin Held(req) /\ req[id].flush = <<>> /\ id \in Ids
      BY <1>3
    <2>c. req' \in [Ids -> Request]
      BY <1>9
    <2>4. QueueInv(InsertAt(queue, n, id), req') /\ InsertAt(queue, n, id) \in Seq(Ids)
      <3>1. QueueGrows(queue, req, req', id)
        BY <1>1, <2>a, <2>b, <2>c, <2>2, <2>3 DEF QueueGrows
      <3> QED BY <2>1, <3>1, QueueInsert
    <2> QED BY <2>1, <2>4
  <1>14. TypeInv'
    <2>1. preproc_num' \in Int
      BY <1>1 DEF TypeInv, EnqueueQueued
    <2>2. priority_tail' \in Ids \cup {None}
      BY <1>1, <1>3 DEF TypeInv, EnqueueQueued
    <2> QED BY <1>1, <1>2, <1>8, <1>9, <1>13, <2>1, <2>2 DEF TypeInv, EnqueueQueued, wvars
  <1>15. ChainInv(req', linked_items', todo')
    <2>1. CASE Joins(id, done)
      <3>1. Steps[ItemOf(id)] = "linked" /\ ~done
        BY <2>1 DEF Joins
      <3>2. \A y \in Ids : /\ req'[y].state = IF y = id THEN (IF linked_items[ItemOf(id)] # None THEN "PENDING" ELSE "QUEUED") ELSE req[y].state
                           /\ req'[y].pending = IF y = linked_items[ItemOf(id)] THEN id ELSE req[y].pending
        BY <1>9, <2>1, <3>1 DEF last
      <3>3. \A i \in Items : linked_items'[i] = IF i = ItemOf(id) THEN id ELSE linked_items[i]
        BY <1>9, <2>1
      <3>4. \A y \in CallsIn(todo', "enqueue") : ItemOf(y) \in TopItems =>
                y \in CallsIn(todo, "enqueue") /\ (ItemOf(y) = ItemOf(id) => id[1] < y[1])
        BY <1>3, <1>8
      <3> QED BY <1>1, <1>3, <3>1, <3>2, <3>3, <3>4, ChainAdd
    <2>2. CASE ~Joins(id, done)
      <3>1. linked_items' = linked_items
        <4>1. linked_items' = [i \in Items |-> linked_items'[i]] /\ linked_items = [i \in Items |-> linked_items[i]]
          BY <1>1, <1>9 DEF TypeInv
        <4>2. \A i \in Items : linked_items'[i] = linked_items[i]
          BY <1>9, <2>2
        <4> QED BY <4>1, <4>2
      <3>2. \A x \in Ids : (req'[x].state = "PENDING" <=> req[x].state = "PENDING") /\ req'[x].pending = req[x].pending
        BY <1>3, <1>9, <2>2
      <3>3. \A x \in Unfinished(req) : x \in Unfinished(req')
        BY <1>11, <1>12
      <3>4. \A x \in Unfinished(req') : x \in Unfinished(req) \/
            (Steps[ItemOf(x)] # "linked" /\ req'[x].state # "PENDING" /\ req'[x].pending = None)
        <4>1. ASSUME NEW x \in Unfinished(req'), x \notin Unfinished(req)
              PROVE  Steps[ItemOf(x)] # "linked" /\ req'[x].state # "PENDING" /\ req'[x].pending = None
          <5>1. x = id /\ ~done
            BY <1>11, <1>12, <4>1
          <5>2. Steps[ItemOf(x)] # "linked"
            BY <2>2, <5>1 DEF Joins
          <5> QED BY <1>3, <1>9, <2>2, <5>1, <5>2
        <4> QED BY <4>1
      <3>5. \A x \in CallsIn(todo', "enqueue") : x \in CallsIn(todo, "enqueue")
        BY <1>8
      <3>6. ChainInv(req', linked_items, todo')
        BY <1>1, <3>2, <3>3, <3>4, <3>5, ChainSame
      <3> QED BY <3>1, <3>6
    <2> QED BY <2>1, <2>2
  <1>16. WorkInv'
    <2>1. \A x \in Ids : req[x].state = "PROCESSING" => req'[x].state = "PROCESSING"
      BY <1>3, <1>9
    <2>2. \A x \in Ids : x \in Known(req) /\ x \notin Unfinished(req) /\ x \notin CallsIn(todo, "enqueue")
                         => x \in Known(req') /\ x \notin Unfinished(req') /\ x \notin CallsIn(todo', "enqueue")
      BY <1>3, <1>8, <1>11
    <2> QED BY <1>1, <1>2, <1>8, <2>1, <2>2, WorkKeep
  <1>17. ValueInv(req', flushed, todo', received)
    <2>0. last # None => last \in Held(req) /\ last \in Known(req) /\ last \notin CallsIn(todo, "enqueue")
      BY <1>1, <1>10, ValueFacts
    <2>1. \A x \in Ids \ Known(req') : req'[x].state = "FREE" /\ req'[x].flush = <<>> /\ req'[x].pending = None
      <3>1. ASSUME NEW x \in Ids \ Known(req') PROVE req'[x].state = "FREE" /\ req'[x].flush = <<>> /\ req'[x].pending = None
        <4>1. x \in Ids /\ x \notin Known(req) /\ x # None
          BY <1>11, IdTypes
        <4>2. req[x].state = "FREE" /\ req[x].flush = <<>> /\ req[x].pending = None
          BY <1>1, <4>1 DEF ValueInv
        <4>3. x # id /\ x # last
          BY <1>3, <2>0, <4>1
        <4> QED BY <1>9, <4>1, <4>2, <4>3
      <3> QED BY <3>1
    <2>2. \A x \in CallsIn(todo', "enqueue") : x \in Known(req') /\ x \notin Held(req') /\ ~In1(flushed, x)
      <3>1. \A x \in CallsIn(todo', "enqueue") : x \in Ids /\ x # id /\ x \in Known(req) /\ x \notin Held(req) /\ ~In1(flushed, x)
        BY <1>1, <1>8 DEF ValueInv, CallsIn
      <3> QED BY <1>11, <3>1
    <2>3. \A x \in CallsIn(todo', "dependents") : x \in Known(req') /\ x \notin Unfinished(req')
      <3>1. ASSUME NEW x \in CallsIn(todo', "dependents") PROVE x \in Known(req') /\ x \notin Unfinished(req')
        <4>1. CASE x = id /\ done
          BY <1>3, <1>11, <4>1
        <4>2. CASE x \in CallsIn(todo, "dependents")
          <5>1. x \in Ids /\ x \in Known(req) /\ x \notin Unfinished(req)
            BY <1>1, <4>2 DEF ValueInv, CallsIn
          <5>2. x # id
            BY <1>1, <1>3, <4>2 DEF CallInv, IInv
          <5> QED BY <1>11, <5>1, <5>2
        <4> QED BY <1>8, <3>1, <4>1, <4>2
      <3> QED BY <3>1
    <2>4. \A x \in CallsIn(todo', "clear") : In1(flushed, x)
      BY <1>1, <1>8 DEF ValueInv
    <2>5. \A x \in Ids : In1(flushed, x) => x \in Known(req') /\ x \notin Held(req')
      BY <1>1, <1>3, <1>11 DEF ValueInv
    <2>6. \A x \in Known(req') : x \in Held(req') \/ In1(flushed, x) \/ x \in CallsIn(todo', "enqueue")
      <3>1. \A x \in Known(req) : x \in Held(req) \/ In1(flushed, x) \/ x \in CallsIn(todo, "enqueue")
        BY <1>1 DEF ValueInv
      <3> QED BY <1>8, <1>11, <1>12, <3>1
    <2>7. \A x \in CallsIn(todo', "enqueue") : req'[x].flush = <<>> /\ req'[x].pending = None
      <3>1. \A x \in CallsIn(todo', "enqueue") : x \in Ids /\ x \in CallsIn(todo, "enqueue") /\ req[x].flush = <<>> /\ req[x].pending = None
        BY <1>1, <1>8 DEF ValueInv, CallsIn
      <3>2. \A x \in CallsIn(todo', "enqueue") : x # last
        BY <2>0, <3>1, IdTypes
      <3> QED BY <1>9, <3>1, <3>2
    <2>8. \A x \in Ids : x \notin Known(req') \/ x \in CallsIn(todo', "enqueue") \/ x \in CallsIn(todo', "dependents") \/ x \in Unfinished(req')
              => \A y \in Children(x) : y \notin Known(req')
      <3>1. ASSUME NEW x \in Ids, x \notin Known(req') \/ x \in CallsIn(todo', "enqueue") \/ x \in CallsIn(todo', "dependents") \/ x \in Unfinished(req'),
                   NEW y \in Children(x)
            PROVE  y \notin Known(req')
        <4>1. y \in Ids
          BY ChildFacts
        <4>2. y \notin Known(req)
          <5>1. CASE x = id
            BY <1>3, <3>1, <5>1
          <5>2. CASE x # id
            <6>1. x \notin Known(req) \/ x \in CallsIn(todo, "enqueue") \/ x \in CallsIn(todo, "dependents") \/ x \in Unfinished(req)
              BY <1>8, <1>11, <3>1, <5>2
            <6> QED BY <1>1, <3>1, <6>1 DEF ValueInv
          <5> QED BY <5>1, <5>2
        <4> QED BY <1>11, <4>1, <4>2
      <3> QED BY <3>1
    <2>9. \A x \in Known(req') : x[1] <= received
      BY <1>1, <1>11, <1>12 DEF ValueInv
    <2>10. Injective(flushed)
      BY <1>1 DEF ValueInv
    <2> QED BY <2>1, <2>2, <2>3, <2>4, <2>5, <2>6, <2>7, <2>8, <2>9, <2>10 DEF ValueInv
  <1> QED BY <1>2, <1>8, <1>13, <1>14, <1>15, <1>16, <1>17 DEF IInv

(* preprocessor_enqueue preserves the invariant.                           *)
LEMMA EnqueueStep ==
  ASSUME IInv, preprocessor_enqueue
  PROVE  IInv'
  BY EnqueueCases, EnqueueNowStep, EnqueueQueuedStep


(* The values of a batch. *)
BatchIds(batch) == {<<received + k, batch[k].item>> : k \in DOMAIN batch}

(* The values of a message are new and in the order of collection.         *)
LEMMA BatchProperties ==
  ASSUME TypeInv, NEW batch \in Batches, received + Len(batch) <= MaxReceived
  PROVE  /\ Len(batch) \in Nat /\ DOMAIN batch = 1..Len(batch)
         /\ \A k \in 1..Len(batch) : batch[k].item \in TopItems /\ batch[k].item \in Items /\ batch[k].kind \in Kinds
         /\ \A k \in 1..Len(batch) : <<received + k, batch[k].item>> \in Ids
         /\ \A x \in BatchIds(batch) : /\ x \in Ids /\ x[1] > received /\ x[1] <= received + Len(batch)
                                       /\ ItemOf(x) \in TopItems
         /\ received \in Nat /\ MaxReceived \in Nat
  <1>1. received \in Nat /\ MaxReceived \in Nat /\ TopItems \subseteq Items
    BY PreprocAssumption DEF TypeInv
  <1>2. PICK n \in 1..MaxBatch : batch \in [1..n -> [item : TopItems, kind : Kinds]]
    BY DEF Batches
  <1>3. n \in Nat
    OBVIOUS
  <1>4. Len(batch) = n /\ DOMAIN batch = 1..n
    BY <1>2, <1>3
  <1>5. \A k \in 1..n : batch[k].item \in TopItems /\ batch[k].item \in Items /\ batch[k].kind \in Kinds
    BY <1>1, <1>2
  <1>6. ASSUME NEW k \in 1..n PROVE <<received + k, batch[k].item>> \in Ids
    <2>1. received + k \in 1..MaxReceived
      BY <1>1, <1>3, <1>4
    <2> QED BY <1>5, <2>1 DEF Ids
  <1>7. ASSUME NEW x \in BatchIds(batch)
        PROVE  x \in Ids /\ x[1] > received /\ x[1] <= received + Len(batch) /\ ItemOf(x) \in TopItems
    <2>1. PICK k \in 1..n : x = <<received + k, batch[k].item>>
      BY <1>4 DEF BatchIds
    <2>2. x[1] = received + k /\ ItemOf(x) = batch[k].item
      BY <2>1 DEF ItemOf
    <2> QED BY <1>1, <1>3, <1>4, <1>5, <1>6, <2>1, <2>2
  <1> QED BY <1>1, <1>3, <1>4, <1>5, <1>6, <1>7

(* preprocessor_add_request changes the received values only.              *)
LEMMA BatchFields ==
  ASSUME TypeInv, NEW batch \in Batches, preprocessor_add_request(batch)
  PROVE  /\ received + Len(batch) <= MaxReceived
         /\ req' \in [Ids -> Request]
         /\ \A x \in Ids : /\ req'[x].state = req[x].state /\ req'[x].flush = req[x].flush /\ req'[x].pending = req[x].pending
                           /\ req'[x].ver = req[x].ver
                           /\ req'[x].res = IF x \in BatchIds(batch) THEN <<x, "collected">> ELSE req[x].res
                           /\ x \notin BatchIds(batch) => req'[x].supported = req[x].supported
  <1> DEFINE D == BatchIds(batch)
             kind(x) == batch[x[1] - received].kind
  <1>0. /\ received + Len(batch) <= MaxReceived
        /\ req' = [x \in Ids |->
              IF x \notin D THEN req[x]
              ELSE [req[x] EXCEPT !.supported = kind(x) # "notsupported",
                                  !.isset = kind(x) = "value",
                                  !.res = <<x, "collected">>]]
    BY DEF preprocessor_add_request, BatchIds
  <1>1. ASSUME NEW x \in Ids
        PROVE  /\ req'[x] \in Request
               /\ req'[x].state = req[x].state /\ req'[x].flush = req[x].flush /\ req'[x].pending = req[x].pending
               /\ req'[x].ver = req[x].ver
               /\ req'[x].res = IF x \in D THEN <<x, "collected">> ELSE req[x].res
               /\ x \notin D => req'[x].supported = req[x].supported
    <2>0. PICK a, b : a = (kind(x) # "notsupported") /\ b = (kind(x) = "value")
      OBVIOUS
    <2>1. req[x] \in Request /\ <<x, "collected">> \in Results /\ a \in BOOLEAN /\ b \in BOOLEAN
      BY <2>0, IdTypes DEF TypeInv
    <2>2. req'[x] = IF x \notin D THEN req[x]
                    ELSE [req[x] EXCEPT !.supported = a, !.isset = b, !.res = <<x, "collected">>]
      BY <1>0, <2>0
    <2> HIDE DEF D
    <2>3. CASE x \notin D
      BY <2>1, <2>2, <2>3
    <2>4. CASE x \in D
      <3>1. req'[x] = [req[x] EXCEPT !.supported = a, !.isset = b, !.res = <<x, "collected">>]
        BY <2>2, <2>4
      <3> QED BY ONLY <2>1, <2>4, <3>1 DEF Request
    <2> QED BY <2>3, <2>4
  <1>2. req' = [x \in Ids |-> req'[x]]
    BY <1>0
  <1>3. req' \in [Ids -> Request]
    BY ONLY <1>1, <1>2
  <1> QED BY ONLY <1>0, <1>1, <1>3

(* preprocessor_add_request enqueues the received values in their order.   *)
LEMMA BatchCalls ==
  ASSUME TypeInv, NEW batch \in Batches, preprocessor_add_request(batch)
  PROVE  /\ todo' \in Seq(CallRecord) /\ CallInv(todo')
         /\ \A x : x \in CallsIn(todo', "enqueue") <=> x \in BatchIds(batch)
         /\ \A x : x \notin CallsIn(todo', "dependents") /\ x \notin CallsIn(todo', "clear")
         /\ ReleasesIn(todo') = {} /\ Silent(todo')
  <1> DEFINE n == Len(batch)
             v == [k \in 1..n |-> <<received + k, batch[k].item>>]
             e == [k \in 1..n |-> Enqueue(v[k], None)]
             plain == <<Assign(1), Flush, FlushHistory>>
  <1>1. /\ received + Len(batch) <= MaxReceived
        /\ todo' = [k \in DOMAIN batch |-> Enqueue(<<received + k, batch[k].item>>, None)] \o plain
    BY DEF preprocessor_add_request
  <1>2. /\ n \in Nat /\ DOMAIN batch = 1..n /\ received \in Nat
        /\ \A k \in 1..n : <<received + k, batch[k].item>> \in Ids
    BY <1>1, BatchProperties
  <1>3. todo' = e \o plain
    BY <1>1, <1>2
  <1>4. \A k \in 1..n : v[k] \in Ids /\ v[k][1] = received + k
    BY <1>2
  <1>5. \A x : x \in BatchIds(batch) <=> \E k \in 1..n : x = v[k]
    BY <1>2 DEF BatchIds
  <1> HIDE DEF n, v
  <1>6. \A j, k \in 1..n : j # k => v[j] # v[k]
    <2>1. ASSUME NEW j \in 1..n, NEW k \in 1..n, j # k PROVE v[j] # v[k]
      <3>1. v[j][1] # v[k][1]
        BY <1>2, <1>4, <2>1
      <3> QED BY <3>1
    <2> QED BY <2>1
  <1>7. e \in [1..n -> CallRecord] /\ \A k \in 1..n : e[k] = Enqueue(v[k], None)
    <2>1. \A k \in 1..n : Enqueue(v[k], None) \in CallRecord
      BY <1>4, CallsAreRecords
    <2> QED BY <2>1
  <1> HIDE DEF e
  <1>8. EnqueueList(n, v, None, e)
    BY <1>4, <1>6, <1>7 DEF EnqueueList
  <1>9. /\ e \in Seq(CallRecord) /\ Len(e) = n /\ Apart(e) /\ ReleasesIn(e) = {}
        /\ \A k \in 1..n : e[k].op = "enqueue" /\ e[k].id = v[k] /\ e[k].master = None
        /\ \A x : x \in CallsIn(e, "enqueue") <=> \E k \in 1..n : x = v[k]
        /\ \A x : x \notin CallsIn(e, "dependents") /\ x \notin CallsIn(e, "clear")
    BY <1>2, <1>8, EnqueueCalls
  <1>10. Plain(plain)
    BY PlainLists
  <1>10a. \A k \in 1..Len(plain) : plain[k].op \notin {"queued", "release"}
    BY DEF Assign, Flush, FlushHistory
  <1> HIDE DEF plain
  <1>11. /\ plain \in Seq(CallRecord) /\ Apart(plain) /\ ReleasesIn(plain) = {}
         /\ \A op \in {"enqueue", "dependents", "clear"} : \A x : x \notin CallsIn(plain, op)
    BY <1>10, PlainCalls
  <1>12. /\ e \o plain \in Seq(CallRecord)
         /\ \A op, x : x \in CallsIn(e \o plain, op) <=> x \in CallsIn(e, op) \/ x \in CallsIn(plain, op)
         /\ \A w : w \in ReleasesIn(e \o plain) <=> w \in ReleasesIn(e) \/ w \in ReleasesIn(plain)
    BY <1>9, <1>11, ConcatCalls
  <1>13. Apart(e \o plain)
    BY <1>9, <1>11, ConcatCalls
  <1> DEFINE t == e \o plain
  <1>13a. Len(t) = n + Len(plain) /\ (\A k \in 1..n : t[k] = e[k])
        /\ (\A k \in 1..Len(t) : k \notin 1..n => k - n \in 1..Len(plain) /\ t[k] = plain[k - n])
    <2>1. e \in Seq(CallRecord) /\ plain \in Seq(CallRecord) /\ Len(e) = n /\ n \in Nat
      BY <1>2, <1>9, <1>11
    <2>2. /\ Len(t) = Len(e) + Len(plain)
          /\ \A k \in 1..(Len(e) + Len(plain)) : t[k] = IF k <= Len(e) THEN e[k] ELSE plain[k - Len(e)]
      BY <2>1, ConcatProperties, Zenon
    <2>3. Len(plain) \in Nat
      BY <2>1
    <2>4. ASSUME NEW k \in 1..n PROVE t[k] = e[k]
      <3>1. k \in 1..(Len(e) + Len(plain)) /\ k <= Len(e)
        BY <2>1, <2>3
      <3> QED BY <2>2, <3>1
    <2>5. ASSUME NEW k \in 1..Len(t), k \notin 1..n PROVE k - n \in 1..Len(plain) /\ t[k] = plain[k - n]
      <3>1. k \in 1..(Len(e) + Len(plain)) /\ ~(k <= Len(e)) /\ k - n \in 1..Len(plain)
        BY ONLY <2>1, <2>2, <2>3, <2>5
      <3> QED BY <2>1, <2>2, <3>1
    <2> QED BY <2>1, <2>2, <2>4, <2>5
  <1>13b. Silent(t)
    <2>1. \A k \in 1..Len(t) : t[k].op \notin {"queued", "release"}
      <3>1. ASSUME NEW k \in 1..Len(t) PROVE t[k].op \notin {"queued", "release"}
        <4>1. CASE k \in 1..n
          BY <1>9, <1>13a, <4>1
        <4>2. CASE k \notin 1..n
          BY <1>10a, <1>13a, <3>1, <4>2
        <4> QED BY <4>1, <4>2
      <3> QED BY <3>1
    <2> QED BY <2>1 DEF Silent
  <1>14. TopOrder(t)
    <2>1. \A k \in 1..Len(t) : (k \in 1..n /\ t[k] = e[k]) \/ t[k].op # "enqueue"
      <3>1. \A k \in 1..Len(t) : k \notin 1..n => k - n \in 1..Len(plain) /\ t[k] = plain[k - n]
        BY <1>13a
      <3>2. \A k \in 1..Len(plain) : plain[k].op # "enqueue"
        BY <1>10 DEF Plain
      <3> QED BY <1>13a, <3>1, <3>2
    <2> HIDE DEF t
    <2>2. ASSUME NEW j \in 1..Len(t), NEW k \in 1..Len(t), j < k, t[j].op = "enqueue", t[k].op = "enqueue"
          PROVE  t[j].id[1] < t[k].id[1]
      <3>1. j \in 1..n /\ k \in 1..n /\ t[j].id = v[j] /\ t[k].id = v[k]
        BY <1>9, <2>1, <2>2
      <3>2. t[j].id[1] = received + j /\ t[k].id[1] = received + k
        BY <1>4, <3>1
      <3> QED BY <1>2, <2>2, <3>2
    <2> QED BY <2>2 DEF TopOrder
  <1>15. \A w : w \notin ReleasesIn(t)
    BY <1>9, <1>11, <1>12
  <1>16. \A x : x \in CallsIn(t, "enqueue") <=> x \in BatchIds(batch)
    BY <1>5, <1>9, <1>11, <1>12
  <1>17. \A x : x \notin CallsIn(t, "dependents") /\ x \notin CallsIn(t, "clear")
    BY <1>9, <1>11, <1>12
  <1>18. todo' = t /\ t \in Seq(CallRecord) /\ CallInv(t)
    BY <1>3, <1>12, <1>13, <1>14 DEF CallInv
  <1> QED BY <1>13b, <1>15, <1>16, <1>17, <1>18


(* preprocessor_add_request preserves the invariant.                       *)
LEMMA AddRequest ==
  ASSUME IInv, NEW batch \in Batches, preprocessor_add_request(batch)
  PROVE  IInv'
  <1> DEFINE D == BatchIds(batch)
  <1>1. /\ TypeInv /\ WorkInv /\ CallInv(todo) /\ todo \in Seq(CallRecord) /\ req \in [Ids -> Request]
        /\ QueueInv(queue, req) /\ ValueInv(req, flushed, todo, received) /\ ChainInv(req, linked_items, todo)
    BY DEF IInv, TypeInv
  <1>2. /\ todo' \in Seq(CallRecord) /\ CallInv(todo')
        /\ \A x : x \in CallsIn(todo', "enqueue") <=> x \in D
        /\ \A x : x \notin CallsIn(todo', "dependents") /\ x \notin CallsIn(todo', "clear")
        /\ ReleasesIn(todo') = {}
    BY <1>1, BatchCalls
  <1>3. /\ req' \in [Ids -> Request] /\ received + Len(batch) <= MaxReceived
        /\ \A x \in Ids : /\ req'[x].state = req[x].state /\ req'[x].flush = req[x].flush /\ req'[x].pending = req[x].pending
                          /\ req'[x].res = IF x \in D THEN <<x, "collected">> ELSE req[x].res
    BY <1>1, BatchFields
  <1>4. /\ \A x \in D : x \in Ids /\ x[1] > received /\ x[1] <= received + Len(batch) /\ ItemOf(x) \in TopItems
        /\ received \in Nat /\ Len(batch) \in Nat /\ MaxReceived \in Nat
    BY <1>1, <1>3, BatchProperties
  <1> HIDE DEF D
  <1>5. /\ todo = <<>> /\ received' = received + Len(batch)
        /\ UNCHANGED <<queue, linked_items, flushed, inbox, outbox, task, started, workers>>
    BY DEF preprocessor_add_request, wvars, ovars
  <1>6. ReleasesIn(todo) = {} /\ \A op, x : x \notin CallsIn(todo, op)
    BY <1>5, NoCalls
  <1>7. \A x \in Known(req) : x \in Ids /\ x[1] <= received
    <2>1. \A x \in Known(req) : x \in Ids
      BY DEF Known
    <2> QED BY <1>1, <2>1 DEF ValueInv
  <1>8. \A x \in D : /\ x \in Ids /\ x \notin Known(req) /\ x \notin Held(req) /\ x \notin Unfinished(req) /\ ~In1(flushed, x)
                     /\ req[x].flush = <<>> /\ req[x].pending = None
    <2>1. ASSUME NEW x \in D
          PROVE  /\ x \in Ids /\ x \notin Known(req) /\ x \notin Held(req) /\ x \notin Unfinished(req) /\ ~In1(flushed, x)
                 /\ req[x].flush = <<>> /\ req[x].pending = None
      <3>1. x \in Ids /\ x[1] \in Nat
        BY <1>4, IdTypes
      <3>2. x \notin Known(req)
        BY <1>4, <1>7, <3>1
      <3>3. req[x].state = "FREE" /\ req[x].flush = <<>> /\ req[x].pending = None /\ ~In1(flushed, x)
        BY <1>1, <3>1, <3>2 DEF ValueInv
      <3> QED BY <3>1, <3>2, <3>3 DEF Held, Unfinished
    <2> QED BY <2>1
  <1>9. /\ \A x \in Ids : x \in Held(req') <=> x \in Held(req)
        /\ \A x \in Ids : x \in Unfinished(req') <=> x \in Unfinished(req)
        /\ \A x \in Ids : x \in Known(req') <=> x \in Known(req) \/ x \in D
    <2>1. \A x \in Ids : <<x, "collected">> # None
      BY IdTypes
    <2> QED BY <1>3, <2>1 DEF Held, Unfinished, Known
  <1>10. Unfinished(req) \subseteq Ids /\ Unfinished(req') \subseteq Ids
    BY DEF Unfinished
  <1>11. Unfinished(req) \subseteq Known(req)
    <2>1. ASSUME NEW x \in Unfinished(req), x \notin Known(req) PROVE FALSE
      <3>1. req[x].state = "FREE"
        BY <1>1, <1>10, <2>1 DEF ValueInv
      <3> QED BY <2>1, <3>1 DEF Unfinished
    <2> QED BY <2>1
  <1>12. TypeInv'
    <2>1. refcount' \in [Results -> Int]
      <3>1. ASSUME NEW r \in Results PROVE (IF r[1] \in D /\ r[2] = "collected" THEN 1 ELSE refcount[r]) \in Int
        BY <1>1 DEF TypeInv
      <3>2. refcount' = [r \in Results |-> IF r[1] \in D /\ r[2] = "collected" THEN 1 ELSE refcount[r]]
        BY DEF preprocessor_add_request, D, BatchIds
      <3> QED BY ONLY <3>1, <3>2
    <2>2. received' \in 0..MaxReceived
      BY ONLY <1>3, <1>4, <1>5
    <2>3. item_config' \in [Items -> Config]
      BY <1>1 DEF TypeInv, preprocessor_add_request, preprocessor_sync_configuration
    <2>4. history_cache' \in [Items -> History \cup {None}]
      <3>1. \A i \in Items : history_cache[i] \in History \cup {None}
        BY <1>1 DEF TypeInv
      <3> QED BY ONLY <3>1, preprocessor_add_request(batch) DEF preprocessor_add_request, preprocessor_sync_configuration
    <2> QED BY <1>1, <1>2, <1>3, <1>5, <2>1, <2>2, <2>3, <2>4 DEF TypeInv, preprocessor_add_request, nvars, wvars, ovars
  <1>13. QueueInv(queue', req')
    <2>1. \A x \in Ids : req'[x].flush = req[x].flush
      BY <1>3
    <2>2. \A x \in Unfinished(req') : x \in Unfinished(req)
      BY <1>9, <1>10
    <2>3. QueueInv(queue, req')
      BY <1>1, <1>9, <2>1, <2>2, QueueKeep
    <2> QED BY <1>5, <2>3
  <1>14. ChainInv(req', linked_items', todo')
    <2>1. \A x \in Ids : (req'[x].state = "PENDING" <=> req[x].state = "PENDING") /\ req'[x].pending = req[x].pending
      BY <1>3
    <2>2. \A x \in Unfinished(req) : x \in Unfinished(req')
      BY <1>9, <1>10
    <2>3. \A x \in Unfinished(req') : x \in Unfinished(req)
      BY <1>9, <1>10
    <2>4. ASSUME NEW x \in CallsIn(todo', "enqueue"), NEW y \in Unfinished(req) PROVE y[1] < x[1]
      <3>1. x[1] > received /\ x[1] \in Nat
        BY <1>2, <1>4, IdTypes
      <3>2. y[1] <= received /\ y[1] \in Nat
        BY <1>7, <1>11, IdTypes
      <3> QED BY <1>4, <3>1, <3>2
    <2>5. \A x \in CallsIn(todo', "enqueue") : ItemOf(x) \in TopItems =>
            x \in CallsIn(todo, "enqueue") \/ \A y \in Unfinished(req) : y[1] < x[1]
      BY <2>4
    <2>6. ChainInv(req', linked_items, todo')
      BY <1>1, <2>1, <2>2, <2>3, <2>5, ChainSame
    <2> QED BY <1>5, <2>6
  <1>15. WorkInv'
    <2>1. \A x \in Ids : req[x].state = "PROCESSING" => req'[x].state = "PROCESSING"
      BY <1>3
    <2>2. \A x \in Ids : x \in Known(req) /\ x \notin Unfinished(req) /\ x \notin CallsIn(todo, "enqueue")
                         => x \in Known(req') /\ x \notin Unfinished(req') /\ x \notin CallsIn(todo', "enqueue")
      BY <1>2, <1>8, <1>9
    <2>3. ReleasesIn(todo') \subseteq ReleasesIn(todo)
      BY <1>2
    <2> QED BY <1>1, <1>5, <2>1, <2>2, <2>3, WorkKeep
  <1>16. ValueInv(req', flushed, todo', received')
    <2>1. \A x \in Ids \ Known(req') : req'[x].state = "FREE" /\ req'[x].flush = <<>> /\ req'[x].pending = None
      <3>1. ASSUME NEW x \in Ids \ Known(req') PROVE req'[x].state = "FREE" /\ req'[x].flush = <<>> /\ req'[x].pending = None
        <4>1. x \in Ids \ Known(req)
          BY <1>9
        <4> QED BY <1>1, <1>3, <4>1 DEF ValueInv
      <3> QED BY <3>1
    <2>2. \A x \in CallsIn(todo', "enqueue") : x \in Known(req') /\ x \notin Held(req') /\ ~In1(flushed, x)
      BY <1>2, <1>8, <1>9
    <2>3. \A x \in CallsIn(todo', "dependents") : x \in Known(req') /\ x \notin Unfinished(req')
      BY <1>2
    <2>4. \A x \in CallsIn(todo', "clear") : In1(flushed, x)
      BY <1>2
    <2>5. \A x \in Ids : In1(flushed, x) => x \in Known(req') /\ x \notin Held(req')
      BY <1>1, <1>9 DEF ValueInv
    <2>6. \A x \in Known(req') : x \in Held(req') \/ In1(flushed, x) \/ x \in CallsIn(todo', "enqueue")
      <3>1. ASSUME NEW x \in Known(req') PROVE x \in Held(req') \/ In1(flushed, x) \/ x \in CallsIn(todo', "enqueue")
        <4>1. x \in Ids
          BY DEF Known
        <4>2. x \in D \/ x \in Known(req)
          BY <1>9, <4>1
        <4>3. x \in Known(req) => x \in Held(req) \/ In1(flushed, x)
          BY <1>1, <1>6 DEF ValueInv
        <4> QED BY <1>2, <1>9, <4>1, <4>2, <4>3
      <3> QED BY <3>1
    <2>7. \A x \in CallsIn(todo', "enqueue") : req'[x].flush = <<>> /\ req'[x].pending = None
      BY <1>2, <1>3, <1>8
    <2>8. \A x \in Ids : x \notin Known(req') \/ x \in CallsIn(todo', "enqueue") \/ x \in CallsIn(todo', "dependents") \/ x \in Unfinished(req')
              => \A y \in Children(x) : y \notin Known(req')
      <3>1. ASSUME NEW x \in Ids, x \notin Known(req') \/ x \in CallsIn(todo', "enqueue") \/ x \in CallsIn(todo', "dependents") \/ x \in Unfinished(req'),
                   NEW y \in Children(x)
            PROVE  y \notin Known(req')
        <4>1. y \in Ids /\ ItemOf(y) \notin TopItems
          BY <3>1, ChildFacts
        <4>2. y \notin D
          BY <1>4, <4>1
        <4>3. x \notin Known(req) \/ x \in Unfinished(req)
          <5>1. x \in D => x \notin Known(req)
            BY <1>8
          <5> QED BY <1>2, <1>9, <3>1, <5>1
        <4>4. y \notin Known(req)
          BY <1>1, <3>1, <4>3 DEF ValueInv
        <4> QED BY <1>9, <4>1, <4>2, <4>4
      <3> QED BY <3>1
    <2>9. \A x \in Known(req') : x[1] <= received'
      <3>1. ASSUME NEW x \in Known(req') PROVE x[1] <= received'
        <4>1. x \in Ids /\ x[1] \in Nat
          BY IdTypes DEF Known
        <4>2. x \in D \/ x \in Known(req)
          BY <1>9, <4>1
        <4>3. x[1] <= received \/ x[1] <= received + Len(batch)
          BY <1>4, <1>7, <4>2
        <4> QED BY <1>4, <1>5, <4>1, <4>3
      <3> QED BY <3>1
    <2>10. Injective(flushed)
      BY <1>1 DEF ValueInv
    <2> QED BY <2>1, <2>2, <2>3, <2>4, <2>5, <2>6, <2>7, <2>8, <2>9, <2>10 DEF ValueInv
  <1> QED BY <1>2, <1>5, <1>12, <1>13, <1>14, <1>15, <1>16 DEF IInv


(* A value that has not been collected.                                    *)
LEMMA NoRequestFields ==
  /\ NoRequest \in Request
  /\ NoRequest.state = "FREE" /\ NoRequest.flush = <<>> /\ NoRequest.pending = None /\ NoRequest.res = None
  <1>1. MaxConfigChanges \in Nat
    BY PreprocAssumption
  <1>2. 0 \in 0..MaxConfigChanges
    BY <1>1
  <1>3. <<>> \in Seq(Ids)
    OBVIOUS
  <1> QED BY <1>2, <1>3 DEF NoRequest, Request

(* The invariant holds when the manager starts.                            *)
LEMMA InitInv == Init => IInv
  <1> SUFFICES ASSUME Init PROVE IInv
    OBVIOUS
  <1>1. /\ todo = <<>> /\ queue = <<>> /\ flushed = <<>> /\ workers = <<>> /\ received = 0 /\ delivered = 0
        /\ req = [id \in Ids |-> NoRequest]
        /\ linked_items = [i \in Items |-> None]
        /\ task = [w \in Workers |-> None]
        /\ inbox = [w \in Workers |-> <<>>] /\ outbox = [w \in Workers |-> <<>>]
        /\ started = {}
    BY DEF Init
  <1>2. ReleasesIn(todo) = {} /\ \A op, x : x \notin CallsIn(todo, op)
    BY <1>1, NoCalls
  <1>3. \A x \in Ids : req[x].state = "FREE" /\ req[x].flush = <<>> /\ req[x].pending = None /\ req[x].res = None
    BY <1>1, NoRequestFields
  <1>4. \A x : x \notin Held(req) /\ x \notin Unfinished(req) /\ x \notin Known(req)
    BY <1>3 DEF Held, Unfinished, Known
  <1>5. \A x : ~In1(queue, x) /\ ~In1(flushed, x)
    BY <1>1 DEF In1
  <1>6. TypeInv
    <2>1. MaxReceived \in Nat /\ MaxConfigChanges \in Nat
      BY PreprocAssumption
    <2>2. req \in [Ids -> Request]
      BY <1>1, NoRequestFields
    <2>3. [present |-> TRUE, ver |-> 0] \in Config
      BY <2>1 DEF Config
    <2>4. config \in [Items -> Config] /\ item_config \in [Items -> Config]
      BY <2>3 DEF Init
    <2>5. refcount \in [Results -> Int] /\ queued_num \in Int /\ preproc_num \in Int
      BY DEF Init
    <2>6. received \in 0..MaxReceived /\ delivered \in 0..Len(flushed)
      BY <1>1, <2>1
    <2>7. todo \in Seq(CallRecord) /\ queue \in Seq(Ids) /\ direct_queue \in Seq(Tests) /\ workers \in Seq(Workers)
          /\ flushed \in Seq(Ids)
      BY DEF Init
    <2>8. inbox \in [Workers -> Seq(Sent)] /\ outbox \in [Workers -> Seq(Reply)]
      BY <1>1
    <2>9. /\ linked_items \in [Items -> Ids \cup {None}] /\ history_cache \in [Items -> History \cup {None}]
          /\ priority_tail \in Ids \cup {None} /\ task \in [Workers -> Ids \cup Tests \cup {None}] /\ started \subseteq Workers
          /\ tests \in [Tests -> {"idle", "waiting", "answered", "closed"}]
      BY DEF Init
    <2> QED BY <2>2, <2>4, <2>5, <2>6, <2>7, <2>8, <2>9 DEF TypeInv
  <1>7. QueueInv(queue, req)
    <2>1. Places(queue, FlushQueues(req)) = {}
      BY <1>1 DEF Places
    <2> QED BY <1>4, <1>5, <2>1 DEF QueueInv, Unique, In
  <1>8. ValueInv(req, flushed, todo, received)
    <2>1. Injective(flushed)
      BY <1>1 DEF Injective
    <2>2. \A x \in Ids : \A y \in Children(x) : y \notin Known(req)
      BY <1>4
    <2> QED BY <1>2, <1>3, <1>4, <1>5, <2>1, <2>2 DEF ValueInv
  <1>9. WorkInv
    <2>1. ASSUME NEW w \in Workers
          PROVE  WorkerInv(inbox[w], outbox[w], task[w], w \in started, In1(workers, w),
                           w \in ReleasesIn(todo), req, CallsIn(todo, "enqueue"))
      <3>1. inbox[w] = <<>> /\ outbox[w] = <<>> /\ task[w] = None /\ w \notin started /\ w \notin ReleasesIn(todo)
        BY <1>1, <1>2
      <3>2. ~In1(workers, w)
        BY <1>1 DEF In1
      <3>3. None \notin Ids
        BY IdTypes
      <3>4. Len(inbox[w]) + Len(outbox[w]) <= 1
        BY <3>1
      <3> QED BY <3>1, <3>2, <3>3, <3>4 DEF WorkerInv
    <2>2. \A w \in Workers : task[w] \notin Ids
      BY <1>1, IdTypes
    <2> QED BY <2>1, <2>2 DEF WorkInv
  <1>10. ChainInv(req, linked_items, todo)
    <2>1. ASSUME NEW i \in Items
          PROVE  \E c \in Seq(Ids) : Chain(i, c, req, linked_items) /\ (i \in TopItems => ChainOrder(i, c, CallsIn(todo, "enqueue")))
      <3>1. <<>> \in Seq(Ids) /\ Len(<<>>) = 0 /\ linked_items[i] = None /\ \A x : ~In1(<<>>, x)
        BY <1>1 DEF In1
      <3>2. \A k \in 1..Len(<<>>) : FALSE
        BY <3>1
      <3>3. Chain(i, <<>>, req, linked_items)
        BY <1>4, <3>1, <3>2 DEF Chain, Injective
      <3>4. ChainOrder(i, <<>>, CallsIn(todo, "enqueue"))
        BY <3>2 DEF ChainOrder
      <3> QED BY <3>1, <3>3, <3>4
    <2>2. \A i \in Items : linked_items[i] = None
      BY <1>1
    <2> QED BY <1>4, <2>1, <2>2 DEF ChainInv
  <1>11. CallInv(todo)
    <2>1. Plain(todo)
      BY <1>1, PlainLists
    <2> QED BY <2>1, PlainCallInv
  <1> QED BY <1>6, <1>7, <1>8, <1>9, <1>10, <1>11 DEF IInv

(* The invariant is about the variables only.                              *)
LEMMA StutterInv ==
  ASSUME IInv, UNCHANGED vars
  PROVE  IInv'
  <1>1. /\ UNCHANGED <<todo, queue, req, refcount, linked_items, history_cache, priority_tail, direct_queue, workers, task,
                       queued_num, preproc_num, item_config, config, inbox, outbox, started, tests, received, flushed, delivered>>
    BY DEF vars, qvars, nvars, wvars, ovars
  <1>2. TypeInv'
    BY <1>1 DEF IInv, TypeInv
  <1>3. QueueInv(queue, req)' /\ ValueInv(req, flushed, todo, received)' /\ ChainInv(req, linked_items, todo)' /\ CallInv(todo)'
    BY <1>1 DEF IInv
  <1>4. WorkInv'
    BY <1>1 DEF IInv, WorkInv
  <1> QED BY <1>2, <1>3, <1>4 DEF IInv

(* Every step preserves the invariant.                                     *)
LEMMA NextInv == IInv /\ [Next]_vars => IInv'
  <1> SUFFICES ASSUME IInv, [Next]_vars PROVE IInv'
    OBVIOUS
  <1>1. CASE Calls
    BY <1>1, EnqueueStep, EnqueueEnd, ClearStep, DependentsStep, AssignStep, FlushStep, ResultEnd, FlushHistoryStep DEF Calls
  <1>2. CASE Replies
    BY <1>2, RegisterWorker, AddResult, FlushTestResult DEF Replies
  <1>3. CASE recv_timeout
    BY <1>3, RecvTimeout
  <1>4. CASE \E batch \in Batches : preprocessor_add_request(batch)
    BY <1>4, AddRequest
  <1>5. CASE \E t \in Tests : preprocessor_add_test_request(t) \/ client_close(t)
    BY <1>5, AddTestRequest, ClientClose
  <1>6. CASE \E w \in Workers : Worker(w)
    BY <1>6, WorkerStart, WorkerPreprocess, WorkerTest DEF Worker
  <1>7. CASE \E i \in Items, present \in BOOLEAN : config_change(i, present)
    BY <1>7, ConfigChange
  <1>8. CASE UNCHANGED vars
    BY <1>8, StutterInv
  <1> QED BY <1>1, <1>2, <1>3, <1>4, <1>5, <1>6, <1>7, <1>8 DEF Next

(* The inductive invariant of the preprocessing manager and its workers:   *)
(* the types; every collected or derived value is at one place, about to   *)
(* be enqueued, in the queue or a flush queue, or flushed; the unfinished  *)
(* requests of an item with change or throttling steps form a chain that   *)
(* linked_items ends; a worker has at most one message and one task, which *)
(* no other worker has; and the pending calls do not conflict.             *)
THEOREM PreprocInvariant == Spec => []IInv
  BY InitInv, NextInv, PTL DEF Spec

==============================================================================
