------------------------- MODULE RemoteSync_proofs -------------------------
(***************************************************************************)
(* Proofs about RemoteSync: the ends of a connection agree on who sends    *)
(* its state, the receiver has the state when it goes on, and no peer is   *)
(* found in error, unless Poll has mixed up their connection with another. *)
(* The invariants are in RemoteSyncInv.                                    *)
(***************************************************************************)
EXTENDS RemoteSyncInv, TLAPS

-----------------------------------------------------------------------------
(* Rules for the order of messages on a channel.                           *)

\* The receiver takes the first message.
LEMMA HotShift ==
  ASSUME NEW Q, NEW V, Rest(V, Q), NEW R, NEW hot \in BOOLEAN, NEW hot1 \in BOOLEAN,
         hot1 => hot \/ Q[1] \in R[1],
         NEW i \in 0 .. Len(V), HotAt(V, R, hot1, i)
  PROVE  \E h \in 0 .. Len(Q) : HotAt(Q, R, hot, h) /\ (h = i + 1 \/ (h = 0 /\ i = 0 /\ hot1))
<1>1. /\ Len(Q) \in Nat /\ Len(Q) >= 1 /\ Len(V) = Len(Q) - 1
      /\ \A k \in 1 .. Len(V) : V[k] = Q[k + 1]
  BY DEF Rest
<1>2. 0 \in 0 .. Len(Q) /\ 1 \in 0 .. Len(Q) /\ 1 \in 1 .. Len(Q)
  BY <1>1
<1>4. CASE i = 0 /\ hot1 /\ hot
  <2>1. HotAt(Q, R, hot, 0)
    BY <1>4 DEF HotAt
  <2> QED BY <1>2, <1>4, <2>1
<1>5. CASE i = 0 /\ hot1 /\ Q[1] \in R[1]
  <2>1. HotAt(Q, R, hot, 1)
    BY <1>2, <1>5 DEF HotAt
  <2> QED BY <1>2, <1>5, <2>1
<1>6. CASE i \in 1 .. Len(V) /\ V[i] \in R[1]
  <2>1. i + 1 \in 1 .. Len(Q) /\ i + 1 \in 0 .. Len(Q) /\ Q[i + 1] = V[i]
    BY <1>1, <1>6
  <2>2. HotAt(Q, R, hot, i + 1)
    BY <1>6, <2>1 DEF HotAt
  <2> QED BY <2>1, <2>2
<1> QED BY <1>4, <1>5, <1>6 DEF HotAt

LEMMA ConsumeIn ==
  ASSUME NEW Q, NEW V, Rest(V, Q), NEW R, NEW hot \in BOOLEAN, NEW hot1 \in BOOLEAN,
         InOK(Q, R, hot), hot1 => (hot \/ Q[1] \in R[1]) /\ Q[1] \notin R[2]
  PROVE  InOK(V, R, hot1)
<1>1. /\ Len(Q) \in Nat /\ Len(Q) >= 1 /\ Len(V) = Len(Q) - 1
      /\ \A k \in 1 .. Len(V) : V[k] = Q[k + 1]
  BY DEF Rest
<1> SUFFICES ASSUME NEW i \in 0 .. Len(V), NEW j \in 1 .. Len(V),
                    HotAt(V, R, hot1, i), V[j] \in R[3], i < j
             PROVE  \E m \in 1 .. Len(V) : i < m /\ m < j /\ V[m] \in R[2]
  BY DEF InOK
<1>2. j + 1 \in 1 .. Len(Q) /\ i \in Nat /\ j \in Nat /\ Q[j + 1] = V[j]
  BY <1>1
<1>3. PICK h \in 0 .. Len(Q) : HotAt(Q, R, hot, h) /\ (h = i + 1 \/ (h = 0 /\ i = 0 /\ hot1))
  BY HotShift
<1>4. PICK m \in 1 .. Len(Q) : h < m /\ m < j + 1 /\ Q[m] \in R[2]
  BY <1>2, <1>3 DEF InOK
<1>5. m # 1
  BY <1>2, <1>3, <1>4
<1>6. m - 1 \in 1 .. Len(V) /\ V[m - 1] = Q[m]
  BY <1>1, <1>4, <1>5
<1>7. i < m - 1 /\ m - 1 < j
  BY <1>2, <1>3, <1>4, <1>5
<1> QED BY <1>4, <1>6, <1>7

LEMMA ConsumeCross ==
  ASSUME NEW Q, NEW V, Rest(V, Q), NEW R, NEW hot \in BOOLEAN, NEW hot1 \in BOOLEAN,
         NEW O, NEW T, NEW due \in BOOLEAN, CrossOK(Q, R, hot, O, T, due),
         hot1 => (hot \/ Q[1] \in R[1]) /\ Q[1] \notin R[2]
  PROVE  CrossOK(V, R, hot1, O, T, due)
<1>1. /\ Len(Q) \in Nat /\ Len(Q) >= 1 /\ Len(V) = Len(Q) - 1
      /\ \A k \in 1 .. Len(V) : V[k] = Q[k + 1]
  BY DEF Rest
<1>0. ASSUME NEW i \in 0 .. Len(V), HotAt(V, R, hot1, i)
      PROVE  \E h \in 0 .. Len(Q) : HotAt(Q, R, hot, h) /\ (h = i + 1 \/ (h = 0 /\ i = 0 /\ hot1))
  <2>1. hot1 => hot \/ Q[1] \in R[1]
    OBVIOUS
  <2>2. i \in 0 .. Len(V) /\ HotAt(V, R, hot1, i)
    BY <1>0
  <2> QED BY <2>1, <2>2, HotShift, SMTT(30)
<1> SUFFICES ASSUME NEW i \in 0 .. Len(V), NEW j \in 1 .. Len(O) + 1,
                    HotAt(V, R, hot1, i), DueAt(O, T, due, j),
                    ~ \E m \in 1 .. Len(O) : m < j /\ O[m] \in T[2]
             PROVE  \E m \in 1 .. Len(V) : i < m /\ V[m] \in R[2]
  BY DEF CrossOK
<1>2. i \in Nat
  BY <1>1
<1>3. PICK h \in 0 .. Len(Q) : HotAt(Q, R, hot, h) /\ (h = i + 1 \/ (h = 0 /\ i = 0 /\ hot1))
  BY <1>0
<1>4. PICK m \in 1 .. Len(Q) : h < m /\ Q[m] \in R[2]
  BY <1>3 DEF CrossOK
<1>5. m # 1
  BY <1>2, <1>3, <1>4
<1>6. m - 1 \in 1 .. Len(V) /\ V[m - 1] = Q[m]
  BY <1>1, <1>4, <1>5
<1>7. i < m - 1
  BY <1>2, <1>3, <1>4, <1>5
<1> QED BY <1>4, <1>6, <1>7

\* The first message leaves the pipe.
LEMMA LeaveOut ==
  ASSUME NEW O, NEW W, Rest(W, O), NEW T, NEW due \in BOOLEAN, OutOK(O, T, due)
  PROVE  OutOK(W, T, due)
<1>1. /\ Len(O) \in Nat /\ Len(O) >= 1 /\ Len(W) = Len(O) - 1
      /\ \A k \in 1 .. Len(W) : W[k] = O[k + 1]
  BY DEF Rest
<1> SUFFICES ASSUME NEW i \in 1 .. Len(W), NEW j \in 1 .. Len(W) + 1,
                    W[i] \in T[1], DueAt(W, T, due, j), i < j
             PROVE  \E m \in 1 .. Len(W) : i < m /\ m < j /\ W[m] \in T[2]
  BY DEF OutOK
<1>2. i + 1 \in 1 .. Len(O) /\ j + 1 \in 1 .. Len(O) + 1 /\ O[i + 1] = W[i] /\ i + 1 < j + 1
  BY <1>1
<1>3. DueAt(O, T, due, j + 1)
  <2>1. CASE j = Len(W) + 1 /\ due
    BY <1>1, <2>1 DEF DueAt
  <2>2. CASE j \in 1 .. Len(W) /\ W[j] \in T[3]
    BY <1>1, <2>2 DEF DueAt
  <2> QED BY <2>1, <2>2 DEF DueAt
<1>4. PICK m \in 1 .. Len(O) : i + 1 < m /\ m < j + 1 /\ O[m] \in T[2]
  BY <1>2, <1>3 DEF OutOK
<1>5. m - 1 \in 1 .. Len(W) /\ W[m - 1] = O[m] /\ i < m - 1 /\ m - 1 < j
  BY <1>1, <1>4
<1> QED BY <1>4, <1>5

\* It is none that the receiver may wait for.
LEMMA DropCross ==
  ASSUME NEW O, NEW W, Rest(W, O), NEW Q, NEW R, NEW hot \in BOOLEAN, NEW T, NEW due \in BOOLEAN,
         CrossOK(Q, R, hot, O, T, due), O[1] \notin T[2]
  PROVE  CrossOK(Q, R, hot, W, T, due)
<1>1. /\ Len(O) \in Nat /\ Len(O) >= 1 /\ Len(W) = Len(O) - 1
      /\ \A k \in 1 .. Len(W) : W[k] = O[k + 1]
  BY DEF Rest
<1> SUFFICES ASSUME NEW i \in 0 .. Len(Q), NEW j \in 1 .. Len(W) + 1,
                    HotAt(Q, R, hot, i), DueAt(W, T, due, j)
             PROVE  \/ \E m \in 1 .. Len(Q) : i < m /\ Q[m] \in R[2]
                    \/ \E m \in 1 .. Len(W) : m < j /\ W[m] \in T[2]
  BY DEF CrossOK
<1>2. j + 1 \in 1 .. Len(O) + 1 /\ DueAt(O, T, due, j + 1)
  BY SMTT(30), <1>1 DEF DueAt
<1>3. \/ \E m \in 1 .. Len(Q) : i < m /\ Q[m] \in R[2]
      \/ \E m \in 1 .. Len(O) : m < j + 1 /\ O[m] \in T[2]
  BY <1>2 DEF CrossOK
<1>4. ASSUME NEW m \in 1 .. Len(O), m < j + 1, O[m] \in T[2]
      PROVE  \E k \in 1 .. Len(W) : k < j /\ W[k] \in T[2]
  <2>1. m # 1
    BY <1>4
  <2>2. m - 1 \in 1 .. Len(W) /\ W[m - 1] = O[m] /\ m - 1 < j
    BY <1>1, <1>4, <2>1
  <2> QED BY <1>4, <2>2
<1> QED BY <1>3, <1>4

\* It gets into the queue of the receiver.
LEMMA ForwardIn ==
  ASSUME NEW Q, NEW V, NEW e, More(V, Q, e), NEW R, NEW hot \in BOOLEAN, InOK(Q, R, hot),
         NEW O, NEW T, NEW due \in BOOLEAN, Len(O) \in Nat, Len(O) >= 1,
         CrossOK(Q, R, hot, O, T, due), e \in R[3] => O[1] \in T[3]
  PROVE  InOK(V, R, hot)
<1>1. /\ Len(Q) \in Nat /\ Len(V) = Len(Q) + 1
      /\ \A i \in 1 .. Len(Q) : V[i] = Q[i]
      /\ V[Len(Q) + 1] = e
  BY DEF More
<1> SUFFICES ASSUME NEW i \in 0 .. Len(V), NEW j \in 1 .. Len(V),
                    HotAt(V, R, hot, i), V[j] \in R[3], i < j
             PROVE  \E m \in 1 .. Len(V) : i < m /\ m < j /\ V[m] \in R[2]
  BY DEF InOK
<1>2. i \in 0 .. Len(Q) /\ HotAt(Q, R, hot, i)
  BY <1>1 DEF HotAt
<1>3. CASE j \in 1 .. Len(Q)
  <2>1. PICK m \in 1 .. Len(Q) : i < m /\ m < j /\ Q[m] \in R[2]
    BY <1>1, <1>2, <1>3 DEF InOK
  <2> QED BY <1>1, <2>1
<1>4. CASE j = Len(Q) + 1
  <2>1. 1 \in 1 .. Len(O) /\ 1 \in 1 .. Len(O) + 1
    OBVIOUS
  <2>2. DueAt(O, T, due, 1)
    BY <1>1, <1>4, <2>1 DEF DueAt
  <2>3. ~ \E m \in 1 .. Len(O) : m < 1 /\ O[m] \in T[2]
    OBVIOUS
  <2>4. PICK m \in 1 .. Len(Q) : i < m /\ Q[m] \in R[2]
    BY <1>2, <2>1, <2>2, <2>3 DEF CrossOK
  <2> QED BY <1>1, <1>4, <2>4
<1> QED BY <1>1, <1>3, <1>4

LEMMA ForwardCross ==
  ASSUME NEW Q, NEW V, NEW e, More(V, Q, e), NEW R, NEW hot \in BOOLEAN,
         NEW O, NEW W, Rest(W, O), NEW T, NEW due \in BOOLEAN,
         CrossOK(Q, R, hot, O, T, due), OutOK(O, T, due),
         e \in R[1] => O[1] \in T[1], O[1] \in T[2] => e \in R[2]
  PROVE  CrossOK(V, R, hot, W, T, due)
<1>1. /\ Len(Q) \in Nat /\ Len(V) = Len(Q) + 1
      /\ \A i \in 1 .. Len(Q) : V[i] = Q[i]
      /\ V[Len(Q) + 1] = e
  BY DEF More
<1>2. /\ Len(O) \in Nat /\ Len(O) >= 1 /\ Len(W) = Len(O) - 1
      /\ \A k \in 1 .. Len(W) : W[k] = O[k + 1]
  BY DEF Rest
<1> SUFFICES ASSUME NEW i \in 0 .. Len(V), NEW j \in 1 .. Len(W) + 1,
                    HotAt(V, R, hot, i), DueAt(W, T, due, j)
             PROVE  \/ \E m \in 1 .. Len(V) : i < m /\ V[m] \in R[2]
                    \/ \E m \in 1 .. Len(W) : m < j /\ W[m] \in T[2]
  BY DEF CrossOK
<1>3. j + 1 \in 1 .. Len(O) + 1 /\ DueAt(O, T, due, j + 1)
  BY <1>2 DEF DueAt
<1>4. ASSUME NEW m \in 1 .. Len(O), 1 < m, m < j + 1, O[m] \in T[2]
      PROVE  \E k \in 1 .. Len(W) : k < j /\ W[k] \in T[2]
  <2>1. m - 1 \in 1 .. Len(W) /\ W[m - 1] = O[m] /\ m - 1 < j
    BY <1>2, <1>4
  <2> QED BY <1>4, <2>1
<1>5. CASE i \in 0 .. Len(Q)
  <2>1. HotAt(Q, R, hot, i)
    BY <1>1, <1>5 DEF HotAt
  <2>2. \/ \E m \in 1 .. Len(Q) : i < m /\ Q[m] \in R[2]
        \/ \E m \in 1 .. Len(O) : m < j + 1 /\ O[m] \in T[2]
    BY <1>3, <1>5, <2>1 DEF CrossOK
  <2>3. CASE \E m \in 1 .. Len(Q) : i < m /\ Q[m] \in R[2]
    BY <1>1, <2>3
  <2>4. ASSUME NEW m \in 1 .. Len(O), m < j + 1, O[m] \in T[2]
        PROVE  \/ \E k \in 1 .. Len(V) : i < k /\ V[k] \in R[2]
               \/ \E k \in 1 .. Len(W) : k < j /\ W[k] \in T[2]
    <3>1. CASE m = 1
      <4>1. Len(Q) + 1 \in 1 .. Len(V) /\ i < Len(Q) + 1
        BY <1>1, <1>5
      <4>2. V[Len(Q) + 1] \in R[2]
        BY <1>1, <2>4, <3>1
      <4> QED BY <4>1, <4>2
    <3>2. CASE 1 < m
      BY <1>4, <2>4, <3>2
    <3> QED BY <1>2, <3>1, <3>2
  <2> QED BY <2>2, <2>3, <2>4
<1>6. CASE i = Len(Q) + 1
  <2>1. O[1] \in T[1]
    BY <1>1, <1>6 DEF HotAt
  <2>2. 1 \in 1 .. Len(O) /\ 1 < j + 1
    BY <1>2
  <2>3. PICK m \in 1 .. Len(O) : 1 < m /\ m < j + 1 /\ O[m] \in T[2]
    BY <1>3, <2>1, <2>2 DEF OutOK
  <2> QED BY <1>4, <2>3
<1> QED BY <1>1, <1>5, <1>6

LEMMA SendOut ==
  ASSUME NEW O, NEW x, NEW W, Joined(W, O, x), NEW T, NEW due \in BOOLEAN, NEW due1 \in BOOLEAN,
         OutOK(O, T, due), OutOK(x, T, due1), Led(x, T, due, due1)
  PROVE  OutOK(W, T, due1)
<1>1. /\ Len(O) \in Nat /\ Len(x) \in Nat /\ Len(W) = Len(O) + Len(x)
      /\ \A i \in 1 .. Len(O) : W[i] = O[i]
      /\ \A i \in 1 .. Len(x) : W[Len(O) + i] = x[i]
  BY DEF Joined
<1> SUFFICES ASSUME NEW i \in 1 .. Len(W), NEW j \in 1 .. Len(W) + 1,
                    W[i] \in T[1], DueAt(W, T, due1, j), i < j
             PROVE  \E m \in 1 .. Len(W) : i < m /\ m < j /\ W[m] \in T[2]
  BY DEF OutOK
<1>2. CASE j \in 1 .. Len(O)
  <2>1. i \in 1 .. Len(O) /\ O[i] \in T[1] /\ j \in 1 .. Len(O) + 1
    BY <1>1, <1>2
  <2>2. W[j] = O[j] /\ j # Len(W) + 1
    BY <1>1, <1>2
  <2>3. DueAt(O, T, due, j)
    BY <1>2, <2>2 DEF DueAt
  <2>4. PICK m \in 1 .. Len(O) : i < m /\ m < j /\ O[m] \in T[2]
    BY <2>1, <2>3 DEF OutOK
  <2> QED BY <1>1, <2>4
<1>3. CASE j > Len(O)
  <2> DEFINE y == j - Len(O)
  <2>1. y \in 1 .. Len(x) + 1 /\ j = Len(O) + y
    BY <1>1, <1>3
  <2> HIDE DEF y
  <2>2. DueAt(x, T, due1, y)
    <3>1. CASE j = Len(W) + 1 /\ due1
      BY <1>1, <2>1, <3>1 DEF DueAt
    <3>2. CASE j \in 1 .. Len(W) /\ W[j] \in T[3]
      <4>1. y \in 1 .. Len(x) /\ x[y] \in T[3]
        BY <1>1, <2>1, <3>2
      <4> QED BY <4>1 DEF DueAt
    <3> QED BY <3>1, <3>2 DEF DueAt
  <2>3. ASSUME NEW m \in 1 .. Len(x), m < y, x[m] \in T[2], i < Len(O) + m
        PROVE  \E k \in 1 .. Len(W) : i < k /\ k < j /\ W[k] \in T[2]
    <3>1. Len(O) + m \in 1 .. Len(W) /\ Len(O) + m < j /\ W[Len(O) + m] = x[m]
      BY <1>1, <2>1, <2>3
    <3> QED BY <2>3, <3>1
  <2>4. CASE i > Len(O)
    <3>1. i - Len(O) \in 1 .. Len(x) /\ x[i - Len(O)] = W[i] /\ i - Len(O) < y
      <4>1. i - Len(O) \in 1 .. Len(x)
        BY <1>1, <2>4
      <4>2. x[i - Len(O)] = W[Len(O) + (i - Len(O))]
        BY <1>1, <4>1
      <4>3. Len(O) + (i - Len(O)) = i
        BY <1>1
      <4> QED BY <1>1, <2>1, <4>1, <4>2, <4>3
    <3>2. PICK m \in 1 .. Len(x) : i - Len(O) < m /\ m < y /\ x[m] \in T[2]
      BY <2>1, <2>2, <3>1 DEF OutOK
    <3>3. i < Len(O) + m
      BY <1>1, <3>1, <3>2
    <3> QED BY <2>3, <3>2, <3>3
  <2>5. CASE i \in 1 .. Len(O)
    <3>1. O[i] \in T[1]
      BY <1>1, <2>5
    <3>2. CASE due
      <4>1. DueAt(O, T, due, Len(O) + 1) /\ Len(O) + 1 \in 1 .. Len(O) + 1 /\ i < Len(O) + 1
        BY <1>1, <2>5, <3>2 DEF DueAt
      <4>2. PICK m \in 1 .. Len(O) : i < m /\ m < Len(O) + 1 /\ O[m] \in T[2]
        BY <2>5, <3>1, <4>1 DEF OutOK
      <4> QED BY <1>1, <1>3, <4>2
    <3>3. CASE \E m \in 1 .. Len(x) : m < y /\ x[m] \in T[2]
      <4>1. PICK m \in 1 .. Len(x) : m < y /\ x[m] \in T[2]
        BY <3>3
      <4>2. i < Len(O) + m
        BY <1>1, <2>5, <4>1
      <4> QED BY <2>3, <4>1, <4>2
    <3> QED BY <2>1, <2>2, <3>2, <3>3 DEF Led
  <2> QED BY <1>1, <2>4, <2>5
<1> QED BY <1>1, <1>2, <1>3

LEMMA SendCross ==
  ASSUME NEW O, NEW x, NEW W, Joined(W, O, x), NEW T, NEW due \in BOOLEAN, NEW due1 \in BOOLEAN,
         NEW Q, NEW R, NEW hot \in BOOLEAN,
         CrossOK(Q, R, hot, O, T, due), Led(x, T, due, due1)
  PROVE  CrossOK(Q, R, hot, W, T, due1)
<1>1. /\ Len(O) \in Nat /\ Len(x) \in Nat /\ Len(W) = Len(O) + Len(x)
      /\ \A i \in 1 .. Len(O) : W[i] = O[i]
      /\ \A i \in 1 .. Len(x) : W[Len(O) + i] = x[i]
  BY DEF Joined
<1> SUFFICES ASSUME NEW i \in 0 .. Len(Q), NEW j \in 1 .. Len(W) + 1,
                    HotAt(Q, R, hot, i), DueAt(W, T, due1, j),
                    ~ \E m \in 1 .. Len(Q) : i < m /\ Q[m] \in R[2]
             PROVE  \E m \in 1 .. Len(W) : m < j /\ W[m] \in T[2]
  BY DEF CrossOK
<1>2. CASE j \in 1 .. Len(O)
  <2>1. W[j] = O[j] /\ j # Len(W) + 1 /\ j \in 1 .. Len(O) + 1
    BY <1>1, <1>2
  <2>2. DueAt(O, T, due, j)
    BY <1>2, <2>1 DEF DueAt
  <2>3. PICK m \in 1 .. Len(O) : m < j /\ O[m] \in T[2]
    BY <2>1, <2>2 DEF CrossOK
  <2> QED BY <1>1, <2>3
<1>3. CASE j > Len(O)
  <2> DEFINE y == j - Len(O)
  <2>1. y \in 1 .. Len(x) + 1 /\ j = Len(O) + y
    BY <1>1, <1>3
  <2> HIDE DEF y
  <2>2. DueAt(x, T, due1, y)
    <3>1. CASE j = Len(W) + 1 /\ due1
      BY <1>1, <2>1, <3>1 DEF DueAt
    <3>2. CASE j \in 1 .. Len(W) /\ W[j] \in T[3]
      <4>1. y \in 1 .. Len(x) /\ x[y] \in T[3]
        BY <1>1, <2>1, <3>2
      <4> QED BY <4>1 DEF DueAt
    <3> QED BY <3>1, <3>2 DEF DueAt
  <2>3. CASE due
    <3>1. DueAt(O, T, due, Len(O) + 1) /\ Len(O) + 1 \in 1 .. Len(O) + 1
      BY <1>1, <2>3 DEF DueAt
    <3>2. PICK m \in 1 .. Len(O) : m < Len(O) + 1 /\ O[m] \in T[2]
      BY <3>1 DEF CrossOK
    <3> QED BY <1>1, <1>3, <3>2
  <2>4. CASE \E m \in 1 .. Len(x) : m < y /\ x[m] \in T[2]
    <3>1. PICK m \in 1 .. Len(x) : m < y /\ x[m] \in T[2]
      BY <2>4
    <3>2. Len(O) + m \in 1 .. Len(W) /\ Len(O) + m < j /\ W[Len(O) + m] = x[m]
      BY <1>1, <2>1, <3>1
    <3> QED BY <3>1, <3>2
  <2> QED BY <2>1, <2>2, <2>3, <2>4 DEF Led
<1> QED BY <1>1, <1>2, <1>3

\* The connection is accepted: what has come on it follows what is in the queue.
LEMMA AcceptIn ==
  ASSUME NEW U, NEW Q, NEW V, Joined(V, U, Q), NEW R, NEW hot \in BOOLEAN, InOK(Q, R, hot),
         \A i \in 1 .. Len(U) : U[i] \notin R[1] /\ U[i] \notin R[3]
  PROVE  InOK(V, R, hot)
<1>1. /\ Len(U) \in Nat /\ Len(Q) \in Nat /\ Len(V) = Len(U) + Len(Q)
      /\ \A i \in 1 .. Len(U) : V[i] = U[i]
      /\ \A i \in 1 .. Len(Q) : V[Len(U) + i] = Q[i]
  BY DEF Joined
<1> SUFFICES ASSUME NEW i \in 0 .. Len(V), NEW j \in 1 .. Len(V),
                    HotAt(V, R, hot, i), V[j] \in R[3], i < j
             PROVE  \E m \in 1 .. Len(V) : i < m /\ m < j /\ V[m] \in R[2]
  BY DEF InOK
<1>2. j > Len(U)
  BY <1>1
<1>3. PICK b \in 1 .. Len(Q) : j = Len(U) + b
  <2>1. j - Len(U) \in 1 .. Len(Q) /\ j = Len(U) + (j - Len(U))
    BY <1>1, <1>2
  <2> QED BY <2>1
<1>4. PICK a \in 0 .. Len(Q) : HotAt(Q, R, hot, a) /\ ((i = 0 /\ a = 0) \/ i = Len(U) + a)
  <2>1. CASE i = 0 /\ hot
    <3>1. HotAt(Q, R, hot, 0) /\ 0 \in 0 .. Len(Q)
      BY <1>1, <2>1 DEF HotAt
    <3> QED BY <2>1, <3>1
  <2>2. CASE i \in 1 .. Len(V) /\ V[i] \in R[1]
    <3>1. i - Len(U) \in 1 .. Len(Q) /\ i = Len(U) + (i - Len(U)) /\ i - Len(U) \in 0 .. Len(Q)
      <4>1. /\ Len(U) \in Nat /\ Len(Q) \in Nat /\ Len(V) = Len(U) + Len(Q)
            /\ i \in 1 .. Len(V) /\ i \notin 1 .. Len(U)
        BY <1>1, <2>2
      <4> QED BY <4>1
    <3>2. Q[i - Len(U)] = V[Len(U) + (i - Len(U))]
      BY <1>1, <3>1
    <3>3. HotAt(Q, R, hot, i - Len(U))
      BY <2>2, <3>1, <3>2 DEF HotAt
    <3> QED BY <3>1, <3>3
  <2> QED BY <2>1, <2>2 DEF HotAt
<1>5. a < b /\ V[j] = Q[b]
  BY <1>1, <1>3, <1>4
<1>6. PICK m \in 1 .. Len(Q) : a < m /\ m < b /\ Q[m] \in R[2]
  BY <1>4, <1>5 DEF InOK
<1>7. Len(U) + m \in 1 .. Len(V) /\ i < Len(U) + m /\ Len(U) + m < j /\ V[Len(U) + m] = Q[m]
  BY SMTT(30), <1>1, <1>3, <1>4, <1>6
<1> QED BY <1>6, <1>7

LEMMA AcceptCross ==
  ASSUME NEW U, NEW Q, NEW V, Joined(V, U, Q), NEW R, NEW hot \in BOOLEAN,
         NEW O, NEW T, NEW due \in BOOLEAN, CrossOK(Q, R, hot, O, T, due),
         \A i \in 1 .. Len(U) : U[i] \notin R[1]
  PROVE  CrossOK(V, R, hot, O, T, due)
<1>1. /\ Len(U) \in Nat /\ Len(Q) \in Nat /\ Len(V) = Len(U) + Len(Q)
      /\ \A i \in 1 .. Len(U) : V[i] = U[i]
      /\ \A i \in 1 .. Len(Q) : V[Len(U) + i] = Q[i]
  BY DEF Joined
<1>2. ASSUME NEW i \in 0 .. Len(V), HotAt(V, R, hot, i)
      PROVE  \E a \in 0 .. Len(Q) : HotAt(Q, R, hot, a) /\ ((i = 0 /\ a = 0) \/ i = Len(U) + a)
  <2>1. CASE i = 0 /\ hot
    <3>1. HotAt(Q, R, hot, 0) /\ 0 \in 0 .. Len(Q)
      BY <1>1, <2>1 DEF HotAt
    <3> QED BY <2>1, <3>1
  <2>2. CASE i \in 1 .. Len(V) /\ V[i] \in R[1]
    <3>1. i - Len(U) \in 1 .. Len(Q) /\ i = Len(U) + (i - Len(U)) /\ i - Len(U) \in 0 .. Len(Q)
      BY <1>1, <2>2
    <3>2. Q[i - Len(U)] = V[Len(U) + (i - Len(U))]
      BY <1>1, <3>1
    <3>3. HotAt(Q, R, hot, i - Len(U))
      BY <2>2, <3>1, <3>2 DEF HotAt
    <3> QED BY <3>1, <3>3
  <2> QED BY <1>2, <2>1, <2>2 DEF HotAt
<1> SUFFICES ASSUME NEW i \in 0 .. Len(V), NEW j \in 1 .. Len(O) + 1,
                    HotAt(V, R, hot, i), DueAt(O, T, due, j),
                    ~ \E m \in 1 .. Len(O) : m < j /\ O[m] \in T[2]
             PROVE  \E m \in 1 .. Len(V) : i < m /\ V[m] \in R[2]
  BY DEF CrossOK
<1>3. PICK a \in 0 .. Len(Q) : HotAt(Q, R, hot, a) /\ ((i = 0 /\ a = 0) \/ i = Len(U) + a)
  BY <1>2
<1>4. PICK m \in 1 .. Len(Q) : a < m /\ Q[m] \in R[2]
  BY <1>3 DEF CrossOK
<1>5. Len(U) + m \in 1 .. Len(V) /\ i < Len(U) + m /\ V[Len(U) + m] = Q[m]
  BY <1>1, <1>3, <1>4
<1> QED BY <1>4, <1>5

-----------------------------------------------------------------------------
(* The effect of the functions of the main process.                        *)

LEMMA JoinedNone ==
  ASSUME NEW Q, NEW x, Len(Q) \in Nat, Len(x) = 0
  PROVE  Joined(Q, Q, x)
BY DEF Joined

LEMMA JoinedOne ==
  ASSUME NEW V, NEW Q, NEW e, NEW x, More(V, Q, e), Len(x) = 1, x[1] = e
  PROVE  Joined(V, Q, x)
BY DEF Joined, More

LEMMA SentFacts ==
  ASSUME NEW p, NEW k, NEW ts, Len(ts) \in Nat
  PROVE  Len(Sent(p, k, ts)) = Len(ts) /\ \A i \in 1 .. Len(ts) : Sent(p, k, ts)[i] = Msg(p, ts[i], k)
BY DEF Sent

\* The record of p changes.
LEMMA Put ==
  ASSUME NEW n, NEW s, IsMain(n, s), NEW p \in DOMAIN s.peer, NEW r \in PeerSet, NEW v,
         NEW w \in Seq(Ids), \A i \in 1 .. Len(w) : w[i] \in DOMAIN s.peer,
         NEW t, t = [peer |-> [s.peer EXCEPT ![p] = r], in_sync |-> v, sync_pending |-> w, out |-> s.out]
  PROVE  Effect(n, s, t, p, r, w, << >>)
<1>1. /\ t.peer = [s.peer EXCEPT ![p] = r] /\ t.in_sync = v /\ t.sync_pending = w /\ t.out = s.out
      /\ t = [peer |-> t.peer, in_sync |-> t.in_sync, sync_pending |-> t.sync_pending, out |-> t.out]
  OBVIOUS
<1>2. /\ DOMAIN t.peer = DOMAIN s.peer /\ t.peer[p] = r
      /\ \A q \in DOMAIN s.peer : q # p => t.peer[q] = s.peer[q]
      /\ t.peer = [q \in DOMAIN t.peer |-> t.peer[q]]
  BY <1>1 DEF IsMain
<1>3. IsMain(n, t)
  BY <1>1, <1>2 DEF IsMain
<1>4. Joined(t.out, s.out, Sent(p, r.conn, << >>))
  <2>1. Len(Sent(p, r.conn, << >>)) = 0
    BY DEF Sent
  <2>2. Len(s.out) \in Nat
    BY DEF IsMain
  <2>3. Joined(s.out, s.out, Sent(p, r.conn, << >>))
    BY <2>1, <2>2, JoinedNone
  <2> QED BY <1>1, <2>3
<1> QED BY <1>1, <1>2, <1>3, <1>4 DEF Effect

\* A message is sent.
LEMMA Send ==
  ASSUME NEW n, NEW s, IsMain(n, s), NEW p \in DOMAIN s.peer, NEW type \in MsgTypes \ {"CONNECTED"},
         type = "CONNECT_TO" => p[2] = 0
  PROVE  Effect(n, s, SendToChild(s, p, type), p, s.peer[p], s.sync_pending, <<type>>)
<1> DEFINE e == [id |-> p, type |-> type, conn |-> s.peer[p].conn]
           o == Append(s.out, e)
           t == SendToChild(s, p, type)
<1>1. t = [peer |-> s.peer, in_sync |-> s.in_sync, sync_pending |-> s.sync_pending, out |-> o]
  <2>1. s = [peer |-> s.peer, in_sync |-> s.in_sync, sync_pending |-> s.sync_pending, out |-> s.out]
    BY DEF IsMain
  <2>2. PICK a, b, c, d : /\ a = s.peer /\ b = s.in_sync /\ c = s.sync_pending /\ d = o
    OBVIOUS
  <2>3. t = [s EXCEPT !.out = d]
    BY <2>2 DEF SendToChild
  <2>4. t = [peer |-> a, in_sync |-> b, sync_pending |-> c, out |-> d]
    BY <2>1, <2>2, <2>3
  <2> QED BY <2>2, <2>4
<1>2. e \in Msgs /\ e = Msg(p, type, s.peer[p].conn) /\ e.id = p /\ e.type = type
  BY DEF IsMain, Msgs, PeerSet, Msg
<1> HIDE DEF e
<1>3. /\ o \in Seq(Msgs) /\ Len(s.out) \in Nat /\ Len(o) = Len(s.out) + 1 /\ o[Len(s.out) + 1] = e
      /\ \A i \in 1 .. Len(s.out) : o[i] = s.out[i]
  BY <1>2 DEF IsMain
<1> HIDE DEF o, t
<1>4. /\ t.peer = s.peer /\ t.in_sync = s.in_sync /\ t.sync_pending = s.sync_pending /\ t.out = o
      /\ t = [peer |-> t.peer, in_sync |-> t.in_sync, sync_pending |-> t.sync_pending, out |-> t.out]
  BY <1>1
<1>5. \A i \in 1 .. Len(o) : /\ o[i].id \in DOMAIN s.peer /\ o[i].type # "CONNECTED"
                             /\ o[i].type = "CONNECT_TO" => o[i].id[2] = 0
  <2> SUFFICES ASSUME NEW i \in 1 .. Len(o)
               PROVE  /\ o[i].id \in DOMAIN s.peer /\ o[i].type # "CONNECTED"
                      /\ o[i].type = "CONNECT_TO" => o[i].id[2] = 0
    OBVIOUS
  <2>1. CASE i \in 1 .. Len(s.out)
    BY <1>3, <2>1 DEF IsMain
  <2>2. CASE i = Len(s.out) + 1
    BY <1>2, <1>3, <2>2
  <2> QED BY <1>3, <2>1, <2>2
<1>6. IsMain(n, t)
  BY <1>3, <1>4, <1>5 DEF IsMain
<1>7. Joined(t.out, s.out, Sent(p, s.peer[p].conn, <<type>>))
  <2>1. Len(<<type>>) = 1 /\ <<type>>[1] = type
    OBVIOUS
  <2>2. /\ Len(Sent(p, s.peer[p].conn, <<type>>)) = 1
        /\ Sent(p, s.peer[p].conn, <<type>>)[1] = e
    BY <1>2, <2>1 DEF Sent
  <2>3. More(o, s.out, e)
    BY <1>3 DEF More
  <2>4. Joined(o, s.out, Sent(p, s.peer[p].conn, <<type>>))
    BY <2>2, <2>3, JoinedOne
  <2> QED BY <1>4, <2>4
<1> QED BY <1>4, <1>6, <1>7 DEF Effect, t

\* One after the other.
LEMMA JoinTwice ==
  ASSUME NEW O, NEW W, NEW V, NEW x, NEW y, NEW z, Joined(W, O, x), Joined(V, W, y), Joined(z, x, y)
  PROVE  Joined(V, O, z)
<1>1. /\ Len(O) \in Nat /\ Len(x) \in Nat /\ Len(W) = Len(O) + Len(x)
      /\ \A i \in 1 .. Len(O) : W[i] = O[i]
      /\ \A i \in 1 .. Len(x) : W[Len(O) + i] = x[i]
  BY DEF Joined
<1>2. /\ Len(y) \in Nat /\ Len(V) = Len(W) + Len(y)
      /\ \A i \in 1 .. Len(W) : V[i] = W[i]
      /\ \A i \in 1 .. Len(y) : V[Len(W) + i] = y[i]
  BY DEF Joined
<1>3. /\ Len(z) = Len(x) + Len(y)
      /\ \A i \in 1 .. Len(x) : z[i] = x[i]
      /\ \A i \in 1 .. Len(y) : z[Len(x) + i] = y[i]
  BY DEF Joined
<1>4. \A i \in 1 .. Len(O) : V[i] = O[i]
  BY <1>1, <1>2
<1>5. ASSUME NEW i \in 1 .. Len(z)
      PROVE  V[Len(O) + i] = z[i]
  <2>1. CASE i \in 1 .. Len(x)
    <3>1. Len(O) + i \in 1 .. Len(W)
      BY <1>1, <2>1
    <3> QED BY <1>1, <1>2, <1>3, <2>1, <3>1
  <2>2. CASE i > Len(x)
    <3>1. PICK j \in 1 .. Len(y) : i = Len(x) + j
      <4>1. i - Len(x) \in 1 .. Len(y) /\ i = Len(x) + (i - Len(x))
        BY <1>1, <1>2, <1>3, <2>2
      <4> QED BY <4>1
    <3>2. Len(O) + i = Len(W) + j
      BY <1>1, <1>2, <3>1
    <3> QED BY <1>2, <1>3, <3>1, <3>2
  <2> QED BY <1>1, <1>2, <1>3, <2>1, <2>2
<1> QED BY <1>1, <1>2, <1>3, <1>4, <1>5 DEF Joined

LEMMA SentTwice ==
  ASSUME NEW p, NEW k, NEW us, NEW ts, NEW vs, Joined(vs, us, ts)
  PROVE  Joined(Sent(p, k, vs), Sent(p, k, us), Sent(p, k, ts))
<1>1. /\ Len(us) \in Nat /\ Len(ts) \in Nat /\ Len(vs) = Len(us) + Len(ts)
      /\ \A i \in 1 .. Len(us) : vs[i] = us[i]
      /\ \A i \in 1 .. Len(ts) : vs[Len(us) + i] = ts[i]
  BY DEF Joined
<1>2. /\ Len(Sent(p, k, us)) = Len(us) /\ Len(Sent(p, k, ts)) = Len(ts) /\ Len(Sent(p, k, vs)) = Len(vs)
      /\ \A i \in 1 .. Len(us) : Sent(p, k, us)[i] = Msg(p, us[i], k)
      /\ \A i \in 1 .. Len(ts) : Sent(p, k, ts)[i] = Msg(p, ts[i], k)
      /\ \A i \in 1 .. Len(vs) : Sent(p, k, vs)[i] = Msg(p, vs[i], k)
  <2>1. Len(vs) \in Nat
    BY <1>1
  <2>2. /\ Len(Sent(p, k, us)) = Len(us)
        /\ \A i \in 1 .. Len(us) : Sent(p, k, us)[i] = Msg(p, us[i], k)
    BY <1>1, SentFacts
  <2>3. /\ Len(Sent(p, k, ts)) = Len(ts)
        /\ \A i \in 1 .. Len(ts) : Sent(p, k, ts)[i] = Msg(p, ts[i], k)
    BY <1>1, SentFacts
  <2>4. /\ Len(Sent(p, k, vs)) = Len(vs)
        /\ \A i \in 1 .. Len(vs) : Sent(p, k, vs)[i] = Msg(p, vs[i], k)
    BY <2>1, SentFacts
  <2> QED BY <2>2, <2>3, <2>4
<1>3. \A i \in 1 .. Len(us) : i \in 1 .. Len(vs)
  BY <1>1
<1>4. \A i \in 1 .. Len(ts) : Len(us) + i \in 1 .. Len(vs)
  BY <1>1
<1> QED BY <1>1, <1>2, <1>3, <1>4 DEF Joined

LEMMA Then ==
  ASSUME NEW n, NEW s, NEW t, NEW u, NEW p, NEW r, NEW r2, NEW v, NEW w, NEW us, NEW ts, NEW vs,
         Effect(n, s, t, p, r, v, us), Effect(n, t, u, p, r2, w, ts), r2.conn = r.conn,
         Joined(vs, us, ts)
  PROVE  Effect(n, s, u, p, r2, w, vs)
<1>1. Joined(Sent(p, r.conn, vs), Sent(p, r.conn, us), Sent(p, r.conn, ts))
  BY SentTwice
<1>2. Joined(t.out, s.out, Sent(p, r.conn, us)) /\ Joined(u.out, t.out, Sent(p, r.conn, ts))
  BY DEF Effect
<1>3. Joined(u.out, s.out, Sent(p, r2.conn, vs))
  BY <1>1, <1>2, JoinTwice
<1> QED BY <1>3 DEF Effect

LEMMA NoiseIn ==
  ASSUME NEW Q, NEW x, NEW V, Joined(V, Q, x), NEW R, NEW hot \in BOOLEAN, InOK(Q, R, hot),
         Foreign(x, R)
  PROVE  InOK(V, R, hot)
<1>1. /\ Len(Q) \in Nat /\ Len(x) \in Nat /\ Len(V) = Len(Q) + Len(x)
      /\ \A i \in 1 .. Len(Q) : V[i] = Q[i]
      /\ \A i \in 1 .. Len(x) : V[Len(Q) + i] = x[i]
  BY DEF Joined
<1>2. ASSUME NEW i \in 1 .. Len(V), V[i] \in R[1] \/ V[i] \in R[3]
      PROVE  i \in 1 .. Len(Q) /\ Q[i] = V[i]
  <2>1. ASSUME i > Len(Q) PROVE FALSE
    <3>1. i - Len(Q) \in 1 .. Len(x) /\ Len(Q) + (i - Len(Q)) = i
      BY <1>1, <2>1
    <3>2. V[i] = x[i - Len(Q)]
      BY <1>1, <3>1
    <3> QED BY <1>2, <3>1, <3>2 DEF Foreign
  <2> QED BY <1>1, <2>1
<1> SUFFICES ASSUME NEW i \in 0 .. Len(V), NEW j \in 1 .. Len(V),
                    HotAt(V, R, hot, i), V[j] \in R[3], i < j
             PROVE  \E m \in 1 .. Len(V) : i < m /\ m < j /\ V[m] \in R[2]
  BY DEF InOK
<1>3. j \in 1 .. Len(Q) /\ Q[j] \in R[3]
  BY <1>2
<1>4. i \in 0 .. Len(Q) /\ HotAt(Q, R, hot, i)
  BY <1>1, <1>2 DEF HotAt
<1>5. PICK m \in 1 .. Len(Q) : i < m /\ m < j /\ Q[m] \in R[2]
  BY <1>3, <1>4 DEF InOK
<1> QED BY <1>1, <1>5

LEMMA NoiseCross ==
  ASSUME NEW Q, NEW x, NEW V, Joined(V, Q, x), NEW R, NEW hot \in BOOLEAN,
         NEW O, NEW T, NEW due \in BOOLEAN, CrossOK(Q, R, hot, O, T, due), Foreign(x, R)
  PROVE  CrossOK(V, R, hot, O, T, due)
<1>1. /\ Len(Q) \in Nat /\ Len(x) \in Nat /\ Len(V) = Len(Q) + Len(x)
      /\ \A i \in 1 .. Len(Q) : V[i] = Q[i]
      /\ \A i \in 1 .. Len(x) : V[Len(Q) + i] = x[i]
  BY DEF Joined
<1>2. ASSUME NEW i \in 1 .. Len(V), V[i] \in R[1]
      PROVE  i \in 1 .. Len(Q) /\ Q[i] = V[i]
  <2>1. ASSUME i > Len(Q) PROVE FALSE
    <3>1. i - Len(Q) \in 1 .. Len(x) /\ Len(Q) + (i - Len(Q)) = i
      BY <1>1, <2>1
    <3>2. V[i] = x[i - Len(Q)]
      BY <1>1, <3>1
    <3> QED BY <1>2, <3>1, <3>2 DEF Foreign
  <2> QED BY <1>1, <2>1
<1> SUFFICES ASSUME NEW i \in 0 .. Len(V), NEW j \in 1 .. Len(O) + 1,
                    HotAt(V, R, hot, i), DueAt(O, T, due, j),
                    ~ \E m \in 1 .. Len(O) : m < j /\ O[m] \in T[2]
             PROVE  \E m \in 1 .. Len(V) : i < m /\ V[m] \in R[2]
  BY DEF CrossOK
<1>3. i \in 0 .. Len(Q) /\ HotAt(Q, R, hot, i)
  BY <1>1, <1>2 DEF HotAt
<1>4. PICK m \in 1 .. Len(Q) : i < m /\ Q[m] \in R[2]
  BY <1>3 DEF CrossOK
<1> QED BY <1>1, <1>4

LEMMA ForeignOut ==
  ASSUME NEW x, Len(x) \in Nat, NEW T, Foreign(x, T), NEW due \in BOOLEAN
  PROVE  OutOK(x, T, due) /\ Led(x, T, due, due)
BY DEF Foreign, OutOK, Led, DueAt

LEMMA NoiseOut ==
  ASSUME NEW O, NEW x, NEW W, Joined(W, O, x), NEW T, NEW due \in BOOLEAN, OutOK(O, T, due),
         Foreign(x, T)
  PROVE  OutOK(W, T, due)
<1>1. Len(x) \in Nat
  BY DEF Joined
<1> QED BY <1>1, ForeignOut, SendOut

LEMMA SetsFacts ==
  ASSUME NEW g, NEW p
  PROVE  /\ Sets(g, p)[1] = Kind(p, g.a, g.k) /\ Sets(g, p)[2] = Kind(p, g.b, g.k)
         /\ Sets(g, p)[3] = Kind(p, g.z, g.k)
         /\ Types(g)[1] = g.a /\ Types(g)[2] = g.b /\ Types(g)[3] = g.z
BY DEF Sets, Types

\* Messages of another peer, and those that are not for the other side.
LEMMA ForeignFacts ==
  ASSUME NEW g \in RuleSet, NEW p, NEW m, m.id # p \/ m.type \notin PeerMsgs
  PROVE  m \notin Sets(g, p)[1] /\ m \notin Sets(g, p)[2] /\ m \notin Sets(g, p)[3]
<1>1. ASSUME NEW types \in SUBSET PeerMsgs PROVE m \notin Kind(p, types, g.k)
  BY DEF Kind
<1>2. g.a \in SUBSET PeerMsgs /\ g.b \in SUBSET PeerMsgs /\ g.z \in SUBSET PeerMsgs
  BY DEF RuleSet
<1> QED BY <1>1, <1>2, SetsFacts

\* What p sends follows the rule if the types do.
LEMMA SentOK ==
  ASSUME NEW g \in RuleSet, NEW p \in Ids, NEW k \in 0 .. MaxConns, NEW ts, AreTypes(ts),
         NEW due \in BOOLEAN, NEW due1 \in BOOLEAN,
         IF k \in g.k THEN OutOK(ts, Types(g), due1) /\ Led(ts, Types(g), due, due1)
                      ELSE due1 => due
  PROVE  OutOK(Sent(p, k, ts), Sets(g, p), due1) /\ Led(Sent(p, k, ts), Sets(g, p), due, due1)
<1> DEFINE x == Sent(p, k, ts)
           S == Sets(g, p)
           Y == Types(g)
<1>1. Len(ts) \in Nat /\ Len(x) = Len(ts) /\ \A i \in 1 .. Len(ts) : x[i] = Msg(p, ts[i], k)
  BY SentFacts DEF AreTypes
<1>2. ASSUME NEW i \in 1 .. Len(ts), NEW types
      PROVE  x[i] \in Kind(p, types, g.k) <=> ts[i] \in types /\ k \in g.k
  <2>1. x[i] \in Msgs /\ x[i].id = p /\ x[i].type = ts[i] /\ x[i].conn = k
    <3>1. ts[i] \in MsgTypes
      BY DEF AreTypes
    <3>2. x[i] = [id |-> p, type |-> ts[i], conn |-> k]
      BY <1>1 DEF Msg
    <3> HIDE DEF x
    <3> QED BY <3>1, <3>2 DEF Msgs
  <2> QED BY <2>1 DEF Kind
<1>3. \A i \in 1 .. Len(ts) : /\ x[i] \in S[1] <=> ts[i] \in Y[1] /\ k \in g.k
                              /\ x[i] \in S[2] <=> ts[i] \in Y[2] /\ k \in g.k
                              /\ x[i] \in S[3] <=> ts[i] \in Y[3] /\ k \in g.k
  BY <1>2, SetsFacts
<1> HIDE DEF x, S, Y
<1>4. CASE k \in g.k
  <2>1. \A i \in 1 .. Len(ts) : /\ x[i] \in S[1] <=> ts[i] \in Y[1]
                                /\ x[i] \in S[2] <=> ts[i] \in Y[2]
                                /\ x[i] \in S[3] <=> ts[i] \in Y[3]
    BY <1>3, <1>4
  <2>2. \A j : DueAt(x, S, due1, j) <=> DueAt(ts, Y, due1, j)
    BY <1>1, <2>1 DEF DueAt
  <2>3. OutOK(ts, Y, due1) /\ Led(ts, Y, due, due1)
    BY <1>4 DEF Y
  <2>4. OutOK(x, S, due1)
    BY <1>1, <2>1, <2>2, <2>3 DEF OutOK
  <2>5. Led(x, S, due, due1)
    BY <1>1, <2>1, <2>2, <2>3 DEF Led
  <2> QED BY <2>4, <2>5 DEF x, S
<1>5. CASE k \notin g.k
  <2>1. Foreign(x, S)
    BY <1>1, <1>3, <1>5 DEF Foreign
  <2>2. OutOK(x, S, due1)
    BY <1>1, <2>1, ForeignOut
  <2>3. Led(x, S, due, due1)
    BY <1>1, <1>5, <2>1 DEF Led, DueAt, Foreign
  <2> QED BY <2>2, <2>3 DEF x, S
<1> QED BY <1>4, <1>5

LEMMA SentForeign ==
  ASSUME NEW g \in RuleSet, NEW p, NEW q, q # p, NEW k, NEW ts, Len(ts) \in Nat
  PROVE  Foreign(Sent(p, k, ts), Sets(g, q))
<1>1. Len(Sent(p, k, ts)) = Len(ts) /\ \A i \in 1 .. Len(ts) : Sent(p, k, ts)[i].id = p
  <2>1. Len(Sent(p, k, ts)) = Len(ts) /\ \A i \in 1 .. Len(ts) : Sent(p, k, ts)[i] = Msg(p, ts[i], k)
    BY SentFacts
  <2>2. \A type : Msg(p, type, k).id = p
    BY DEF Msg
  <2> QED BY <2>1, <2>2
<1>2. \A i \in 1 .. Len(ts) : /\ Sent(p, k, ts)[i] \notin Sets(g, q)[1]
                              /\ Sent(p, k, ts)[i] \notin Sets(g, q)[2]
                              /\ Sent(p, k, ts)[i] \notin Sets(g, q)[3]
  BY <1>1, ForeignFacts
<1> QED BY <1>1, <1>2 DEF Foreign

LEMMA MainFacts ==
  ASSUME NEW n, NEW s, IsMain(n, s)
  PROVE  /\ s = [peer |-> s.peer, in_sync |-> s.in_sync, sync_pending |-> s.sync_pending, out |-> s.out]
         /\ s.sync_pending \in Seq(Ids)
         /\ \A i \in 1 .. Len(s.sync_pending) : s.sync_pending[i] \in DOMAIN s.peer
         /\ \A p \in DOMAIN s.peer : p \in Ids /\ Owner(p) = n /\ s.peer[p] \in PeerSet
         /\ s.out \in Seq(Msgs)
BY DEF IsMain

LEMMA JoinedSelf ==
  ASSUME NEW ts, Len(ts) \in Nat
  PROVE  Joined(ts, << >>, ts) /\ Joined(ts, ts, << >>)
<1>1. Len(<< >>) = 0
  OBVIOUS
<1> QED BY <1>1 DEF Joined

LEMMA Change ==
  ASSUME NEW n, NEW s, IsMain(n, s), NEW p \in DOMAIN s.peer, NEW r \in PeerSet,
         NEW t, t = [s EXCEPT !.peer = [s.peer EXCEPT ![p] = r]]
  PROVE  Effect(n, s, t, p, r, s.sync_pending, << >>)
<1>1. s = [peer |-> s.peer, in_sync |-> s.in_sync, sync_pending |-> s.sync_pending, out |-> s.out]
  BY MainFacts
<1>2. t = [peer |-> [s.peer EXCEPT ![p] = r], in_sync |-> s.in_sync,
           sync_pending |-> s.sync_pending, out |-> s.out]
  BY <1>1
<1> QED BY <1>2, MainFacts, Put

\* The peer that is synchronized, and those who wait.
LEMMA SetSync ==
  ASSUME NEW n, NEW s, IsMain(n, s), NEW p \in DOMAIN s.peer, NEW v, NEW t, t = [s EXCEPT !.in_sync = v]
  PROVE  Effect(n, s, t, p, s.peer[p], s.sync_pending, << >>)
<1>1. s = [peer |-> s.peer, in_sync |-> s.in_sync, sync_pending |-> s.sync_pending, out |-> s.out]
  BY MainFacts
<1>2. s.peer = [s.peer EXCEPT ![p] = s.peer[p]]
  BY DEF IsMain
<1>3. t = [peer |-> s.peer, in_sync |-> v, sync_pending |-> s.sync_pending, out |-> s.out]
  BY <1>1
<1>4. t = [peer |-> [s.peer EXCEPT ![p] = s.peer[p]], in_sync |-> v,
           sync_pending |-> s.sync_pending, out |-> s.out]
  BY <1>2, <1>3
<1> QED BY <1>4, MainFacts, Put

LEMMA SetPending ==
  ASSUME NEW n, NEW s, IsMain(n, s), NEW p \in DOMAIN s.peer, NEW w \in Seq(Ids),
         \A i \in 1 .. Len(w) : w[i] \in DOMAIN s.peer, NEW t, t = [s EXCEPT !.sync_pending = w]
  PROVE  Effect(n, s, t, p, s.peer[p], w, << >>)
<1>1. s = [peer |-> s.peer, in_sync |-> s.in_sync, sync_pending |-> s.sync_pending, out |-> s.out]
  BY MainFacts
<1>2. s.peer = [s.peer EXCEPT ![p] = s.peer[p]]
  BY DEF IsMain
<1>3. t = [peer |-> s.peer, in_sync |-> s.in_sync, sync_pending |-> w, out |-> s.out]
  BY <1>1
<1>4. t = [peer |-> [s.peer EXCEPT ![p] = s.peer[p]], in_sync |-> s.in_sync,
           sync_pending |-> w, out |-> s.out]
  BY <1>2, <1>3
<1> QED BY <1>4, MainFacts, Put

LEMMA After ==
  ASSUME NEW n, NEW s, NEW t, NEW p, NEW r, NEW w, NEW ts, Effect(n, s, t, p, r, w, ts)
  PROVE  IsMain(n, t) /\ p \in DOMAIN t.peer /\ t.peer[p] = r /\ t.sync_pending = w
BY DEF Effect

\* A change of the record and then one that sends; the other way round.
LEMMA ChangeThen ==
  ASSUME NEW n, NEW s, NEW t, NEW u, NEW p, NEW r, NEW r2, NEW v, NEW w, NEW ts, Len(ts) \in Nat,
         Effect(n, s, t, p, r, v, << >>), Effect(n, t, u, p, r2, w, ts), r2.conn = r.conn
  PROVE  Effect(n, s, u, p, r2, w, ts)
BY JoinedSelf, Then

LEMMA ThenChange ==
  ASSUME NEW n, NEW s, NEW t, NEW u, NEW p, NEW r, NEW r2, NEW v, NEW w, NEW ts, Len(ts) \in Nat,
         Effect(n, s, t, p, r, v, ts), Effect(n, t, u, p, r2, w, << >>), r2.conn = r.conn
  PROVE  Effect(n, s, u, p, r2, w, ts)
BY JoinedSelf, Then

LEMMA CloseEffect ==
  ASSUME NEW n, NEW s, IsMain(n, s), NEW p \in DOMAIN s.peer
  PROVE  Effect(n, s, CloseConnection(s, p), p, Closed(s.peer[p]), s.sync_pending,
                CloseMsgs(s.peer[p]))
<1> DEFINE r == s.peer[p]
           s1 == [s EXCEPT !.peer[p].suspended = FALSE]
           s2 == [s1 EXCEPT !.peer[p].state = "CLOSING"]
           r1 == [r EXCEPT !.suspended = FALSE]
<1>1. r \in PeerSet
  BY MainFacts
<1>2. r1 \in PeerSet /\ Closed(r) = [r1 EXCEPT !.state = "CLOSING"]
  BY <1>1 DEF PeerSet, Closed
<1>3. Effect(n, s, s1, p, r1, s.sync_pending, << >>)
  BY <1>2, Change
<1>4. Closed(r) \in PeerSet /\ Closed(r).conn = r.conn /\ r1.conn = r.conn
  BY <1>1 DEF PeerSet, Closed, States
<1>5. CASE r.state = "CLOSING"
  <2>1. r1 = Closed(r)
    BY <1>1, <1>5 DEF PeerSet, Closed
  <2>2. CloseConnection(s, p) = s1
    BY <1>5 DEF CloseConnection
  <2> QED BY <1>3, <1>5, <2>1, <2>2 DEF CloseMsgs
<1>6. CASE r.state # "CLOSING"
  <2>1. CloseConnection(s, p) = SendToChild(s2, p, "CLOSE")
    BY <1>6 DEF CloseConnection
  <2> HIDE DEF s1
  <2>2. IsMain(n, s1) /\ p \in DOMAIN s1.peer /\ s1.peer[p] = r1 /\ s1.sync_pending = s.sync_pending
    BY <1>3, After
  <2> HIDE DEF r1
  <2>3. s2 = [s1 EXCEPT !.peer = [s1.peer EXCEPT ![p] = Closed(r)]]
    BY <1>2, <2>2
  <2> HIDE DEF s2
  <2>4. Effect(n, s1, s2, p, Closed(r), s.sync_pending, << >>)
    BY <1>4, <2>2, <2>3, Change
  <2>5. IsMain(n, s2) /\ p \in DOMAIN s2.peer /\ s2.peer[p] = Closed(r) /\ s2.sync_pending = s.sync_pending
    BY <2>4, After
  <2>6. Effect(n, s2, SendToChild(s2, p, "CLOSE"), p, Closed(r), s.sync_pending, <<"CLOSE">>)
    <3>1. "CLOSE" \in MsgTypes \ {"CONNECTED"}
      BY DEF MsgTypes
    <3> QED BY <2>5, <3>1, Send
  <2>7. Effect(n, s1, SendToChild(s2, p, "CLOSE"), p, Closed(r), s.sync_pending, <<"CLOSE">>)
    BY <1>4, <2>4, <2>6, ChangeThen
  <2>8. Effect(n, s, SendToChild(s2, p, "CLOSE"), p, Closed(r), s.sync_pending, <<"CLOSE">>)
    BY <1>3, <1>4, <2>7, ChangeThen
  <2> QED BY <1>6, <2>1, <2>8 DEF CloseMsgs
<1> QED BY <1>5, <1>6

\* A step that only sends.
LEMMA SendOne ==
  ASSUME NEW n, NEW s, IsMain(n, s), NEW p \in DOMAIN s.peer, NEW type \in PeerMsgs
  PROVE  Effect(n, s, SendToChild(s, p, type), p, s.peer[p], s.sync_pending, <<type>>)
<1>1. type \in MsgTypes \ {"CONNECTED"} /\ type # "CONNECT_TO"
  BY DEF MsgTypes, PeerMsgs
<1> QED BY <1>1, Send

LEMMA LeaveEffect ==
  ASSUME NEW n, NEW s, IsMain(n, s), NEW p \in DOMAIN s.peer
  PROVE  Effect(n, s, LeaveSync(s, p), p, s.peer[p], s.sync_pending, << >>)
<1>1. CASE s.in_sync = p
  BY <1>1, SetSync DEF LeaveSync
<1>2. CASE s.in_sync # p
  <2>1. s = [s EXCEPT !.in_sync = s.in_sync]
    BY MainFacts
  <2> QED BY <1>2, <2>1, SetSync DEF LeaveSync
<1> QED BY <1>1, <1>2

LEMMA RunningEffect ==
  ASSUME NEW n, NEW s, IsMain(n, s), NEW p \in DOMAIN s.peer
  PROVE  Effect(n, s, EnterPhaseRunning(s, p), p, [s.peer[p] EXCEPT !.phase = "RUNNING"],
                s.sync_pending, << >>)
<1> DEFINE r == s.peer[p]
           r1 == [r EXCEPT !.phase = "RUNNING"]
           s1 == LeaveSync(s, p)
<1>1. r \in PeerSet
  BY MainFacts
<1>2. r1 \in PeerSet /\ r1.conn = r.conn
  BY <1>1 DEF PeerSet, Phases
<1>3. Effect(n, s, s1, p, r, s.sync_pending, << >>)
  BY LeaveEffect
<1>4. EnterPhaseRunning(s, p) = [s1 EXCEPT !.peer[p].phase = "RUNNING"]
  BY DEF EnterPhaseRunning
<1> HIDE DEF s1
<1>5. IsMain(n, s1) /\ p \in DOMAIN s1.peer /\ s1.peer[p] = r /\ s1.sync_pending = s.sync_pending
  BY <1>3, After
<1> HIDE DEF r
<1>6. EnterPhaseRunning(s, p) = [s1 EXCEPT !.peer = [s1.peer EXCEPT ![p] = r1]]
  BY <1>4, <1>5
<1> HIDE DEF r1
<1>7. Effect(n, s1, EnterPhaseRunning(s, p), p, r1, s.sync_pending, << >>)
  BY <1>2, <1>5, <1>6, Change
<1>8. Effect(n, s, EnterPhaseRunning(s, p), p, r1, s.sync_pending, << >>)
  <2>1. Len(<< >>) \in Nat
    OBVIOUS
  <2> QED BY <1>2, <1>3, <1>7, <2>1, ChangeThen
<1> QED BY <1>8 DEF r1, r

LEMMA SyncEffect ==
  ASSUME NEW n, NEW s, IsMain(n, s), NEW p \in DOMAIN s.peer, NEW send \in BOOLEAN
  PROVE  Effect(n, s, InSync(s, p, send), p, [s.peer[p] EXCEPT !.phase = "SYNC", !.send_state = send],
                s.sync_pending, << >>)
<1> DEFINE r == s.peer[p]
           s1 == [s EXCEPT !.in_sync = p]
           r2 == [r EXCEPT !.phase = "SYNC"]
           s2 == [s1 EXCEPT !.peer = [s1.peer EXCEPT ![p] = r2]]
           r3 == [r2 EXCEPT !.send_state = send]
           t == InSync(s, p, send)
<1>0. Len(<< >>) \in Nat
  OBVIOUS
<1>1. r \in PeerSet
  BY MainFacts
<1>2. /\ r2 \in PeerSet /\ r2.conn = r.conn /\ r3 \in PeerSet /\ r3.conn = r.conn
      /\ r3 = [s.peer[p] EXCEPT !.phase = "SYNC", !.send_state = send] /\ r3.conn = r2.conn
  BY <1>1 DEF PeerSet, Phases
<1>3. Effect(n, s, s1, p, r, s.sync_pending, << >>)
  BY SetSync
<1>4. IsMain(n, s1) /\ p \in DOMAIN s1.peer /\ s1.peer[p] = r /\ s1.sync_pending = s.sync_pending
  BY <1>3, After
<1>5. t = [[s1 EXCEPT !.peer[p].phase = "SYNC"] EXCEPT !.peer[p].send_state = send]
  BY DEF InSync
<1> HIDE DEF s1, t
<1>6. [s1 EXCEPT !.peer[p].phase = "SYNC"] = s2
  BY <1>4
<1>7. Effect(n, s1, s2, p, r2, s.sync_pending, << >>)
  BY <1>2, <1>4, Change
<1>9. t = [s2 EXCEPT !.peer[p].send_state = send]
  BY <1>5, <1>6
<1> HIDE DEF s2
<1>8. IsMain(n, s2) /\ p \in DOMAIN s2.peer /\ s2.peer[p] = r2 /\ s2.sync_pending = s.sync_pending
  BY <1>7, After
<1>10. t = [s2 EXCEPT !.peer = [s2.peer EXCEPT ![p] = r3]]
  BY <1>8, <1>9
<1> HIDE DEF r2, r3, r
<1>11. Effect(n, s2, t, p, r3, s.sync_pending, << >>)
  BY <1>2, <1>8, <1>10, Change
<1>14. r3.conn = r2.conn /\ r3.conn = r.conn
  BY <1>2
<1>12. Effect(n, s1, t, p, r3, s.sync_pending, << >>)
  BY <1>0, <1>14, <1>7, <1>11, ChangeThen
<1>13. Effect(n, s, t, p, r3, s.sync_pending, << >>)
  BY <1>0, <1>14, <1>3, <1>12, ChangeThen
<1> QED BY <1>2, <1>13 DEF t

LEMMA AllSynchronizedEffect ==
  ASSUME NEW n, NEW s, IsMain(n, s), NEW p \in DOMAIN s.peer
  PROVE  Effect(n, s, SendAllSynchronized(s, p), p, [s.peer[p] EXCEPT !.phase = "RUNNING"],
                s.sync_pending, <<"SERIAL", "PHASE_DONE">>)
<1> DEFINE s1 == SendToChild(s, p, "SERIAL")
           s2 == SendToChild(s1, p, "PHASE_DONE")
           t == EnterPhaseRunning(s2, p)
           r == s.peer[p]
           r1 == [r EXCEPT !.phase = "RUNNING"]
<1>0. t = SendAllSynchronized(s, p)
  BY DEF SendAllSynchronized
<1>1. "SERIAL" \in PeerMsgs /\ "PHASE_DONE" \in PeerMsgs
  BY DEF PeerMsgs
<1>2. r \in PeerSet
  BY MainFacts
<1>3. r1.conn = r.conn
  BY <1>2 DEF PeerSet
<1>4. Effect(n, s, s1, p, r, s.sync_pending, <<"SERIAL">>)
  BY <1>1, SendOne
<1>5. IsMain(n, s1) /\ p \in DOMAIN s1.peer /\ s1.peer[p] = r /\ s1.sync_pending = s.sync_pending
  BY <1>4, After
<1> HIDE DEF s1
<1>6. Effect(n, s1, s2, p, r, s.sync_pending, <<"PHASE_DONE">>)
  BY <1>1, <1>5, SendOne
<1>7. IsMain(n, s2) /\ p \in DOMAIN s2.peer /\ s2.peer[p] = r /\ s2.sync_pending = s.sync_pending
  BY <1>6, After
<1> HIDE DEF s2
<1>8. Effect(n, s2, t, p, r1, s.sync_pending, << >>)
  BY <1>7, RunningEffect
<1>9. Joined(<<"SERIAL", "PHASE_DONE">>, <<"SERIAL">>, <<"PHASE_DONE">>)
  BY DEF Joined
<1> HIDE DEF t, r1, r
<1>10. Effect(n, s, s2, p, r, s.sync_pending, <<"SERIAL", "PHASE_DONE">>)
  BY <1>4, <1>6, <1>9, Then
<1>11. Len(<<"SERIAL", "PHASE_DONE">>) \in Nat
  OBVIOUS
<1>12. Effect(n, s, t, p, r1, s.sync_pending, <<"SERIAL", "PHASE_DONE">>)
  BY <1>3, <1>8, <1>10, <1>11, ThenChange
<1> QED BY <1>0, <1>12 DEF r1, r

LEMMA HandshakeEffect ==
  ASSUME NEW n, NEW s, IsMain(n, s), NEW p \in DOMAIN s.peer, SendState(s.peer[p], p) \in BOOLEAN
  PROVE  \E r1, w, ts : /\ Effect(n, s, HandshakeDone(s, p), p, r1, w, ts)
                        /\ Decided(p, s.peer[p], r1, ts) /\ Queued(s, w, p, r1)
<1> DEFINE r == s.peer[p]
           send == SendState(r, p)
           sync == [s EXCEPT !.in_sync = p, !.peer[p].phase = "SYNC", !.peer[p].send_state = send]
           rs == [r EXCEPT !.phase = "SYNC", !.send_state = send]
           both == {"AUTH_WE", "AUTH_PEER"} \subseteq r.sync_requested
           t == HandshakeDone(s, p)
<1>0. r \in PeerSet /\ \A r1 : Queued(s, s.sync_pending, p, r1)
  BY MainFacts DEF Queued
<1>1. CASE r.sync_requested = {}
  <2>1. t = EnterPhaseRunning(s, p)
    BY <1>1 DEF HandshakeDone
  <2>2. Effect(n, s, t, p, [r EXCEPT !.phase = "RUNNING"], s.sync_pending, << >>)
    BY <2>1, RunningEffect
  <2>3. Decided(p, r, [r EXCEPT !.phase = "RUNNING"], << >>)
    BY <1>0, <1>1 DEF PeerSet, Phases, Decided, Keeps
  <2> QED BY <1>0, <2>2, <2>3
<1>2. CASE r.sync_requested # {} /\ s.in_sync # None
  <2> DEFINE w == Append(s.sync_pending, p)
  <2>1. t = [s EXCEPT !.sync_pending = w]
    BY <1>2 DEF HandshakeDone
  <2>2. /\ w \in Seq(Ids) /\ \A i \in 1 .. Len(w) : w[i] \in DOMAIN s.peer
        /\ More(w, s.sync_pending, p)
    <3>1. s.sync_pending \in Seq(Ids) /\ p \in Ids
      BY MainFacts
    <3>2. /\ w \in Seq(Ids) /\ Len(w) = Len(s.sync_pending) + 1 /\ Len(s.sync_pending) \in Nat
          /\ \A i \in 1 .. Len(s.sync_pending) : w[i] = s.sync_pending[i]
          /\ w[Len(s.sync_pending) + 1] = p
      BY <3>1
    <3> HIDE DEF w
    <3>3. \A i \in 1 .. Len(w) : w[i] \in DOMAIN s.peer
      BY <3>2, MainFacts
    <3> QED BY <3>2, <3>3 DEF More
  <2> HIDE DEF w
  <2>3. Effect(n, s, t, p, r, w, << >>)
    BY <2>1, <2>2, SetPending
  <2>4. Decided(p, r, r, << >>)
    BY <1>0 DEF Decided, Keeps
  <2>5. Queued(s, w, p, r)
    BY <1>2, <2>2 DEF Queued
  <2> QED BY <2>3, <2>4, <2>5
<1>3. CASE r.sync_requested # {} /\ s.in_sync = None /\ both
  <2>1. t = CloseConnection(s, p)
    BY <1>3 DEF HandshakeDone
  <2>2. Effect(n, s, t, p, Closed(r), s.sync_pending, CloseMsgs(r))
    BY <2>1, CloseEffect
  <2>3. Decided(p, r, Closed(r), CloseMsgs(r))
    <3>1. Keeps(r, Closed(r)) /\ Closed(r).state = "CLOSING" /\ Closed(r).phase = r.phase
      BY <1>0 DEF PeerSet, States, Keeps, Closed
    <3>2. CloseMsgs(r) \in {<< >>, <<"CLOSE">>}
      BY DEF CloseMsgs
    <3> QED BY <1>3, <3>1, <3>2 DEF Decided
  <2> QED BY <1>0, <2>2, <2>3
<1>4. Effect(n, s, sync, p, rs, s.sync_pending, << >>)
  <2>1. sync = InSync(s, p, send)
    BY DEF InSync
  <2> HIDE DEF sync
  <2> QED BY <2>1, SyncEffect
<1>5. IsMain(n, sync) /\ p \in DOMAIN sync.peer /\ sync.peer[p] = rs /\ sync.sync_pending = s.sync_pending
  <2> HIDE DEF sync, rs
  <2> QED BY <1>4, After
<1>6. rs \in PeerSet /\ rs.conn = r.conn
  BY <1>0 DEF PeerSet, Phases
<1>7. CASE r.sync_requested # {} /\ s.in_sync = None /\ ~ both /\ send
  <2> DEFINE r1 == [rs EXCEPT !.phase = "RUNNING"]
             ts == <<"SERIAL", "PHASE_DONE">>
  <2>1. t = SendAllSynchronized(sync, p)
    BY <1>7 DEF HandshakeDone
  <2>2. r1.conn = rs.conn /\ Len(ts) \in Nat
    BY <1>6 DEF PeerSet
  <2>3. Decided(p, r, r1, ts)
    BY <1>0, <1>7 DEF PeerSet, Phases, Decided, Keeps
  <2> HIDE DEF sync
  <2>4. Effect(n, sync, SendAllSynchronized(sync, p), p, [sync.peer[p] EXCEPT !.phase = "RUNNING"],
               sync.sync_pending, <<"SERIAL", "PHASE_DONE">>)
    BY <1>5, AllSynchronizedEffect
  <2> HIDE DEF rs
  <2>5. Effect(n, sync, t, p, r1, s.sync_pending, ts)
    BY <1>5, <2>1, <2>4
  <2> HIDE DEF r1, ts, t
  <2>6. Effect(n, s, t, p, r1, s.sync_pending, ts)
    BY <1>4, <2>2, <2>5, ChangeThen
  <2> QED BY <1>0, <2>3, <2>6 DEF t
<1>8. CASE r.sync_requested # {} /\ s.in_sync = None /\ ~ both /\ ~ send
  <2> DEFINE r1 == [rs EXCEPT !.suspended = TRUE]
  <2>1. t = [sync EXCEPT !.peer[p].suspended = TRUE]
    BY <1>8 DEF HandshakeDone
  <2>2. r1 \in PeerSet /\ r1.conn = rs.conn /\ Len(<< >>) \in Nat
    BY <1>6 DEF PeerSet
  <2>3. Decided(p, r, r1, << >>)
    BY <1>0, <1>8 DEF PeerSet, Phases, Decided, Keeps
  <2> HIDE DEF sync, rs
  <2>4. t = [sync EXCEPT !.peer = [sync.peer EXCEPT ![p] = r1]]
    BY <1>5, <2>1
  <2> HIDE DEF t, r1
  <2>5. Effect(n, sync, t, p, r1, s.sync_pending, << >>)
    BY <1>5, <2>2, <2>4, Change
  <2>6. Effect(n, s, t, p, r1, s.sync_pending, << >>)
    BY <1>4, <2>2, <2>5, ChangeThen
  <2> QED BY <1>0, <2>3, <2>6 DEF t
<1> QED BY <1>1, <1>2, <1>3, <1>7, <1>8

LEMMA IdFacts ==
  ASSUME NEW p \in Ids
  PROVE  /\ Owner(p) \in Nodes /\ Other(p) \in Nodes /\ Owner(p) # Other(p)
         /\ p[1] \in Links /\ p[2] \in 0 .. MaxConns /\ p = <<p[1], p[2]>>
<1>1. p[1] \in Links /\ p[2] \in 0 .. MaxConns /\ p = <<p[1], p[2]>>
  BY DEF Ids
<1>2. p[1] \in Nodes \X Nodes /\ p[1][1] # p[1][2]
  BY <1>1, ConstantsAssumption DEF Links, ConfigType
<1> QED BY <1>1, <1>2 DEF Owner, Other

LEMMA TimeType ==
  ASSUME NEW p \in Ids, NEW k \in 0 .. MaxConns, cf \in Configs
  PROVE  OurTime(p, k) \in Nat /\ TheirTime(p, k) \in Nat
<1>1. p[1] \in Nodes \X Nodes
  <2>1. p[1] \in Links
    BY IdFacts
  <2> QED BY <2>1, ConstantsAssumption DEF Links, ConfigType
<1>2. <<p[1], k>> \in (Nodes \X Nodes) \X (0 .. MaxConns)
  BY <1>1
<1>3. cf.runtime \in [Nodes -> [(Nodes \X Nodes) \X (0 .. MaxConns) -> Nat]]
  BY ConstantsAssumption DEF ConfigType
<1>4. Owner(p) \in Nodes /\ Other(p) \in Nodes
  BY IdFacts
<1> QED BY <1>2, <1>3, <1>4 DEF OurTime, TheirTime, RunTime

LEMMA SendStateBoolean ==
  ASSUME NEW p, NEW r \in PeerSet
  PROVE  SendState(r, p) \in BOOLEAN
<1>1. r.our_runtime \in Nat /\ r.runtime \in Nat
  BY DEF PeerSet
<1>3. (p[2] = 0) \in BOOLEAN /\ (r.our_runtime > r.runtime) \in BOOLEAN
  BY <1>1
<1> DEFINE asked == r.sync_requested
<1>4. CASE ~ ({"WE", "PEER"} \subseteq asked)
  <2>1. SendState(r, p) = ("PEER" \in asked)
    BY <1>4 DEF SendState
  <2> QED BY <2>1
<1>5. CASE {"WE", "PEER"} \subseteq asked /\ ("AUTH_WE" \in asked \/ "AUTH_PEER" \in asked)
  BY <1>5 DEF SendState
<1>6. CASE {"WE", "PEER"} \subseteq asked /\ "AUTH_WE" \notin asked /\ "AUTH_PEER" \notin asked
  <2>1. SendState(r, p) = IF r.our_runtime = r.runtime THEN p[2] = 0
                                    ELSE r.our_runtime > r.runtime
    BY <1>6 DEF SendState
  <2> QED BY <1>3, <2>1
<1> QED BY <1>4, <1>5, <1>6

LEMMA BecomesThen ==
  ASSUME NEW n, NEW s, NEW t, NEW u, NEW p, NEW r, NEW r2, NEW v, NEW w, NEW ts, Len(ts) \in Nat,
         Effect(n, s, t, p, r, v, << >>), Effect(n, t, u, p, r2, w, ts)
  PROVE  Effect(n, s, u, p, r2, w, ts)
<1>1. Joined(t.out, s.out, Sent(p, r.conn, << >>)) /\ Joined(u.out, t.out, Sent(p, r2.conn, ts))
  BY DEF Effect
<1>2. Len(Sent(p, r.conn, << >>)) = 0
  BY DEF Sent
<1>3. Len(Sent(p, r2.conn, ts)) \in Nat
  BY SentFacts
<1>4. Joined(Sent(p, r2.conn, ts), Sent(p, r.conn, << >>), Sent(p, r2.conn, ts))
  BY <1>2, <1>3 DEF Joined
<1>5. Joined(u.out, s.out, Sent(p, r2.conn, ts))
  BY <1>1, <1>4, JoinTwice
<1> QED BY <1>5 DEF Effect

\* A step that changes the record only.
LEMMA RecordEffect ==
  ASSUME NEW n, NEW s, IsMain(n, s), NEW p \in DOMAIN s.peer, NEW r \in PeerSet,
         NEW t, t = [s EXCEPT !.peer = [s.peer EXCEPT ![p] = r]]
  PROVE  /\ Effect(n, s, t, p, r, s.sync_pending, << >>)
         /\ IsMain(n, t) /\ p \in DOMAIN t.peer /\ t.peer[p] = r /\ t.sync_pending = s.sync_pending
<1>1. Effect(n, s, t, p, r, s.sync_pending, << >>)
  BY Change
<1> QED BY <1>1, After

LEMMA BothEffect ==
  ASSUME NEW n, NEW s, IsMain(n, s), NEW p \in DOMAIN s.peer, cf \in Configs
  PROVE  \E r1, w, ts : /\ Effect(n, s, HandshakeIfBoth(s, p), p, r1, w, ts)
                        /\ Shaken(p, s.peer[p], r1, ts) /\ QueuedIf(s, w, p, s.peer[p], r1)
                        /\ Len(ts) \in Nat /\ r1.conn = s.peer[p].conn
<1> DEFINE r == s.peer[p]
<1>1. CASE r.handshake_done = {"WE", "PEER"}
  <2>1. HandshakeIfBoth(s, p) = HandshakeDone(s, p)
    BY <1>1 DEF HandshakeIfBoth
  <2>2. PICK r1, w, ts : /\ Effect(n, s, HandshakeDone(s, p), p, r1, w, ts)
                         /\ Decided(p, r, r1, ts) /\ Queued(s, w, p, r1)
    <3>1. p \in Ids /\ r \in PeerSet
      BY MainFacts
    <3>2. SendState(r, p) \in BOOLEAN
      BY <3>1, SendStateBoolean
    <3> QED BY <3>2, HandshakeEffect
  <2>3. Len(ts) \in Nat /\ r1.conn = r.conn
    BY <2>2 DEF Decided, Keeps
  <2>4. Shaken(p, r, r1, ts) /\ QueuedIf(s, w, p, r, r1)
    BY <1>1, <2>2 DEF Shaken, Queued, QueuedIf
  <2> QED BY <2>1, <2>2, <2>3, <2>4
<1>2. CASE r.handshake_done # {"WE", "PEER"}
  <2>1. HandshakeIfBoth(s, p) = s
    BY <1>2 DEF HandshakeIfBoth
  <2>2. Effect(n, s, s, p, r, s.sync_pending, << >>)
    <3>1. s = [s EXCEPT !.in_sync = s.in_sync]
      BY MainFacts
    <3> QED BY <3>1, SetSync
  <2>3. Shaken(p, r, r, << >>) /\ QueuedIf(s, s.sync_pending, p, r, r) /\ Len(<< >>) \in Nat
    BY <1>2 DEF Shaken, QueuedIf
  <2> QED BY <2>1, <2>2, <2>3
<1> QED BY <1>1, <1>2

LEMMA RequestEffect ==
  ASSUME NEW n, NEW s, IsMain(n, s), NEW p \in DOMAIN s.peer
  PROVE  Effect(n, s, RequestSync(s, p), p,
                [s.peer[p] EXCEPT !.sync_requested = @ \cup (IF Wants(p) THEN WePart(p) ELSE {})],
                s.sync_pending, IF Wants(p) THEN <<RequestType(p)>> ELSE << >>)
<1> DEFINE r == s.peer[p]
           r1 == [r EXCEPT !.sync_requested = @ \cup WePart(p)]
           s1 == SendToChild(s, p, RequestType(p))
           t == RequestSync(s, p)
<1>0. r \in PeerSet
  BY MainFacts
<1>1. CASE ~ Wants(p)
  <2>1. t = s
    BY <1>1 DEF RequestSync, Wants
  <2>2. [r EXCEPT !.sync_requested = @ \cup {}] = r
    BY <1>0 DEF PeerSet
  <2>3. Effect(n, s, s, p, r, s.sync_pending, << >>)
    <3>1. s = [s EXCEPT !.in_sync = s.in_sync]
      BY MainFacts
    <3> QED BY <3>1, SetSync
  <2> QED BY <1>1, <2>1, <2>2, <2>3
<1>2. CASE Wants(p)
  <2>1. RequestType(p) \in PeerMsgs
    BY DEF RequestType, PeerMsgs
  <2>2. Effect(n, s, s1, p, r, s.sync_pending, <<RequestType(p)>>)
    BY <2>1, SendOne
  <2>3. IsMain(n, s1) /\ p \in DOMAIN s1.peer /\ s1.peer[p] = r /\ s1.sync_pending = s.sync_pending
    BY <2>2, After
  <2>4. t = [s1 EXCEPT !.peer[p].sync_requested =
                        @ \cup {"WE"} \cup (IF Auth(p) THEN {"AUTH_WE"} ELSE {})]
    BY <1>2 DEF RequestSync, Wants, Auth, RequestType
  <2> HIDE DEF s1, t
  <2>5. r1 \in PeerSet /\ r1.conn = r.conn
        /\ r1 = [r EXCEPT !.sync_requested = @ \cup {"WE"} \cup (IF Auth(p) THEN {"AUTH_WE"} ELSE {})]
    BY <1>0 DEF PeerSet, WePart
  <2>6. t = [s1 EXCEPT !.peer = [s1.peer EXCEPT ![p] = r1]]
    BY <2>3, <2>4, <2>5
  <2> HIDE DEF r1, r
  <2>7. Effect(n, s1, t, p, r1, s.sync_pending, << >>)
    BY <2>3, <2>5, <2>6, Change
  <2>8. Len(<<RequestType(p)>>) \in Nat /\ r1.conn = r.conn
    BY <2>5
  <2>9. Effect(n, s, t, p, r1, s.sync_pending, <<RequestType(p)>>)
    BY <2>2, <2>7, <2>8, ThenChange
  <2> QED BY <1>2, <2>9 DEF t, r1, r
<1> QED BY <1>1, <1>2

LEMMA CompleteEffect ==
  ASSUME NEW n, NEW s, IsMain(n, s), NEW p \in DOMAIN s.peer, cf \in Configs
  PROVE  \E r1, w, ts, xs : /\ Effect(n, s, CompleteHandshake(s, p), p, r1, w, xs)
                            /\ Shaken(p, Shook(s.peer[p], "WE"), r1, ts)
                            /\ QueuedIf(s, w, p, Shook(s.peer[p], "WE"), r1)
                            /\ Joined(xs, <<"PHASE_DONE">>, ts) /\ r1.conn = s.peer[p].conn
<1> DEFINE r == Shook(s.peer[p], "WE")
           s1 == [s EXCEPT !.peer[p].handshake_done = @ \cup {"WE"}]
           s2 == SendToChild(s1, p, "PHASE_DONE")
           t == CompleteHandshake(s, p)
<1>1. s.peer[p] \in PeerSet
  BY MainFacts
<1>2. r \in PeerSet /\ r.conn = s.peer[p].conn
  BY <1>1 DEF PeerSet, Shook
<1>3. s1 = [s EXCEPT !.peer = [s.peer EXCEPT ![p] = r]]
  BY DEF Shook
<1>4. t = HandshakeIfBoth(s2, p)
  BY DEF CompleteHandshake
<1> HIDE DEF s1, r
<1>5. /\ Effect(n, s, s1, p, r, s.sync_pending, << >>)
      /\ IsMain(n, s1) /\ p \in DOMAIN s1.peer /\ s1.peer[p] = r /\ s1.sync_pending = s.sync_pending
  BY <1>2, <1>3, RecordEffect
<1>6. Effect(n, s1, s2, p, r, s.sync_pending, <<"PHASE_DONE">>)
  <2>1. "PHASE_DONE" \in PeerMsgs
    BY DEF PeerMsgs
  <2> QED BY <1>5, <2>1, SendOne
<1> HIDE DEF s2, t
<1>7. IsMain(n, s2) /\ p \in DOMAIN s2.peer /\ s2.peer[p] = r /\ s2.sync_pending = s.sync_pending
  BY <1>6, After
<1>8. Effect(n, s, s2, p, r, s.sync_pending, <<"PHASE_DONE">>)
  <2>1. Len(<<"PHASE_DONE">>) \in Nat
    OBVIOUS
  <2> QED BY <1>5, <1>6, <2>1, BecomesThen
<1>9. PICK r1, w, ts : /\ Effect(n, s2, t, p, r1, w, ts)
                       /\ Shaken(p, r, r1, ts) /\ QueuedIf(s2, w, p, r, r1)
                       /\ Len(ts) \in Nat /\ r1.conn = r.conn
  BY <1>4, <1>7, BothEffect
<1>10. QueuedIf(s, w, p, r, r1)
  BY <1>7, <1>9 DEF QueuedIf
<1>11. PICK xs : Joined(xs, <<"PHASE_DONE">>, ts)
  <2> DEFINE xs == [i \in 1 .. 1 + Len(ts) |-> IF i = 1 THEN "PHASE_DONE" ELSE ts[i - 1]]
  <2>1. /\ Len(xs) = 1 + Len(ts) /\ xs[1] = "PHASE_DONE"
        /\ \A i \in 1 .. Len(ts) : xs[1 + i] = ts[i]
    BY <1>9
  <2>2. Len(<<"PHASE_DONE">>) = 1 /\ <<"PHASE_DONE">>[1] = "PHASE_DONE"
    OBVIOUS
  <2> HIDE DEF xs
  <2>3. Joined(xs, <<"PHASE_DONE">>, ts)
    BY <1>9, <2>1, <2>2 DEF Joined
  <2> QED BY <2>3
<1>12. Effect(n, s, t, p, r1, w, xs)
  BY <1>8, <1>9, <1>11, Then
<1> QED BY <1>2, <1>9, <1>10, <1>11, <1>12 DEF t, r

LEMMA RefuseEffect ==
  ASSUME NEW n, NEW s, IsMain(n, s), NEW p \in DOMAIN s.peer
  PROVE  Effect(n, s, Refuse(s, p), p, Refused(s.peer[p]), s.sync_pending, CloseMsgs(s.peer[p]))
<1> DEFINE r == s.peer[p]
           r1 == [r EXCEPT !.error = TRUE]
           s1 == [s EXCEPT !.peer[p].error = TRUE]
<1>1. r \in PeerSet
  BY MainFacts
<1>2. r1 \in PeerSet /\ r1.state = r.state /\ Closed(r1) = Refused(r)
  BY <1>1 DEF PeerSet, Refused
<1>3. s1 = [s EXCEPT !.peer = [s.peer EXCEPT ![p] = r1]] /\ Refuse(s, p) = CloseConnection(s1, p)
  BY DEF Refuse
<1> HIDE DEF s1, r1, r
<1>4. /\ Effect(n, s, s1, p, r1, s.sync_pending, << >>)
      /\ IsMain(n, s1) /\ p \in DOMAIN s1.peer /\ s1.peer[p] = r1 /\ s1.sync_pending = s.sync_pending
  BY <1>2, <1>3, RecordEffect
<1>5. Effect(n, s1, CloseConnection(s1, p), p, Closed(r1), s.sync_pending, CloseMsgs(r1))
  BY <1>4, CloseEffect
<1>6. CloseMsgs(r1) = CloseMsgs(r) /\ Len(CloseMsgs(r)) \in Nat
  BY <1>2 DEF CloseMsgs
<1>7. Effect(n, s1, Refuse(s, p), p, Refused(r), s.sync_pending, CloseMsgs(r))
  BY <1>2, <1>3, <1>5, <1>6
<1>8. Effect(n, s, Refuse(s, p), p, Refused(r), s.sync_pending, CloseMsgs(r))
  BY <1>4, <1>6, <1>7, BecomesThen
<1> QED BY <1>8 DEF r

LEMMA HeardEffect ==
  ASSUME NEW n, NEW s, IsMain(n, s), NEW p \in DOMAIN s.peer, cf \in Configs, NEW k \in 0 .. MaxConns
  PROVE  /\ Effect(n, s, [s EXCEPT !.peer[p].runtime = TheirTime(p, k),
                                   !.peer[p].phase = "HANDSHAKE"],
                   p, Heard(p, k, s.peer[p]), s.sync_pending, << >>)
         /\ Heard(p, k, s.peer[p]) \in PeerSet
<1> DEFINE r == s.peer[p]
           r1 == [r EXCEPT !.runtime = TheirTime(p, k)]
           r2 == [r1 EXCEPT !.phase = "HANDSHAKE"]
           s1 == [s EXCEPT !.peer[p].runtime = TheirTime(p, k)]
           s2 == [s1 EXCEPT !.peer[p].phase = "HANDSHAKE"]
           t == [s EXCEPT !.peer[p].runtime = TheirTime(p, k), !.peer[p].phase = "HANDSHAKE"]
<1>1. r \in PeerSet /\ TheirTime(p, k) \in Nat
  BY MainFacts, TimeType
<1>2. r1 \in PeerSet /\ r2 \in PeerSet /\ Heard(p, k, r) = r2
  BY <1>1 DEF PeerSet, Heard, Phases
<1>3. s1 = [s EXCEPT !.peer = [s.peer EXCEPT ![p] = r1]] /\ t = s2
  OBVIOUS
<1> HIDE DEF s1, t
<1>4. /\ Effect(n, s, s1, p, r1, s.sync_pending, << >>)
      /\ IsMain(n, s1) /\ p \in DOMAIN s1.peer /\ s1.peer[p] = r1 /\ s1.sync_pending = s.sync_pending
  <2> HIDE DEF r1
  <2> QED BY <1>2, <1>3, RecordEffect
<1>5. s2 = [s1 EXCEPT !.peer = [s1.peer EXCEPT ![p] = r2]]
  BY <1>4
<1> HIDE DEF s2, r1, r2, r
<1>6. Effect(n, s1, s2, p, r2, s.sync_pending, << >>)
  BY <1>2, <1>4, <1>5, RecordEffect
<1>7. Effect(n, s, s2, p, r2, s.sync_pending, << >>)
  <2>1. Len(<< >>) \in Nat
    OBVIOUS
  <2> QED BY <1>4, <1>6, <2>1, BecomesThen
<1> QED BY <1>2, <1>3, <1>7 DEF r, t

LEMMA VersionEffect ==
  ASSUME NEW n, NEW s, IsMain(n, s), NEW p \in DOMAIN s.peer, cf \in Configs,
         NEW m, m.id = p, m.conn \in 0 .. MaxConns
  PROVE  \E r1, w, ts, xs : /\ Effect(n, s, ProcessVersionMsg(s, p, m), p, r1, w, xs)
                            /\ Shaken(p, Opened(p, m.conn, s.peer[p]), r1, ts)
                            /\ QueuedIf(s, w, p, Opened(p, m.conn, s.peer[p]), r1)
                            /\ Joined(xs, Opening(p), ts)
<1> DEFINE r == s.peer[p]
           s1 == [s EXCEPT !.peer[p].runtime = TheirTime(p, m.conn), !.peer[p].phase = "HANDSHAKE"]
           s2 == RequestSync(s1, p)
           t == ProcessVersionMsg(s, p, m)
           a == Heard(p, m.conn, r)
           b == Asks(p, a)
<1>1. t = CompleteHandshake(s2, p)
  BY DEF ProcessVersionMsg, TheirTime
<1>2. Effect(n, s, s1, p, a, s.sync_pending, << >>) /\ a \in PeerSet
  BY HeardEffect
<1> HIDE DEF s1, t, a
<1>3. IsMain(n, s1) /\ p \in DOMAIN s1.peer /\ s1.peer[p] = a /\ s1.sync_pending = s.sync_pending
  BY <1>2, After
<1>4. Effect(n, s1, s2, p, b, s.sync_pending, RequestMsgs(p))
  BY <1>3, RequestEffect DEF RequestMsgs, Asks
<1> HIDE DEF s2
<1>5. Len(RequestMsgs(p)) \in Nat
  BY DEF RequestMsgs
<1>6. Effect(n, s, s2, p, b, s.sync_pending, RequestMsgs(p))
  BY <1>2, <1>4, <1>5, BecomesThen
<1>7. IsMain(n, s2) /\ p \in DOMAIN s2.peer /\ s2.peer[p] = b /\ s2.sync_pending = s.sync_pending
  BY <1>6, After
<1>8. Shook(b, "WE") = Opened(p, m.conn, r)
  BY DEF Opened, a
<1> HIDE DEF b
<1>9. PICK r1, w, ts, ys : /\ Effect(n, s2, t, p, r1, w, ys)
                           /\ Shaken(p, Opened(p, m.conn, r), r1, ts)
                           /\ QueuedIf(s2, w, p, Opened(p, m.conn, r), r1)
                           /\ Joined(ys, <<"PHASE_DONE">>, ts) /\ r1.conn = b.conn
  BY <1>1, <1>7, <1>8, CompleteEffect
<1>10. QueuedIf(s, w, p, Opened(p, m.conn, r), r1)
  BY <1>7, <1>9 DEF QueuedIf
<1>11. /\ Len(ts) \in Nat /\ Len(ys) = 1 + Len(ts) /\ ys[1] = "PHASE_DONE"
       /\ \A i \in 1 .. Len(ts) : ys[1 + i] = ts[i]
  BY <1>9 DEF Joined
<1>12. PICK xs : Joined(xs, RequestMsgs(p), ys) /\ Joined(xs, Opening(p), ts)
  <2>1. CASE ~ Wants(p)
    <3>1. Joined(ys, << >>, ys)
      BY <1>11, JoinedSelf
    <3> QED BY <1>9, <2>1, <3>1 DEF RequestMsgs, Opening
  <2>2. CASE Wants(p)
    <3> DEFINE q == RequestType(p)
               xs == [i \in 1 .. 2 + Len(ts) |-> IF i = 1 THEN q ELSE IF i = 2 THEN "PHASE_DONE" ELSE ts[i - 2]]
    <3>1. /\ Len(xs) = 2 + Len(ts) /\ xs[1] = q /\ xs[2] = "PHASE_DONE"
          /\ \A i \in 1 .. Len(ts) : xs[2 + i] = ts[i]
      BY <1>11
    <3> HIDE DEF xs, q
    <3>2. \A i \in 1 .. Len(ys) : xs[1 + i] = ys[i]
      <4> SUFFICES ASSUME NEW i \in 1 .. Len(ys) PROVE xs[1 + i] = ys[i]
        OBVIOUS
      <4>1. CASE i = 1
        BY <1>11, <3>1, <4>1
      <4>2. CASE i # 1
        <5>1. PICK j \in 1 .. Len(ts) : i = 1 + j
          <6>1. i - 1 \in 1 .. Len(ts) /\ i = 1 + (i - 1)
            BY <1>11, <4>2
          <6> QED BY <6>1
        <5>2. 1 + i = 2 + j
          BY <5>1
        <5> QED BY <1>11, <3>1, <5>1, <5>2
      <4> QED BY <4>1, <4>2
    <3>3. Len(<<q>>) = 1 /\ <<q>>[1] = q /\ Len(<<q, "PHASE_DONE">>) = 2
          /\ <<q, "PHASE_DONE">>[1] = q /\ <<q, "PHASE_DONE">>[2] = "PHASE_DONE"
      OBVIOUS
    <3>4. Joined(xs, <<q>>, ys)
      BY <1>11, <3>1, <3>2, <3>3 DEF Joined
    <3>5. Joined(xs, <<q, "PHASE_DONE">>, ts)
      BY <1>11, <3>1, <3>3 DEF Joined
    <3> QED BY <2>2, <3>4, <3>5 DEF RequestMsgs, Opening, q
  <2> QED BY <2>1, <2>2
<1>13. Effect(n, s, t, p, r1, w, xs)
  BY <1>6, <1>9, <1>12, Then
<1> QED BY <1>9, <1>10, <1>12, <1>13 DEF t, r

LEMMA PhaseDoneEffect ==
  ASSUME NEW n, NEW s, IsMain(n, s), NEW p \in DOMAIN s.peer, cf \in Configs
  PROVE  \E r1, w, ts : /\ Effect(n, s, ProcessPhaseDone(s, p), p, r1, w, ts)
                        /\ PhaseEnds(p, s.peer[p], r1, ts)
                        /\ \/ w = s.sync_pending
                           \/ s.peer[p].phase = "HANDSHAKE" /\ QueuedIf(s, w, p, Shook(s.peer[p], "PEER"), r1)
<1> DEFINE r == s.peer[p]
           t == ProcessPhaseDone(s, p)
<1>0. r \in PeerSet
  BY MainFacts
<1>1. CASE r.phase = "HANDSHAKE"
  <2> DEFINE s1 == [s EXCEPT !.peer[p].handshake_done = @ \cup {"PEER"}]
             a == Shook(r, "PEER")
  <2>1. t = HandshakeIfBoth(s1, p)
    BY <1>1 DEF ProcessPhaseDone
  <2>2. a \in PeerSet
    BY <1>0 DEF PeerSet, Shook
  <2>3. s1 = [s EXCEPT !.peer = [s.peer EXCEPT ![p] = a]]
    BY DEF Shook
  <2> HIDE DEF s1, t, a
  <2>4. /\ Effect(n, s, s1, p, a, s.sync_pending, << >>)
        /\ IsMain(n, s1) /\ p \in DOMAIN s1.peer /\ s1.peer[p] = a /\ s1.sync_pending = s.sync_pending
    BY <2>2, <2>3, RecordEffect
  <2>5. PICK r1, w, ts : /\ Effect(n, s1, t, p, r1, w, ts)
                         /\ Shaken(p, a, r1, ts) /\ QueuedIf(s1, w, p, a, r1)
                         /\ Len(ts) \in Nat /\ r1.conn = a.conn
    BY <2>1, <2>4, BothEffect
  <2>6. Effect(n, s, t, p, r1, w, ts)
    BY <2>4, <2>5, BecomesThen
  <2>7. QueuedIf(s, w, p, a, r1) /\ PhaseEnds(p, r, r1, ts)
    BY <1>1, <2>4, <2>5 DEF QueuedIf, PhaseEnds, a
  <2> QED BY <1>1, <2>6, <2>7 DEF t, a
<1>2. CASE r.phase = "SYNC" /\ ~ r.send_state
  <2> DEFINE s1 == EnterPhaseRunning(s, p)
             a == [r EXCEPT !.phase = "RUNNING"]
             b == [a EXCEPT !.suspended = FALSE]
  <2>1. t = [s1 EXCEPT !.peer[p].suspended = FALSE]
    BY <1>2 DEF ProcessPhaseDone
  <2>2. a \in PeerSet /\ b \in PeerSet /\ b = [r EXCEPT !.phase = "RUNNING", !.suspended = FALSE]
    BY <1>0 DEF PeerSet, Phases
  <2>3. Effect(n, s, s1, p, a, s.sync_pending, << >>)
    BY RunningEffect
  <2> HIDE DEF s1, t, a
  <2>4. IsMain(n, s1) /\ p \in DOMAIN s1.peer /\ s1.peer[p] = a /\ s1.sync_pending = s.sync_pending
    BY <2>3, After
  <2>5. t = [s1 EXCEPT !.peer = [s1.peer EXCEPT ![p] = b]]
    BY <2>1, <2>4
  <2>6. PhaseEnds(p, r, b, << >>)
    BY <1>2, <2>2 DEF PhaseEnds
  <2> HIDE DEF b
  <2>7. Effect(n, s1, t, p, b, s.sync_pending, << >>)
    BY <2>2, <2>4, <2>5, RecordEffect
  <2>8. Effect(n, s, t, p, b, s.sync_pending, << >>)
    <3>1. Len(<< >>) \in Nat
      OBVIOUS
    <3> QED BY <2>3, <2>7, <3>1, BecomesThen
  <2> QED BY <1>0, <2>6, <2>8 DEF t
<1>3. CASE r.phase # "HANDSHAKE" /\ ~ (r.phase = "SYNC" /\ ~ r.send_state)
  <2>1. t = Refuse(s, p)
    BY <1>3 DEF ProcessPhaseDone
  <2>2. Effect(n, s, t, p, Refused(r), s.sync_pending, CloseMsgs(r))
    BY <2>1, RefuseEffect
  <2>3. PhaseEnds(p, r, Refused(r), CloseMsgs(r))
    BY <1>3 DEF PhaseEnds
  <2> QED BY <1>0, <2>2, <2>3
<1> QED BY <1>1, <1>2, <1>3

LEMMA DisconnectedEffect ==
  ASSUME NEW n, NEW s, IsMain(n, s), NEW p \in DOMAIN s.peer
  PROVE  \E r1 : /\ Effect(n, s, PeerDisconnected(s, p), p, r1, s.sync_pending, << >>)
                 /\ Gone(s.peer[p], r1)
<1> DEFINE r == s.peer[p]
           a == [r EXCEPT !.suspended = FALSE]
           s1 == [s EXCEPT !.peer[p].suspended = FALSE]
           t == PeerDisconnected(s, p)
<1>0. r \in PeerSet /\ Len(<< >>) \in Nat
  BY MainFacts
<1>1. a \in PeerSet /\ a.state = r.state /\ a.phase = r.phase /\ (r.state \in {"CLOSED", "INIT"} => Gone(r, a))
  BY <1>0 DEF PeerSet, Gone
<1>2. s1 = [s EXCEPT !.peer = [s.peer EXCEPT ![p] = a]]
  OBVIOUS
<1>3. CASE r.state \in {"CLOSED", "INIT"}
  <2>1. t = s1
    BY <1>3 DEF PeerDisconnected
  <2> HIDE DEF s1, t, a
  <2>2. Effect(n, s, s1, p, a, s.sync_pending, << >>)
    BY <1>1, <1>2, RecordEffect
  <2> QED BY <1>1, <1>3, <2>1, <2>2 DEF t
<1>4. ASSUME r.state \notin {"CLOSED", "INIT"}
      PROVE  \E r1 : Effect(n, s, t, p, r1, s.sync_pending, << >>) /\ Gone(r, r1)
  <2> DEFINE b == [a EXCEPT !.state = "CLOSED"]
             s2 == LeaveSync(s1, p)
             s3 == [s2 EXCEPT !.peer[p].state = "CLOSED"]
             c == [b EXCEPT !.phase = "UNKNOWN"]
             s4 == [s3 EXCEPT !.peer[p].phase = "UNKNOWN"]
             s5 == [s1 EXCEPT !.peer[p].state = "CLOSED"]
  <2>1. b \in PeerSet /\ c \in PeerSet /\ Gone(r, b) /\ Gone(r, c)
    BY <1>0 DEF PeerSet, States, Phases, Gone
  <2>2. IF r.state = "PENDING" THEN t = s5 ELSE t = s4
    <3>1. CASE r.state = "PENDING"
      BY <3>1 DEF PeerDisconnected
    <3>2. CASE r.state # "PENDING"
      <4>1. t = [s2 EXCEPT !.peer[p].state = "CLOSED", !.peer[p].phase = "UNKNOWN"]
        BY <1>4, <3>2 DEF PeerDisconnected
      <4> HIDE DEF t, s2
      <4> QED BY <3>2, <4>1
    <3> QED BY <3>1, <3>2
  <2> HIDE DEF s1, t
  <2>3. /\ Effect(n, s, s1, p, a, s.sync_pending, << >>)
        /\ IsMain(n, s1) /\ p \in DOMAIN s1.peer /\ s1.peer[p] = a /\ s1.sync_pending = s.sync_pending
    <3> HIDE DEF a
    <3> QED BY <1>1, <1>2, RecordEffect
  <2>4. Effect(n, s1, s2, p, a, s.sync_pending, << >>)
    <3> HIDE DEF a
    <3> QED BY <2>3, LeaveEffect
  <2> HIDE DEF s2, a
  <2>5. IsMain(n, s2) /\ p \in DOMAIN s2.peer /\ s2.peer[p] = a /\ s2.sync_pending = s.sync_pending
    BY <2>4, After
  <2>6. s3 = [s2 EXCEPT !.peer = [s2.peer EXCEPT ![p] = b]]
    BY <2>5
  <2>7. s5 = [s1 EXCEPT !.peer = [s1.peer EXCEPT ![p] = b]]
    BY <2>3
  <2> HIDE DEF b, s3, s5
  <2>8. Effect(n, s1, s5, p, b, s.sync_pending, << >>)
    BY <2>1, <2>3, <2>7, RecordEffect
  <2>9. /\ Effect(n, s2, s3, p, b, s.sync_pending, << >>)
        /\ IsMain(n, s3) /\ p \in DOMAIN s3.peer /\ s3.peer[p] = b /\ s3.sync_pending = s.sync_pending
    BY <2>1, <2>5, <2>6, RecordEffect
  <2>10. s4 = [s3 EXCEPT !.peer = [s3.peer EXCEPT ![p] = c]]
    BY <2>9
  <2> HIDE DEF c, s4
  <2>11. Effect(n, s3, s4, p, c, s.sync_pending, << >>)
    BY <2>1, <2>9, <2>10, RecordEffect
  <2>12. Effect(n, s, s5, p, b, s.sync_pending, << >>)
    BY <1>0, <2>3, <2>8, BecomesThen
  <2>13. Effect(n, s2, s4, p, c, s.sync_pending, << >>)
    BY <1>0, <2>9, <2>11, BecomesThen
  <2>14. Effect(n, s1, s4, p, c, s.sync_pending, << >>)
    BY <1>0, <2>4, <2>13, BecomesThen
  <2>15. Effect(n, s, s4, p, c, s.sync_pending, << >>)
    BY <1>0, <2>3, <2>14, BecomesThen
  <2> QED BY <2>1, <2>2, <2>12, <2>15
<1> QED BY <1>3, <1>4

LEMMA FreshFacts ==
  ASSUME NEW p \in Ids, NEW r \in PeerSet, NEW k \in 0 .. MaxConns, cf \in Configs
  PROVE  /\ Fresh(p, r, k) \in PeerSet /\ Fresh(p, r, k).state = "CONNECTED" /\ Fresh(p, r, k).phase = "SETUP"
         /\ Fresh(p, r, k).sync_requested = {} /\ Fresh(p, r, k).handshake_done = {} /\ Fresh(p, r, k).conn = k
         /\ Fresh(p, r, k).our_runtime = OurTime(p, k) /\ ~ Fresh(p, r, k).got /\ ~ Fresh(p, r, k).error
BY TimeType DEF Fresh, PeerSet, States, Phases

LEMMA ConnectedEffect ==
  ASSUME NEW n, NEW s, IsMain(n, s), NEW p \in DOMAIN s.peer, NEW k \in 0 .. MaxConns,
         s.peer[p].state # "CONNECTED", cf \in Configs
  PROVE  Effect(n, s, PeerConnected(s, p, k), p, Fresh(p, s.peer[p], k), s.sync_pending, <<"VERSION">>)
<1> DEFINE r == s.peer[p]
           a == Fresh(p, r, k)
           s1 == [s EXCEPT !.peer = [s.peer EXCEPT ![p] = a]]
           t == PeerConnected(s, p, k)
<1>1. a \in PeerSet /\ Len(<<"VERSION">>) \in Nat
  BY MainFacts, FreshFacts
<1>2. t = SendToChild(s1, p, "VERSION")
  BY DEF PeerConnected, Fresh, OurTime
<1> HIDE DEF a
<1>3. Effect(n, s, s1, p, a, s.sync_pending, << >>)
  BY <1>1, Change
<1> HIDE DEF s1, t
<1>4. IsMain(n, s1) /\ p \in DOMAIN s1.peer /\ s1.peer[p] = a /\ s1.sync_pending = s.sync_pending
  BY <1>3, After
<1>5. "VERSION" \in PeerMsgs
  BY DEF PeerMsgs
<1>6. Effect(n, s1, t, p, a, s.sync_pending, <<"VERSION">>)
  BY <1>2, <1>4, <1>5, SendOne
<1>7. Effect(n, s, t, p, a, s.sync_pending, <<"VERSION">>)
  BY <1>1, <1>3, <1>6, BecomesThen
<1> QED BY <1>7 DEF t, a

LEMMA NewPeerType == NewPeer \in PeerSet
BY ConstantsAssumption DEF NewPeer, PeerSet, States, Phases

LEMMA AddEffect ==
  ASSUME NEW n, NEW s, IsMain(n, s), NEW p \in Ids, Owner(p) = n, p \notin DOMAIN s.peer
  PROVE  /\ Effect(n, s, AddPeer(s, p), p, NewPeer, s.sync_pending, << >>)
         /\ NewPeer.state = "INIT"
<1> DEFINE f == [q \in DOMAIN s.peer \cup {p} |-> IF q = p THEN NewPeer ELSE s.peer[q]]
           t == AddPeer(s, p)
<1>1. s = [peer |-> s.peer, in_sync |-> s.in_sync, sync_pending |-> s.sync_pending, out |-> s.out]
  BY MainFacts
<1>2. t = [s EXCEPT !.peer = f]
  BY DEF AddPeer
<1> HIDE DEF t
<1>3. /\ DOMAIN f = DOMAIN s.peer \cup {p} /\ f[p] = NewPeer
      /\ \A q \in DOMAIN s.peer : q # p => f[q] = s.peer[q]
      /\ f = [q \in DOMAIN f |-> f[q]]
  OBVIOUS
<1> HIDE DEF f
<1>4. t = [peer |-> f, in_sync |-> s.in_sync, sync_pending |-> s.sync_pending, out |-> s.out]
  BY <1>1, <1>2
<1>5. /\ t.peer = f /\ t.in_sync = s.in_sync /\ t.sync_pending = s.sync_pending /\ t.out = s.out
      /\ t = [peer |-> t.peer, in_sync |-> t.in_sync, sync_pending |-> t.sync_pending, out |-> t.out]
  BY <1>4
<1>6. IsMain(n, t)
  BY <1>3, <1>5, NewPeerType DEF IsMain
<1>7. Joined(t.out, s.out, Sent(p, NewPeer.conn, << >>))
  <2>1. Len(Sent(p, NewPeer.conn, << >>)) = 0
    BY DEF Sent
  <2>2. Len(s.out) \in Nat
    BY DEF IsMain
  <2>3. Joined(s.out, s.out, Sent(p, NewPeer.conn, << >>))
    BY <2>1, <2>2, JoinedNone
  <2> QED BY <1>5, <2>3
<1>8. Effect(n, s, t, p, NewPeer, s.sync_pending, << >>)
  BY <1>3, <1>5, <1>6, <1>7 DEF Effect
<1>9. NewPeer.state = "INIT"
  BY DEF NewPeer
<1> QED BY <1>8, <1>9 DEF t

LEMMA ShakenKeeps ==
  ASSUME NEW p, NEW r \in PeerSet, NEW r1, NEW ts, Shaken(p, r, r1, ts)
  PROVE  Keeps(r, r1)
BY DEF Shaken, Decided, Keeps

LEMMA OpenedType ==
  ASSUME NEW p \in Ids, NEW r \in PeerSet, cf \in Configs, NEW k \in 0 .. MaxConns
  PROVE  /\ Opened(p, k, r) \in PeerSet /\ Shook(r, "PEER") \in PeerSet
         /\ Opened(p, k, r).conn = r.conn /\ Opened(p, k, r).state = r.state
         /\ Opened(p, k, r).phase = "HANDSHAKE" /\ Opened(p, k, r).runtime = TheirTime(p, k)
         /\ Opened(p, k, r).sync_requested = r.sync_requested \cup (IF Wants(p) THEN WePart(p) ELSE {})
         /\ Opened(p, k, r).handshake_done = r.handshake_done \cup {"WE"}
         /\ Opened(p, k, r).our_runtime = r.our_runtime
         /\ Opened(p, k, r).got = r.got /\ Opened(p, k, r).error = r.error
<1>1. TheirTime(p, k) \in Nat
  BY TimeType
<1> DEFINE wp == IF Wants(p) THEN WePart(p) ELSE {}
<1>2. wp \in SUBSET {"WE", "PEER", "AUTH_WE", "AUTH_PEER"}
  BY DEF WePart
<1> HIDE DEF wp
<1>3. Heard(p, k, r) \in PeerSet /\ Heard(p, k, r).conn = r.conn /\ Heard(p, k, r).state = r.state
      /\ Heard(p, k, r).phase = "HANDSHAKE" /\ Heard(p, k, r).runtime = TheirTime(p, k)
      /\ Heard(p, k, r).sync_requested = r.sync_requested /\ Heard(p, k, r).handshake_done = r.handshake_done
      /\ Heard(p, k, r).our_runtime = r.our_runtime
      /\ Heard(p, k, r).got = r.got /\ Heard(p, k, r).error = r.error
  BY <1>1 DEF Heard, PeerSet, Phases
<1> DEFINE h == Heard(p, k, r)
           a == [h EXCEPT !.sync_requested = @ \cup wp]
<1> HIDE DEF h
<1>4. a \in PeerSet /\ a.conn = h.conn /\ a.state = h.state
      /\ a.phase = h.phase /\ a.runtime = h.runtime /\ a.our_runtime = h.our_runtime
      /\ a.sync_requested = h.sync_requested \cup wp /\ a.handshake_done = h.handshake_done
      /\ a.got = h.got /\ a.error = h.error
  BY <1>2, <1>3 DEF PeerSet, h
<1>5. Asks(p, h) = a
  BY DEF Asks, wp
<1> HIDE DEF a
<1>6. Shook(a, "WE") \in PeerSet /\ Shook(a, "WE").conn = a.conn /\ Shook(a, "WE").state = a.state
      /\ Shook(a, "WE").phase = a.phase /\ Shook(a, "WE").runtime = a.runtime /\ Shook(a, "WE").our_runtime = a.our_runtime
      /\ Shook(a, "WE").sync_requested = a.sync_requested
      /\ Shook(a, "WE").handshake_done = a.handshake_done \cup {"WE"}
      /\ Shook(a, "WE").got = a.got /\ Shook(a, "WE").error = a.error
  BY <1>4 DEF Shook, PeerSet
<1>7. Opened(p, k, r) = Shook(a, "WE")
  BY <1>5 DEF Opened, h
<1>8. Shook(r, "PEER") \in PeerSet
  BY DEF Shook, PeerSet
<1> QED BY <1>3, <1>4, <1>6, <1>7, <1>8 DEF h, wp

LEMMA NothingEffect ==
  ASSUME NEW n, NEW s, IsMain(n, s), NEW p \in DOMAIN s.peer
  PROVE  Effect(n, s, s, p, s.peer[p], s.sync_pending, << >>)
<1>1. s = [s EXCEPT !.in_sync = s.in_sync]
  BY MainFacts
<1> QED BY <1>1, SetSync

LEMMA ProcessConnectedEffect ==
  ASSUME NEW n, NEW s, IsMain(n, s), NEW p \in Ids, Owner(p) = n, NEW k \in 0 .. MaxConns,
         cf \in Configs, NEW r, r = IF p \in DOMAIN s.peer THEN s.peer[p] ELSE NewPeer
  PROVE  Effect(n, s, ProcessConnected(s, p, k), p, IF r.state = "CONNECTED" THEN r ELSE Fresh(p, r, k),
                s.sync_pending, IF r.state = "CONNECTED" THEN << >> ELSE <<"VERSION">>)
<1> DEFINE t == ProcessConnected(s, p, k)
<1>1. CASE p \in DOMAIN s.peer
  <2>1. t = PeerConnected(s, p, k) /\ r = s.peer[p]
    BY <1>1 DEF ProcessConnected
  <2>2. CASE r.state = "CONNECTED"
    <3>1. t = s
      BY <2>1, <2>2 DEF PeerConnected
    <3> QED BY <1>1, <2>1, <2>2, <3>1, NothingEffect
  <2>3. CASE r.state # "CONNECTED"
    <3>1. Effect(n, s, PeerConnected(s, p, k), p, Fresh(p, s.peer[p], k), s.sync_pending, <<"VERSION">>)
      BY <1>1, <2>1, <2>3, ConnectedEffect
    <3> QED BY <2>1, <2>3, <3>1
  <2> QED BY <2>2, <2>3
<1>2. CASE p \notin DOMAIN s.peer
  <2> DEFINE s1 == AddPeer(s, p)
  <2>1. t = PeerConnected(s1, p, k) /\ r = NewPeer
    BY <1>2 DEF ProcessConnected
  <2>2. Effect(n, s, s1, p, NewPeer, s.sync_pending, << >>) /\ NewPeer.state = "INIT"
    BY <1>2, AddEffect
  <2> HIDE DEF s1, t
  <2>3. IsMain(n, s1) /\ p \in DOMAIN s1.peer /\ s1.peer[p] = NewPeer /\ s1.sync_pending = s.sync_pending
    BY <2>2, After
  <2>4. Effect(n, s1, PeerConnected(s1, p, k), p, Fresh(p, NewPeer, k), s.sync_pending, <<"VERSION">>)
    BY <2>2, <2>3, ConnectedEffect
  <2>5. Len(<<"VERSION">>) \in Nat
    OBVIOUS
  <2>6. Effect(n, s, PeerConnected(s1, p, k), p, Fresh(p, NewPeer, k), s.sync_pending, <<"VERSION">>)
    BY <2>2, <2>4, <2>5, BecomesThen
  <2>7. r.state # "CONNECTED"
    BY <2>1, <2>2
  <2> QED BY <2>1, <2>6, <2>7 DEF t
<1> QED BY <1>1, <1>2

LEMMA MessageEffect ==
  ASSUME NEW n, NEW s, IsMain(n, s), cf \in Configs,
         NEW m \in Msgs, m.type # "CONNECT_TO", Owner(m.id) = n,
         m.type = "CONNECTED" \/ m.id \in DOMAIN s.peer,
         NEW r, r = IF m.id \in DOMAIN s.peer THEN s.peer[m.id] ELSE NewPeer
  PROVE  \E r1, w, ts : /\ Effect(n, s, DoMessage(s, m, m.id), m.id, r1, w, ts)
                        /\ Treated(m.id, m, r, r1, ts) /\ Waits(s, w, m, r1)
<1> DEFINE p == m.id
           t == DoMessage(s, m, m.id)
           Goal == \E r1, w, ts : /\ Effect(n, s, t, p, r1, w, ts)
                                  /\ Treated(p, m, r, r1, ts) /\ Waits(s, w, m, r1)
<1>0. /\ p \in Ids /\ m.conn \in 0 .. MaxConns /\ r \in PeerSet
      /\ m.type \in {"CONNECTED", "CLOSE", "VERSION", "REQUEST_SYNC", "REQUEST_SYNC_AUTH", "PHASE_DONE", "SERIAL"}
  BY MainFacts, NewPeerType DEF Msgs, MsgTypes, PeerMsgs
<1>a. ASSUME NEW r1, NEW ts, Effect(n, s, t, p, r1, s.sync_pending, ts), Treated(p, m, r, r1, ts)
      PROVE  Goal
  <2>1. Waits(s, s.sync_pending, m, r1)
    BY DEF Waits
  <2> QED BY <1>a, <2>1
<1>1. CASE m.type = "CONNECTED"
  <2>1. t = ProcessConnected(s, p, m.conn)
    BY <1>1 DEF DoMessage, PeerMsgs
  <2> DEFINE r1 == IF r.state = "CONNECTED" THEN r ELSE Fresh(p, r, m.conn)
             ts == IF r.state = "CONNECTED" THEN << >> ELSE <<"VERSION">>
  <2>2. Effect(n, s, t, p, r1, s.sync_pending, ts)
    BY <1>0, <2>1, ProcessConnectedEffect
  <2>3. Treated(p, m, r, r1, ts)
    BY <1>1 DEF Treated
  <2> QED BY <1>a, <2>2, <2>3
<1>b. CASE m.type # "CONNECTED"
  <2>0. p \in DOMAIN s.peer /\ r = s.peer[p]
    BY <1>b
  <2>1. CASE m.type = "CLOSE"
    <3>1. t = PeerDisconnected(s, p)
      BY <2>1 DEF DoMessage, PeerMsgs
    <3>2. PICK r1 : Effect(n, s, t, p, r1, s.sync_pending, << >>) /\ Gone(r, r1)
      BY <2>0, <3>1, DisconnectedEffect
    <3>3. Treated(p, m, r, r1, << >>)
      BY <2>1, <3>2 DEF Treated
    <3> QED BY <1>a, <3>2, <3>3
  <2>2. CASE m.type \in PeerMsgs /\ Deaf(r)
    <3>1. t = s
      BY <2>0, <2>2 DEF DoMessage, Deaf
    <3>2. Effect(n, s, t, p, r, s.sync_pending, << >>)
      BY <2>0, <3>1, NothingEffect
    <3>3. Treated(p, m, r, r, << >>)
      BY <2>2 DEF Treated
    <3> QED BY <1>a, <3>2, <3>3
  <2>3. CASE m.type \in PeerMsgs /\ ~ Deaf(r) /\ r.phase = "SETUP" /\ m.type # "VERSION"
    <3>1. t = Refuse(s, p)
      BY <2>0, <2>3 DEF DoMessage, Deaf
    <3>2. Effect(n, s, t, p, Refused(r), s.sync_pending, CloseMsgs(r))
      BY <2>0, <3>1, RefuseEffect
    <3>3. Treated(p, m, r, Refused(r), CloseMsgs(r))
      BY <2>3 DEF Treated
    <3> QED BY <1>a, <3>2, <3>3
  <2>4. CASE m.type = "VERSION" /\ ~ Deaf(r)
    <3>1. t = ProcessVersionMsg(s, p, m)
      BY <2>0, <2>4 DEF DoMessage, Deaf, PeerMsgs
    <3>2. PICK r1, w, us, ts : /\ Effect(n, s, t, p, r1, w, ts)
                               /\ Shaken(p, Opened(p, m.conn, r), r1, us)
                               /\ QueuedIf(s, w, p, Opened(p, m.conn, r), r1)
                               /\ Joined(ts, Opening(p), us)
      BY <1>0, <2>0, <3>1, VersionEffect
    <3>3. Treated(p, m, r, r1, ts)
      BY <2>4, <3>2 DEF Treated
    <3>4. Opened(p, m.conn, r).phase = "HANDSHAKE"
      <4>1. ASSUME NEW q \in Ids, NEW k \in 0 .. MaxConns PROVE Opened(q, k, r).phase = "HANDSHAKE"
        BY <1>0, <4>1, OpenedType
      <4> QED BY <1>0, <4>1
    <3>5. Waits(s, w, m, r1)
      BY <2>4, <3>2, <3>4 DEF Waits, QueuedIf
    <3> QED BY <3>2, <3>3, <3>5
  <2>5. CASE m.type \in Requests /\ ~ Deaf(r) /\ r.phase # "SETUP"
    <3> DEFINE x == {"PEER"} \cup (IF m.type = "REQUEST_SYNC_AUTH" THEN {"AUTH_PEER"} ELSE {})
               r1 == [r EXCEPT !.sync_requested = @ \cup x]
    <3>1. t = [s EXCEPT !.peer = [s.peer EXCEPT ![p] = r1]]
      <4>1. CASE m.type = "REQUEST_SYNC"
        <5>1. t = [s EXCEPT !.peer[p].sync_requested = @ \cup {"PEER"}]
          BY <2>0, <2>5, <4>1 DEF DoMessage, Deaf, PeerMsgs
        <5>2. x = {"PEER"}
          BY <4>1
        <5> HIDE DEF t
        <5> QED BY <2>0, <5>1, <5>2
      <4>2. CASE m.type = "REQUEST_SYNC_AUTH"
        <5>1. t = [s EXCEPT !.peer[p].sync_requested = @ \cup {"PEER", "AUTH_PEER"}]
          BY <2>0, <2>5, <4>2 DEF DoMessage, Deaf, PeerMsgs
        <5>2. x = {"PEER", "AUTH_PEER"}
          BY <4>2
        <5> HIDE DEF t
        <5> QED BY <2>0, <5>1, <5>2
      <4> QED BY <2>5, <4>1, <4>2 DEF Requests
    <3>2. r1 \in PeerSet
      BY <1>0 DEF PeerSet
    <3>3. Treated(p, m, r, r1, << >>)
      <4>1. r1 = [r EXCEPT !.sync_requested =
                    @ \cup {"PEER"} \cup (IF m.type = "REQUEST_SYNC_AUTH" THEN {"AUTH_PEER"} ELSE {})]
        BY <1>0 DEF PeerSet
      <4> HIDE DEF r1
      <4> QED BY <2>5, <4>1 DEF Treated
    <3> HIDE DEF r1, t
    <3>4. Effect(n, s, t, p, r1, s.sync_pending, << >>)
      BY <2>0, <3>1, <3>2, Change
    <3> QED BY <1>a, <3>3, <3>4 DEF t
  <2>6. CASE m.type = "SERIAL" /\ ~ Deaf(r) /\ r.phase # "SETUP"
    <3> DEFINE r1 == [r EXCEPT !.got = @ \/ "WE" \in r.sync_requested]
    <3>1. t = [s EXCEPT !.peer[p].got = @ \/ "WE" \in r.sync_requested]
      BY <2>0, <2>6 DEF DoMessage, Deaf, PeerMsgs
    <3>2. r1 \in PeerSet
      BY <1>0 DEF PeerSet
    <3>3. Treated(p, m, r, r1, << >>)
      BY <2>6 DEF Treated
    <3> HIDE DEF t
    <3>4. t = [s EXCEPT !.peer = [s.peer EXCEPT ![p] = r1]]
      BY <2>0, <3>1
    <3> HIDE DEF r1
    <3>5. Effect(n, s, t, p, r1, s.sync_pending, << >>)
      BY <2>0, <3>2, <3>4, Change
    <3> QED BY <1>a, <3>3, <3>5 DEF t
  <2>7. CASE m.type = "PHASE_DONE" /\ ~ Deaf(r) /\ r.phase # "SETUP"
    <3>1. t = ProcessPhaseDone(s, p)
      BY <2>0, <2>7 DEF DoMessage, Deaf, PeerMsgs
    <3>2. PICK r1, w, ts : /\ Effect(n, s, t, p, r1, w, ts)
                           /\ PhaseEnds(p, r, r1, ts)
                           /\ \/ w = s.sync_pending
                              \/ r.phase = "HANDSHAKE" /\ QueuedIf(s, w, p, Shook(r, "PEER"), r1)
      BY <2>0, <3>1, PhaseDoneEffect
    <3>3. Treated(p, m, r, r1, ts)
      BY <2>7, <3>2 DEF Treated
    <3>4. Waits(s, w, m, r1)
      <4>1. r.phase = "HANDSHAKE" => Shook(r, "PEER").phase = "HANDSHAKE"
        BY <1>0 DEF Shook, PeerSet
      <4> QED BY <2>7, <3>2, <4>1 DEF Waits, QueuedIf
    <3> QED BY <3>2, <3>3, <3>4
  <2> QED BY <1>0, <1>b, <2>1, <2>2, <2>3, <2>4, <2>5, <2>6, <2>7 DEF PeerMsgs, Requests
<1> QED BY <1>1, <1>b

-----------------------------------------------------------------------------
(* The invariant of the pipes, the links and the connections.              *)

LEMMA TailRest ==
  ASSUME NEW S, NEW Q \in Seq(S), Q # << >>
  PROVE  Tail(Q) \in Seq(S) /\ Rest(Tail(Q), Q) /\ Head(Q) = Q[1] /\ Head(Q) \in S /\ Len(Q) \in Nat /\ Len(Q) >= 1
BY DEF Rest

LEMMA AppendMore ==
  ASSUME NEW S, NEW Q \in Seq(S), NEW e \in S
  PROVE  Append(Q, e) \in Seq(S) /\ More(Append(Q, e), Q, e)
BY DEF More

LEMMA ConcatJoined ==
  ASSUME NEW S, NEW Q \in Seq(S), NEW x \in Seq(S)
  PROVE  Q \o x \in Seq(S) /\ Joined(Q \o x, Q, x)
BY DEF Joined

LEMMA RestElement ==
  ASSUME NEW V, NEW Q, Rest(V, Q), NEW i \in 1 .. Len(V)
  PROVE  i + 1 \in 1 .. Len(Q) /\ V[i] = Q[i + 1]
BY DEF Rest

LEMMA JoinedElement ==
  ASSUME NEW V, NEW Q, NEW x, Joined(V, Q, x), NEW i \in 1 .. Len(V)
  PROVE  \/ i \in 1 .. Len(Q) /\ V[i] = Q[i]
         \/ \E j \in 1 .. Len(x) : i = Len(Q) + j /\ V[i] = x[j]
<1>1. /\ Len(Q) \in Nat /\ Len(x) \in Nat /\ Len(V) = Len(Q) + Len(x)
      /\ \A k \in 1 .. Len(Q) : V[k] = Q[k]
      /\ \A k \in 1 .. Len(x) : V[Len(Q) + k] = x[k]
  BY DEF Joined
<1>2. CASE i \in 1 .. Len(Q)
  BY <1>1, <1>2
<1>3. CASE i > Len(Q)
  <2>1. i - Len(Q) \in 1 .. Len(x) /\ i = Len(Q) + (i - Len(Q))
    BY <1>1, <1>3
  <2> QED BY <1>1, <2>1
<1> QED BY <1>1, <1>2, <1>3

LEMMA MoreElement ==
  ASSUME NEW V, NEW Q, NEW e, More(V, Q, e), NEW i \in 1 .. Len(V)
  PROVE  (i \in 1 .. Len(Q) /\ V[i] = Q[i]) \/ (i = Len(Q) + 1 /\ V[i] = e)
BY DEF More

LEMMA MoreJoined ==
  ASSUME NEW V, NEW Q, NEW e, More(V, Q, e)
  PROVE  Joined(V, Q, <<e>>)
<1>1. Len(<<e>>) = 1 /\ <<e>>[1] = e
  OBVIOUS
<1> QED BY <1>1, JoinedOne

\* A queue gets a message when it is not needed that one came before, or one did.
LEMMA KnownIn ==
  ASSUME NEW Q, NEW V, NEW e, More(V, Q, e), NEW R, NEW hot \in BOOLEAN, InOK(Q, R, hot), R[1] = {},
         hot /\ e \in R[3] => \E i \in 1 .. Len(Q) : Q[i] \in R[2]
  PROVE  InOK(V, R, hot)
<1>1. /\ Len(Q) \in Nat /\ Len(V) = Len(Q) + 1
      /\ \A i \in 1 .. Len(Q) : V[i] = Q[i]
      /\ V[Len(Q) + 1] = e
  BY DEF More
<1> SUFFICES ASSUME NEW i \in 0 .. Len(V), NEW j \in 1 .. Len(V),
                    HotAt(V, R, hot, i), V[j] \in R[3], i < j
             PROVE  \E m \in 1 .. Len(V) : i < m /\ m < j /\ V[m] \in R[2]
  BY DEF InOK
<1>2. i = 0 /\ hot
  BY DEF HotAt
<1>3. HotAt(Q, R, hot, 0) /\ 0 \in 0 .. Len(Q)
  BY <1>1, <1>2 DEF HotAt
<1>4. CASE j \in 1 .. Len(Q)
  <2>1. PICK m \in 1 .. Len(Q) : 0 < m /\ m < j /\ Q[m] \in R[2]
    BY <1>1, <1>3, <1>4 DEF InOK
  <2> QED BY <1>1, <1>2, <2>1
<1>5. CASE j = Len(Q) + 1
  <2>1. PICK m \in 1 .. Len(Q) : Q[m] \in R[2]
    BY <1>1, <1>2, <1>5
  <2> QED BY <1>1, <1>2, <1>5, <2>1
<1> QED BY <1>1, <1>4, <1>5

-----------------------------------------------------------------------------
(* A step of the main process.                                             *)

LEMMA MoveMain ==
  ASSUME TypeInv, NEW n, NEW t, NEW p, NEW r1, NEW w, NEW ts, MainMove(n, t, p, r1, w, ts)
  PROVE  /\ main' = [k \in Nodes |-> main'[k]]
         /\ main'[n] = t
         /\ \A k \in Nodes : IsMain(k, main'[k]) /\ (k # n => main'[k] = main[k])
<1>1. main = [k \in Nodes |-> main[k]] /\ \A k \in Nodes : IsMain(k, main[k])
  BY DEF TypeInv
<1>2. main' = [main EXCEPT ![n] = t] /\ n \in Nodes /\ IsMain(n, t)
  BY DEF MainMove, Effect
<1>3. main' = [k \in Nodes |-> main'[k]] /\ main'[n] = t /\ \A k \in Nodes : k # n => main'[k] = main[k]
  BY <1>1, <1>2
<1> QED BY <1>1, <1>2, <1>3

\* What it changes of a peer q.
LEMMA MovePeer ==
  ASSUME TypeInv, NEW n, NEW t, NEW p, NEW r1, NEW w, NEW ts, MainMove(n, t, p, r1, w, ts), NEW q \in Ids
  PROVE  /\ Known(q)' <=> Known(q) \/ q = p
         /\ Peer(p)' = r1
         /\ Known(q) /\ q # p => Peer(q)' = Peer(q)
<1>1. main'[n] = t /\ \A k \in Nodes : k # n => main'[k] = main[k]
  BY MoveMain
<1>2. Owner(q) \in Nodes
  BY IdFacts
<1>3. p \in Ids /\ Owner(p) = n /\ n \in Nodes
  BY DEF MainMove
<1>4. /\ DOMAIN t.peer = DOMAIN main[n].peer \cup {p}
      /\ t.peer[p] = r1
      /\ \A v \in DOMAIN main[n].peer : v # p => t.peer[v] = main[n].peer[v]
  BY DEF MainMove, Effect
<1>5. CASE Owner(q) = n
  BY <1>1, <1>3, <1>4, <1>5 DEF Known, Peer
<1>6. CASE Owner(q) # n
  BY <1>1, <1>2, <1>3, <1>4, <1>6 DEF Known, Peer
<1> QED BY <1>5, <1>6

LEMMA MoveOut ==
  ASSUME TypeInv, NEW n, NEW t, NEW p, NEW r1, NEW w, NEW ts, MainMove(n, t, p, r1, w, ts), NEW q \in Ids
  PROVE  IF Owner(q) = n THEN Joined(Out(q)', Out(q), Sent(p, r1.conn, ts)) ELSE Out(q)' = Out(q)
<1>1. main'[n] = t /\ \A k \in Nodes : k # n => main'[k] = main[k]
  BY MoveMain
<1>2. Owner(q) \in Nodes
  BY IdFacts
<1>3. Joined(t.out, main[n].out, Sent(p, r1.conn, ts))
  BY DEF MainMove, Effect
<1> QED BY <1>1, <1>2, <1>3 DEF Out

LEMMA MoveIn ==
  ASSUME SysInv, NEW n, NEW t, NEW p, NEW r1, NEW w, NEW ts, MainMove(n, t, p, r1, w, ts), NEW q \in Ids
  PROVE  /\ Waiting(q)' = Waiting(q) /\ Linked(q)' = Linked(q) /\ Far(q)' = Far(q)
         /\ In(q)' = In(q) \/ (Took(n, p) /\ Owner(q) = n /\ ~ Waiting(q) /\ Rest(In(q)', In(q)) /\ In(q) = inq[n])
         /\ Inq(q)' = Inq(q) \/ (Took(n, p) /\ Owner(q) = n /\ Rest(Inq(q)', Inq(q)) /\ Inq(q) = inq[n])
         /\ q = p => In(q) = inq[n] /\ In(q)' = inq'[n]
<1>1. UNCHANGED <<link, acc, backlog>>
  BY DEF MainMove
<1>2. Waiting(q)' = Waiting(q) /\ Linked(q)' = Linked(q) /\ Far(q)' = Far(q)
  BY <1>1 DEF Waiting, Linked, Far, Open
<1>3. Owner(q) \in Nodes
  BY IdFacts
<1>4. /\ \A k \in Nodes \ {n} : inq'[k] = inq[k]
      /\ inq'[n] = inq[n] \/ Took(n, p)
  BY DEF MainMove
<1>5. Took(n, p) => Rest(inq'[n], inq[n])
  BY DEF Took
<1>6. Inq(q)' = Inq(q) \/ (Took(n, p) /\ Owner(q) = n /\ Rest(Inq(q)', Inq(q)) /\ Inq(q) = inq[n])
  BY <1>3, <1>4, <1>5 DEF Inq
<1>7. In(q)' = In(q) \/ (Took(n, p) /\ Owner(q) = n /\ ~ Waiting(q) /\ Rest(In(q)', In(q)) /\ In(q) = inq[n])
  BY <1>1, <1>2, <1>6 DEF In
<1>8. q = p => ~ Waiting(q) /\ Owner(q) = n
  BY DEF MainMove
<1>9. q = p => In(q) = inq[n] /\ In(q)' = inq'[n]
  BY <1>2, <1>8 DEF In, Inq
<1> QED BY <1>2, <1>6, <1>7, <1>9

\* The receiver waits no more.
LEMMA CoolIn ==
  ASSUME NEW Q, NEW R, NEW hot \in BOOLEAN, NEW hot1 \in BOOLEAN, InOK(Q, R, hot), hot1 => hot
  PROVE  InOK(Q, R, hot1)
BY DEF InOK, HotAt

LEMMA CoolCross ==
  ASSUME NEW Q, NEW R, NEW hot \in BOOLEAN, NEW hot1 \in BOOLEAN, NEW O, NEW T, NEW due,
         CrossOK(Q, R, hot, O, T, due), hot1 => hot
  PROVE  CrossOK(Q, R, hot1, O, T, due)
BY DEF CrossOK, HotAt

LEMMA MainOut ==
  ASSUME TypeInv, NEW n, NEW t, NEW p, NEW r1, NEW w, NEW ts, AreTypes(ts), MainMove(n, t, p, r1, w, ts),
         r1.conn \in 0 .. MaxConns,
         NEW g \in RuleSet, NEW q \in Ids, NEW due \in BOOLEAN, NEW due1 \in BOOLEAN,
         OutOK(Out(q), Sets(g, q), due),
         IF q = p THEN Follows(g, r1.conn, ts, due, due1) ELSE due1 = due
  PROVE  OutOK(Out(q)', Sets(g, q), due1)
<1>0. p \in Ids /\ Owner(p) = n /\ Len(ts) \in Nat
  BY DEF MainMove
<1>1. IF Owner(q) = n THEN Joined(Out(q)', Out(q), Sent(p, r1.conn, ts)) ELSE Out(q)' = Out(q)
  BY MoveOut
<1>2. CASE q = p
  <2>1. OutOK(Sent(p, r1.conn, ts), Sets(g, p), due1) /\ Led(Sent(p, r1.conn, ts), Sets(g, p), due, due1)
    BY <1>0, <1>2, SentOK DEF Follows
  <2> QED BY <1>0, <1>1, <1>2, <2>1, SendOut
<1>3. CASE q # p /\ Owner(q) = n
  <2>1. Foreign(Sent(p, r1.conn, ts), Sets(g, q))
    BY <1>0, <1>3, SentForeign
  <2> QED BY <1>1, <1>3, <2>1, NoiseOut
<1>4. CASE Owner(q) # n
  BY <1>0, <1>1, <1>4
<1> QED BY <1>2, <1>3, <1>4

LEMMA MainIn ==
  ASSUME SysInv, NEW n, NEW t, NEW p, NEW r1, NEW w, NEW ts, MainMove(n, t, p, r1, w, ts),
         NEW g \in RuleSet, NEW q \in Ids, NEW hot \in BOOLEAN, NEW hot1 \in BOOLEAN,
         InOK(In(q), Sets(g, q), hot),
         IF q = p THEN Warms(g, n, p, hot, hot1) ELSE hot1 = hot
  PROVE  InOK(In(q)', Sets(g, q), hot1)
<1>1. In(q)' = In(q) \/ (Took(n, p) /\ Rest(In(q)', In(q)) /\ In(q) = inq[n])
  BY MoveIn
<1>2. CASE q = p
  <2>1. In(q) = inq[n] /\ In(q)' = inq'[n]
    BY <1>2, MoveIn
  <2>2. CASE Took(n, p)
    <3>1. Rest(In(q)', In(q))
      BY <2>1, <2>2 DEF Took
    <3>2. hot1 => (hot \/ In(q)[1] \in Sets(g, q)[1]) /\ In(q)[1] \notin Sets(g, q)[2]
      BY <1>2, <2>1, <2>2 DEF Warms
    <3> QED BY <3>1, <3>2, ConsumeIn
  <2>3. CASE ~ Took(n, p)
    <3>1. In(q)' = In(q) /\ (hot1 => hot)
      BY <1>1, <1>2, <2>3 DEF Warms
    <3> QED BY <3>1, CoolIn
  <2> QED BY <2>2, <2>3
<1>3. CASE q # p /\ In(q)' = In(q)
  BY <1>3
<1>4. CASE q # p /\ Took(n, p) /\ Rest(In(q)', In(q)) /\ In(q) = inq[n]
  <2>1. In(q)[1].id # q
    BY <1>4 DEF Took
  <2>2. In(q)[1] \notin Sets(g, q)[2]
    BY <2>1, ForeignFacts
  <2> QED BY <1>4, <2>2, ConsumeIn
<1> QED BY <1>1, <1>2, <1>3, <1>4

LEMMA MainCross ==
  ASSUME SysInv, NEW n, NEW t, NEW p, NEW r1, NEW w, NEW ts, AreTypes(ts), MainMove(n, t, p, r1, w, ts),
         r1.conn \in 0 .. MaxConns,
         NEW g \in RuleSet, NEW q \in Ids, NEW f \in Ids, f # q,
         NEW hot \in BOOLEAN, NEW hot1 \in BOOLEAN, NEW due \in BOOLEAN, NEW due1 \in BOOLEAN,
         CrossOK(In(f), Sets(g, f), hot, Out(q), Sets(g, q), due),
         IF f = p THEN Warms(g, n, p, hot, hot1) ELSE hot1 = hot,
         IF q = p THEN Follows(g, r1.conn, ts, due, due1) ELSE due1 = due
  PROVE  CrossOK(In(f)', Sets(g, f), hot1, Out(q)', Sets(g, q), due1)
<1>0. p \in Ids /\ Owner(p) = n /\ Len(ts) \in Nat /\ TypeInv
  BY DEF MainMove, SysInv
<1>1. IF Owner(q) = n THEN Joined(Out(q)', Out(q), Sent(p, r1.conn, ts)) ELSE Out(q)' = Out(q)
  BY <1>0, MoveOut
<1>2. CrossOK(In(f), Sets(g, f), hot, Out(q)', Sets(g, q), due1)
  <2>1. CASE q = p
    <3>1. Led(Sent(p, r1.conn, ts), Sets(g, p), due, due1)
      BY <1>0, <2>1, SentOK DEF Follows
    <3> QED BY <1>0, <1>1, <2>1, <3>1, SendCross
  <2>2. CASE q # p /\ Owner(q) = n
    <3>1. Foreign(Sent(p, r1.conn, ts), Sets(g, q))
      BY <1>0, <2>2, SentForeign
    <3>2. Len(Sent(p, r1.conn, ts)) \in Nat
      BY <1>0, SentFacts
    <3>3. Led(Sent(p, r1.conn, ts), Sets(g, q), due, due)
      BY <3>1, <3>2, ForeignOut
    <3> QED BY <1>1, <2>2, <3>3, SendCross
  <2>3. CASE Owner(q) # n
    BY <1>0, <1>1, <2>3
  <2> QED BY <2>1, <2>2, <2>3
<1>3. In(f)' = In(f) \/ (Took(n, p) /\ Rest(In(f)', In(f)) /\ In(f) = inq[n])
  BY MoveIn
<1>4. CASE f = p
  <2>1. In(f) = inq[n] /\ In(f)' = inq'[n]
    BY <1>4, MoveIn
  <2>2. CASE Took(n, p)
    <3>1. Rest(In(f)', In(f))
      BY <2>1, <2>2 DEF Took
    <3>2. hot1 => (hot \/ In(f)[1] \in Sets(g, f)[1]) /\ In(f)[1] \notin Sets(g, f)[2]
      BY <1>4, <2>1, <2>2 DEF Warms
    <3> QED BY <1>2, <3>1, <3>2, ConsumeCross
  <2>3. CASE ~ Took(n, p)
    <3>1. In(f)' = In(f) /\ (hot1 => hot)
      BY <1>3, <1>4, <2>3 DEF Warms
    <3> QED BY <1>2, <3>1, CoolCross
  <2> QED BY <2>2, <2>3
<1>5. CASE f # p /\ In(f)' = In(f)
  BY <1>2, <1>5
<1>6. CASE f # p /\ Took(n, p) /\ Rest(In(f)', In(f)) /\ In(f) = inq[n]
  <2>1. In(f)[1].id # f
    BY <1>6 DEF Took
  <2>2. In(f)[1] \notin Sets(g, f)[2]
    BY <2>1, ForeignFacts
  <2> QED BY <1>2, <1>6, <2>2, ConsumeCross
<1> QED BY <1>3, <1>4, <1>5, <1>6

LEMMA MoveType ==
  ASSUME SysInv, NEW n, NEW t, NEW p, NEW r1, NEW w, NEW ts, MainMove(n, t, p, r1, w, ts)
  PROVE  TypeInv'
<1>1. main' = [k \in Nodes |-> main'[k]] /\ \A k \in Nodes : IsMain(k, main'[k])
  BY MoveMain DEF SysInv
<1>2. UNCHANGED <<cf, link, acc, backlog>> /\ inq' \in [Nodes -> Seq(Msgs)]
  BY DEF MainMove
<1>3. \A k \in Nodes : IsMain(k, main[k])' <=> IsMain(k, main'[k])
  BY DEF IsMain
<1> QED BY <1>1, <1>2, <1>3 DEF SysInv, TypeInv

LEMMA MovePipe ==
  ASSUME SysInv, NEW n, NEW t, NEW p, NEW r1, NEW w, NEW ts, MainMove(n, t, p, r1, w, ts), GoodTypes(p, ts)
  PROVE  PipeInv'
<1>1. UNCHANGED <<cf, backlog>> /\ Owner(p) = n /\ Len(ts) \in Nat /\ p \in Ids
  BY DEF MainMove
<1>2. ASSUME NEW m PROVE (OutGood(m)' <=> OutGood(m)) /\ (InGood(m)' <=> InGood(m))
  BY <1>1 DEF OutGood, InGood, Wants, RequestType, Auth, Asked, AskedType, AskedAuth
<1>3. ASSUME NEW k \in Nodes, NEW i \in 1 .. Len(main'[k].out)
      PROVE  OutGood(main'[k].out[i])
  <2>1. \A j \in 1 .. Len(main[k].out) : OutGood(main[k].out[j])
    BY DEF SysInv, PipeInv
  <2>2. CASE k # n
    <3>1. main'[k] = main[k]
      BY <2>2, MoveMain DEF SysInv
    <3> QED BY <1>3, <2>1, <3>1
  <2>3. CASE k = n
    <3>1. Joined(main'[k].out, main[k].out, Sent(p, r1.conn, ts))
      BY <2>3, MoveMain DEF SysInv, MainMove, Effect
    <3>2. \/ i \in 1 .. Len(main[k].out) /\ main'[k].out[i] = main[k].out[i]
          \/ \E j \in 1 .. Len(Sent(p, r1.conn, ts)) :
                i = Len(main[k].out) + j /\ main'[k].out[i] = Sent(p, r1.conn, ts)[j]
      <4>1. PICK V, Q, x : V = main'[k].out /\ Q = main[k].out /\ x = Sent(p, r1.conn, ts)
        OBVIOUS
      <4>2. Joined(V, Q, x) /\ i \in 1 .. Len(V)
        BY <1>3, <3>1, <4>1
      <4>3. \/ i \in 1 .. Len(Q) /\ V[i] = Q[i]
            \/ \E j \in 1 .. Len(x) : i = Len(Q) + j /\ V[i] = x[j]
        BY <4>2, JoinedElement
      <4> QED BY <4>1, <4>3
    <3>3. Len(Sent(p, r1.conn, ts)) = Len(ts)
          /\ \A j \in 1 .. Len(ts) : Sent(p, r1.conn, ts)[j] = Msg(p, ts[j], r1.conn)
      BY <1>1, SentFacts
    <3>4. \A j \in 1 .. Len(ts) : OutGood(Msg(p, ts[j], r1.conn))
      BY DEF OutGood, Msg, GoodTypes
    <3> QED BY <2>1, <3>2, <3>3, <3>4
  <2> QED BY <2>2, <2>3
<1>4. ASSUME NEW k \in Nodes, NEW i \in 1 .. Len(inq'[k])
      PROVE  /\ inq'[k][i].type # "CONNECT_TO" /\ Owner(inq'[k][i].id) = k /\ InGood(inq'[k][i])
             /\ inq'[k][i].type = "CONNECTED" => inq'[k][i].conn # 0
  <2>1. \A j \in 1 .. Len(inq[k]) :
           /\ inq[k][j].type # "CONNECT_TO" /\ Owner(inq[k][j].id) = k /\ InGood(inq[k][j])
           /\ inq[k][j].type = "CONNECTED" => inq[k][j].conn # 0
    BY DEF SysInv, PipeInv
  <2>2. inq'[k] = inq[k] \/ Rest(inq'[k], inq[k])
    BY DEF MainMove, Took
  <2>3. CASE Rest(inq'[k], inq[k])
    <3>1. i + 1 \in 1 .. Len(inq[k]) /\ inq'[k][i] = inq[k][i + 1]
      BY <1>4, <2>3, RestElement
    <3> QED BY <2>1, <3>1
  <2> QED BY <1>4, <2>1, <2>2, <2>3
<1>5. \A v \in DOMAIN backlog : \A i \in 1 .. Len(backlog[v]) :
           backlog[v][i].id = v /\ backlog[v][i].type \in PeerMsgs /\ InGood(backlog[v][i])
  BY DEF SysInv, PipeInv
<1>6. (\A k \in Nodes : \A i \in 1 .. Len(main[k].out) : OutGood(main[k].out[i]))'
  BY <1>1, <1>3 DEF OutGood, Wants, RequestType, Auth
<1>7. (\A k \in Nodes : \A i \in 1 .. Len(inq[k]) :
           /\ inq[k][i].type # "CONNECT_TO" /\ Owner(inq[k][i].id) = k /\ InGood(inq[k][i])
           /\ inq[k][i].type = "CONNECTED" => inq[k][i].conn # 0)'
  BY <1>1, <1>4 DEF InGood, Asked, AskedType, AskedAuth
<1>8. (\A v \in DOMAIN backlog : \A i \in 1 .. Len(backlog[v]) :
           backlog[v][i].id = v /\ backlog[v][i].type \in PeerMsgs /\ InGood(backlog[v][i]))'
  BY <1>1, <1>5 DEF InGood, Asked, AskedType, AskedAuth
<1> QED BY <1>6, <1>7, <1>8 DEF PipeInv

LEMMA MoveUnused ==
  ASSUME SysInv, NEW n, NEW t, NEW p, NEW r1, NEW w, NEW ts, MainMove(n, t, p, r1, w, ts),
         NEW q \in Ids, Unused(q), q # p
  PROVE  Unused(q)'
<1>1. ~ Known(q)'
  BY MovePeer DEF SysInv, Unused
<1>2. acc' = acc
  BY DEF MainMove
<1>3. ASSUME NEW i \in 1 .. Len(Inq(q)') PROVE Inq(q)'[i].id # q
  <2>1. Inq(q)' = Inq(q) \/ Rest(Inq(q)', Inq(q))
    BY MoveIn
  <2>2. CASE Rest(Inq(q)', Inq(q))
    <3>1. i + 1 \in 1 .. Len(Inq(q)) /\ Inq(q)'[i] = Inq(q)[i + 1]
      BY <1>3, <2>2, RestElement
    <3> QED BY <3>1 DEF Unused
  <2> QED BY <1>3, <2>1, <2>2 DEF Unused
<1> QED BY <1>1, <1>2, <1>3 DEF Unused

LEMMA MoveFresh ==
  ASSUME SysInv, NEW n, NEW t, NEW p, NEW r1, NEW w, NEW ts, MainMove(n, t, p, r1, w, ts)
  PROVE  FreshInv'
<1>0. TypeInv /\ FreshInv
  BY DEF SysInv
<1>1. UNCHANGED <<cf, link, acc, backlog>> /\ Owner(p) = n /\ p \in Ids /\ ~ Waiting(p) /\ p[2] <= link[p[1]].conn
  BY DEF MainMove
<1>2. \A q \in Ids : Known(q)' <=> Known(q) \/ q = p
  BY <1>0, MovePeer
<1>3. ASSUME NEW l \in Links PROVE <<l, 0>> \in Ids
  BY ConstantsAssumption DEF Ids
<1>4. \A l \in Links : link[l].entry # "none" => Known(<<l, 0>>)'
  BY <1>0, <1>2, <1>3 DEF FreshInv
<1>5. ASSUME NEW q \in Ids, q[2] > link[q[1]].conn PROVE Unused(q)' /\ ~ Waiting(q)'
  <2>1. Unused(q) /\ ~ Waiting(q)
    BY <1>0, <1>5 DEF FreshInv
  <2>2. q # p
    <3>1. link[p[1]].conn \in Nat /\ p[2] \in Nat
      BY <1>0, <1>1, IdFacts DEF TypeInv
    <3> QED BY <1>1, <1>5, <3>1
  <2> QED BY <1>1, <2>1, <2>2, MoveUnused DEF Waiting
<1>6. ASSUME NEW q \in DOMAIN backlog PROVE Unused(q)'
  <2>1. Unused(q) /\ q \in Ids /\ q # p
    BY <1>0, <1>1 DEF FreshInv, TypeInv, Waiting
  <2> QED BY <2>1, MoveUnused
<1>7. ASSUME NEW q \in Ids PROVE InOK(Inq(q)', Intro(q), ~ Known(q)')
  <2> DEFINE h == ~ Known(q)
             h1 == ~ Known(q)'
  <2>1. InOK(Inq(q), Intro(q), h) /\ h \in BOOLEAN /\ h1 \in BOOLEAN /\ (h1 => h /\ q # p)
    BY <1>0, <1>2 DEF FreshInv
  <2>2. Inq(q)' = Inq(q) \/ (Took(n, p) /\ Rest(Inq(q)', Inq(q)) /\ Inq(q) = inq[n])
    BY MoveIn
  <2>3. CASE Inq(q)' = Inq(q)
    <3> HIDE DEF h, h1
    <3>1. InOK(Inq(q), Intro(q), h1)
      BY <2>1, CoolIn
    <3> QED BY <2>3, <3>1 DEF h1
  <2>4. CASE Took(n, p) /\ Rest(Inq(q)', Inq(q)) /\ Inq(q) = inq[n]
    <3>1. h1 => Inq(q)[1].id # q
      BY <2>1, <2>4 DEF Took
    <3>2. h1 => Inq(q)[1] \notin Intro(q)[2]
      BY <3>1 DEF Intro
    <3> HIDE DEF h, h1
    <3>3. InOK(Inq(q)', Intro(q), h1)
      BY <2>1, <2>4, <3>2, ConsumeIn
    <3> QED BY <3>3 DEF h1
  <2> QED BY <2>2, <2>3, <2>4
<1>8. ASSUME NEW q \in acc, ~ Known(q)' PROVE \E i \in 1 .. Len(Inq(q)') : Inq(q)'[i] \in Intro(q)[2]
  <2>1. q \in Ids /\ ~ Known(q) /\ q # p
    BY <1>0, <1>2, <1>8 DEF TypeInv
  <2>2. PICK i \in 1 .. Len(Inq(q)) : Inq(q)[i] \in Intro(q)[2]
    BY <1>0, <2>1 DEF FreshInv
  <2>3. Inq(q)' = Inq(q) \/ (Took(n, p) /\ Rest(Inq(q)', Inq(q)) /\ Inq(q) = inq[n])
    BY <2>1, MoveIn
  <2>4. CASE Took(n, p) /\ Rest(Inq(q)', Inq(q)) /\ Inq(q) = inq[n]
    <3>1. Inq(q)[1].id = p /\ Inq(q)[i].id = q
      BY <2>2, <2>4 DEF Took, Intro
    <3>2. i # 1
      BY <2>1, <3>1
    <3>3. i - 1 \in 1 .. Len(Inq(q)') /\ Inq(q)'[i - 1] = Inq(q)[i]
      BY <2>2, <2>4, <3>2 DEF Rest
    <3> QED BY <2>2, <3>3
  <2> QED BY <2>2, <2>3, <2>4
<1>9. \A l \in Links : link[l].entry = "up" => link[l].conn # 0
  BY <1>0 DEF FreshInv
<1>10. \A q \in Ids : Intro(q)' = Intro(q)
  BY DEF Intro
<1>11. (\A q \in Ids : InOK(Inq(q), Intro(q), ~ Known(q)))'
  <2>1. ASSUME NEW q \in Ids PROVE InOK(Inq(q), Intro(q), ~ Known(q))'
    BY <1>7, <1>10 DEF InOK, HotAt
  <2> QED BY <2>1
<1> QED BY <1>1, <1>4, <1>5, <1>6, <1>8, <1>9, <1>10, <1>11 DEF FreshInv

LEMMA MoveSys ==
  ASSUME SysInv, NEW n, NEW t, NEW p, NEW r1, NEW w, NEW ts, MainMove(n, t, p, r1, w, ts), GoodTypes(p, ts)
  PROVE  SysInv'
BY MoveType, MovePipe, MoveFresh DEF SysInv

-----------------------------------------------------------------------------
(* A step of the child.                                                    *)

LEMMA MainWithout ==
  ASSUME NEW n, NEW s, IsMain(n, s), NEW t, t.peer = s.peer, t.sync_pending = s.sync_pending,
         t = [peer |-> t.peer, in_sync |-> t.in_sync, sync_pending |-> t.sync_pending, out |-> t.out],
         Rest(t.out, s.out), t.out \in Seq(Msgs)
  PROVE  IsMain(n, t)
<1>1. ASSUME NEW i \in 1 .. Len(t.out)
      PROVE /\ t.out[i].id \in DOMAIN s.peer /\ t.out[i].type # "CONNECTED"
            /\ t.out[i].type = "CONNECT_TO" => t.out[i].id[2] = 0
  <2>1. i + 1 \in 1 .. Len(s.out) /\ t.out[i] = s.out[i + 1]
    BY <1>1, RestElement
  <2>2. /\ s.out[i + 1].id \in DOMAIN s.peer /\ s.out[i + 1].type # "CONNECTED"
        /\ s.out[i + 1].type = "CONNECT_TO" => s.out[i + 1].id[2] = 0
    BY <2>1 DEF IsMain
  <2> QED BY <2>1, <2>2
<1>2. s.peer = [p \in DOMAIN s.peer |-> s.peer[p]]
      /\ (\A p \in DOMAIN s.peer : p \in Ids /\ Owner(p) = n /\ s.peer[p] \in PeerSet)
      /\ s.sync_pending \in Seq(Ids)
      /\ (\A i \in 1 .. Len(s.sync_pending) : s.sync_pending[i] \in DOMAIN s.peer)
  BY DEF IsMain
<1> QED BY <1>1, <1>2 DEF IsMain

LEMMA PopMain ==
  ASSUME NEW n, NEW s, IsMain(n, s), s.out # << >>, NEW t, t = [s EXCEPT !.out = Tail(@)]
  PROVE  /\ IsMain(n, t) /\ t.peer = s.peer /\ t.sync_pending = s.sync_pending
         /\ Rest(t.out, s.out)
<1>1. s = [peer |-> s.peer, in_sync |-> s.in_sync, sync_pending |-> s.sync_pending, out |-> s.out]
  BY MainFacts
<1>2. s.out \in Seq(Msgs)
  BY MainFacts
<1>3. Tail(s.out) \in Seq(Msgs) /\ Rest(Tail(s.out), s.out)
  BY <1>2, TailRest
<1>4. /\ t.peer = s.peer /\ t.sync_pending = s.sync_pending /\ t.out = Tail(s.out)
      /\ t = [peer |-> t.peer, in_sync |-> t.in_sync, sync_pending |-> t.sync_pending, out |-> t.out]
  BY <1>1
<1>5. Rest(t.out, s.out) /\ t.out \in Seq(Msgs)
  BY <1>3, <1>4
<1>6. IsMain(n, t)
  BY <1>4, <1>5, MainWithout
<1> QED BY <1>4, <1>5, <1>6

LEMMA ChildState ==
  ASSUME TypeInv, NEW n, ChildMain(n)
  PROVE  /\ main' = [k \in Nodes |-> main'[k]]
         /\ \A k \in Nodes : /\ IsMain(k, main'[k]) /\ main'[k].peer = main[k].peer
                             /\ main'[k].sync_pending = main[k].sync_pending
                             /\ main'[k].out = main[k].out \/ (Rest(main'[k].out, main[k].out) /\ k = n)
<1>1. main = [k \in Nodes |-> main[k]] /\ \A k \in Nodes : IsMain(k, main[k])
  BY DEF TypeInv
<1>2. CASE main' = main
  BY <1>1, <1>2
<1>3. CASE main[n].out # << >> /\ main' = [main EXCEPT ![n] = [main[n] EXCEPT !.out = Tail(@)]]
  <2> DEFINE t == [main[n] EXCEPT !.out = Tail(@)]
  <2>1. n \in Nodes
    BY DEF ChildMain
  <2>2. /\ IsMain(n, t) /\ t.peer = main[n].peer /\ t.sync_pending = main[n].sync_pending
        /\ Rest(t.out, main[n].out)
    BY <1>1, <1>3, <2>1, PopMain
  <2>3. main' = [main EXCEPT ![n] = t]
    BY <1>3
  <2> HIDE DEF t
  <2>4. main' = [k \in Nodes |-> main'[k]] /\ main'[n] = t /\ \A k \in Nodes : k # n => main'[k] = main[k]
    BY <1>1, <2>1, <2>3
  <2> QED BY <1>1, <2>2, <2>4
<1> QED BY <1>2, <1>3 DEF ChildMain

LEMMA ChildPeer ==
  ASSUME TypeInv, NEW n, ChildMain(n), NEW q \in Ids
  PROVE  /\ Known(q)' <=> Known(q)
         /\ Peer(q)' = Peer(q)
         /\ Out(q)' = Out(q) \/ (Rest(Out(q)', Out(q)) /\ Owner(q) = n)
<1>1. Owner(q) \in Nodes
  BY IdFacts
<1>2. /\ main'[Owner(q)].peer = main[Owner(q)].peer
      /\ main'[Owner(q)].out = main[Owner(q)].out \/ (Rest(main'[Owner(q)].out, main[Owner(q)].out) /\ Owner(q) = n)
  BY <1>1, ChildState
<1> QED BY <1>2 DEF Known, Peer, Out

LEMMA ToldFacts ==
  ASSUME TypeInv, NEW p, NEW type, NEW k, Told(p, type, k)
  PROVE  /\ inq' \in [Nodes -> Seq(Msgs)]
         /\ Owner(p) \in Nodes
         /\ More(inq'[Owner(p)], inq[Owner(p)], Msg(p, type, k))
         /\ \A j \in Nodes : j # Owner(p) => inq'[j] = inq[j]
         /\ \A q \in Ids : Tells(p, type, k, q)
<1>1. inq \in [Nodes -> Seq(Msgs)]
  BY DEF TypeInv
<1>2. Owner(p) \in Nodes
  BY IdFacts DEF Told
<1> DEFINE e == Msg(p, type, k)
           a == Append(inq[Owner(p)], e)
<1>3. inq' = [inq EXCEPT ![Owner(p)] = a]
  BY DEF Told, ToParent
<1>4. e \in Msgs /\ inq[Owner(p)] \in Seq(Msgs)
  BY <1>1, <1>2 DEF Told
<1> HIDE DEF e
<1>5. a \in Seq(Msgs) /\ More(a, inq[Owner(p)], e)
  BY <1>4, AppendMore
<1> HIDE DEF a
<1>6. inq' \in [Nodes -> Seq(Msgs)] /\ inq'[Owner(p)] = a /\ \A j \in Nodes : j # Owner(p) => inq'[j] = inq[j]
  BY <1>1, <1>2, <1>3, <1>5
<1>7. \A q \in Ids : Owner(q) \in Nodes
  BY IdFacts
<1> QED BY <1>2, <1>5, <1>6, <1>7 DEF e, Tells, Inq

LEMMA SameInq ==
  ASSUME SysInv, inq' = inq
  PROVE  InqGood
<1>1. \A q \in Ids : Inq(q)' = Inq(q)
  BY DEF Inq
<1> QED BY <1>1 DEF InqGood, SysInv, TypeInv, PipeInv, FreshInv, Unused

LEMMA ToldInq ==
  ASSUME SysInv, NEW p, NEW type, NEW k, Told(p, type, k)
  PROVE  InqGood
<1>0. TypeInv /\ PipeInv /\ FreshInv
  BY DEF SysInv
<1>1. /\ inq' \in [Nodes -> Seq(Msgs)]
      /\ Owner(p) \in Nodes
      /\ More(inq'[Owner(p)], inq[Owner(p)], Msg(p, type, k))
      /\ \A j \in Nodes : j # Owner(p) => inq'[j] = inq[j]
      /\ \A q \in Ids : Tells(p, type, k, q)
  BY <1>0, ToldFacts
<1>2. Msg(p, type, k).id = p /\ Msg(p, type, k).type = type /\ Msg(p, type, k).conn = k
  BY DEF Msg
<1>3. /\ p \in Ids /\ Arrives(p) /\ Msg(p, type, k) \in Msgs
      /\ type # "CONNECT_TO" /\ InGood(Msg(p, type, k)) /\ (type = "CONNECTED" => k # 0)
  BY DEF Told
<1>4. ASSUME NEW j \in Nodes, NEW i \in 1 .. Len(inq'[j])
      PROVE  /\ inq'[j][i].type # "CONNECT_TO" /\ Owner(inq'[j][i].id) = j /\ InGood(inq'[j][i])
             /\ inq'[j][i].type = "CONNECTED" => inq'[j][i].conn # 0
  <2>1. \A h \in 1 .. Len(inq[j]) :
           /\ inq[j][h].type # "CONNECT_TO" /\ Owner(inq[j][h].id) = j /\ InGood(inq[j][h])
           /\ inq[j][h].type = "CONNECTED" => inq[j][h].conn # 0
    BY <1>0 DEF PipeInv
  <2>2. CASE j # Owner(p)
    BY <1>1, <1>4, <2>1, <2>2
  <2>3. CASE j = Owner(p)
    <3>1. More(inq'[j], inq[j], Msg(p, type, k))
      BY <1>1, <2>3
    <3>2. (i \in 1 .. Len(inq[j]) /\ inq'[j][i] = inq[j][i]) \/ inq'[j][i] = Msg(p, type, k)
      BY <1>4, <3>1, MoreElement
    <3> QED BY <1>2, <1>3, <2>1, <2>3, <3>2
  <2> QED BY <2>2, <2>3
<1>5. ASSUME NEW q \in Ids
      PROVE  /\ InOK(Inq(q)', Intro(q), ~ Known(q))
             /\ Unused(q) => \A i \in 1 .. Len(Inq(q)') : Inq(q)'[i].id # q
             /\ \A i \in 1 .. Len(Inq(q)) : i \in 1 .. Len(Inq(q)') /\ Inq(q)'[i] = Inq(q)[i]
  <2>1. Tells(p, type, k, q)
    BY <1>1, <1>5
  <2>2. CASE Owner(q) # Owner(p)
    <3>1. Inq(q)' = Inq(q)
      BY <2>1, <2>2 DEF Tells
    <3> QED BY <1>0, <3>1 DEF FreshInv, Unused
  <2>3. CASE Owner(q) = Owner(p)
    <3>1. More(Inq(q)', Inq(q), Msg(p, type, k))
      BY <2>1, <2>3 DEF Tells
    <3>2. \A i \in 1 .. Len(Inq(q)) : i \in 1 .. Len(Inq(q)') /\ Inq(q)'[i] = Inq(q)[i]
      BY <3>1 DEF More
    <3>3. Unused(q) => q # p
      BY <1>3 DEF Unused, Arrives, Intro
    <3>4. ASSUME Unused(q), NEW i \in 1 .. Len(Inq(q)') PROVE Inq(q)'[i].id # q
      <4>1. (i \in 1 .. Len(Inq(q)) /\ Inq(q)'[i] = Inq(q)[i]) \/ Inq(q)'[i] = Msg(p, type, k)
        BY <3>1, <3>4, MoreElement
      <4> QED BY <1>2, <3>3, <3>4, <4>1 DEF Unused
    <3>5. InOK(Inq(q)', Intro(q), ~ Known(q))
      <4> DEFINE h == ~ Known(q)
                 m == Msg(p, type, k)
      <4>1. InOK(Inq(q), Intro(q), h) /\ h \in BOOLEAN
        BY <1>0 DEF FreshInv
      <4>2. Intro(q)[1] = {}
        BY DEF Intro
      <4>3. m \in Intro(q)[3] => q = p
        BY <1>2 DEF Intro
      <4>4. h /\ m \in Intro(q)[3] => \E i \in 1 .. Len(Inq(q)) : Inq(q)[i] \in Intro(q)[2]
        BY <1>3, <4>3 DEF Arrives
      <4> HIDE DEF h, m
      <4>5. More(Inq(q)', Inq(q), m)
        BY <3>1 DEF m
      <4>6. InOK(Inq(q)', Intro(q), h)
        BY <4>1, <4>2, <4>4, <4>5, KnownIn
      <4> QED BY <4>6 DEF h
    <3> QED BY <3>2, <3>4, <3>5
  <2> QED BY <2>2, <2>3
<1> QED BY <1>1, <1>4, <1>5 DEF InqGood

LEMMA ChildSys ==
  ASSUME SysInv, NEW n, ChildMain(n), InqGood, NetStep
  PROVE  SysInv'
<1>0. TypeInv /\ PipeInv /\ FreshInv /\ cf' = cf
  BY DEF SysInv, ChildMain
<1>1. /\ main' = [k \in Nodes |-> main'[k]]
      /\ \A k \in Nodes : /\ IsMain(k, main'[k])
                          /\ main'[k].out = main[k].out \/ Rest(main'[k].out, main[k].out)
  BY <1>0, ChildState
<1>2. \A q \in Ids : Known(q)' <=> Known(q)
  BY <1>0, ChildPeer
<1>3. TypeInv'
  <2>1. \A k \in Nodes : IsMain(k, main[k])' <=> IsMain(k, main'[k])
    BY DEF IsMain
  <2>2. acc' \subseteq Ids /\ \A p \in acc' : p[2] # 0
    BY <1>0 DEF NetStep, TypeInv
  <2>3. inq' \in [Nodes -> Seq(Msgs)] /\ cf' \in Configs
    BY <1>0 DEF InqGood, TypeInv
  <2> QED BY <1>1, <2>1, <2>2, <2>3 DEF TypeInv, NetStep
<1>4. PipeInv'
  <2>1. ASSUME NEW k \in Nodes, NEW i \in 1 .. Len(main'[k].out) PROVE OutGood(main'[k].out[i])
    <3>1. \A j \in 1 .. Len(main[k].out) : OutGood(main[k].out[j])
      BY <1>0 DEF PipeInv
    <3>2. CASE Rest(main'[k].out, main[k].out)
      <4>1. i + 1 \in 1 .. Len(main[k].out) /\ main'[k].out[i] = main[k].out[i + 1]
        BY <2>1, <3>2, RestElement
      <4> QED BY <3>1, <4>1
    <3> QED BY <1>1, <2>1, <3>1, <3>2
  <2>2. (\A k \in Nodes : \A i \in 1 .. Len(main[k].out) : OutGood(main[k].out[i]))'
    BY <1>0, <2>1 DEF OutGood, Wants, RequestType, Auth
  <2>3. (\A k \in Nodes : \A i \in 1 .. Len(inq[k]) :
           /\ inq[k][i].type # "CONNECT_TO" /\ Owner(inq[k][i].id) = k /\ InGood(inq[k][i])
           /\ inq[k][i].type = "CONNECTED" => inq[k][i].conn # 0)'
    BY <1>0 DEF InqGood, InGood, Asked, AskedType, AskedAuth
  <2>4. (\A v \in DOMAIN backlog : \A i \in 1 .. Len(backlog[v]) :
           backlog[v][i].id = v /\ backlog[v][i].type \in PeerMsgs /\ InGood(backlog[v][i]))'
    BY <1>0 DEF NetStep, InGood, Asked, AskedType, AskedAuth
  <2> QED BY <2>2, <2>3, <2>4 DEF PipeInv
<1>5. ASSUME NEW q \in Ids, Unused(q) PROVE Unused(q)'
  <2>1. ~ Known(q)' /\ q \notin acc'
    BY <1>2, <1>5 DEF Unused, NetStep
  <2>2. \A i \in 1 .. Len(Inq(q)') : Inq(q)'[i].id # q
    BY <1>5 DEF InqGood
  <2> QED BY <2>1, <2>2 DEF Unused
<1>6. FreshInv'
  <2>1. ASSUME NEW l \in Links PROVE <<l, 0>> \in Ids
    BY ConstantsAssumption DEF Ids
  <2>2. (\A l \in Links : link[l].entry # "none" => Known(<<l, 0>>))'
    BY <1>2, <2>1 DEF NetStep
  <2>3. (\A l \in Links : link[l].entry = "up" => link[l].conn # 0)'
    BY DEF NetStep
  <2>4. ASSUME NEW q \in Ids, q[2] > link'[q[1]].conn PROVE Unused(q)' /\ ~ Waiting(q)'
    <3>1. q[2] \in Nat /\ q[1] \in Links
      BY IdFacts
    <3>2. link[q[1]].conn \in Nat /\ link'[q[1]].conn \in Nat /\ link[q[1]].conn <= link'[q[1]].conn
      <4>1. link \in [Links -> [entry : {"none", "wait", "up"}, conn : 0 .. MaxConns]]
        BY <1>0 DEF TypeInv
      <4>2. link' \in [Links -> [entry : {"none", "wait", "up"}, conn : 0 .. MaxConns]]
        BY DEF NetStep
      <4>3. link[q[1]].conn <= link'[q[1]].conn
        BY <3>1 DEF NetStep
      <4> QED BY <3>1, <4>1, <4>2, <4>3
    <3>3. q[2] > link[q[1]].conn
      BY <2>4, <3>1, <3>2
    <3>4. Unused(q)
      BY <1>0, <3>3 DEF FreshInv
    <3>5. q \in DOMAIN backlog' => q[2] <= link'[q[1]].conn
      BY DEF NetStep
    <3>6. ~ Waiting(q)'
      BY <2>4, <3>1, <3>2, <3>5 DEF Waiting
    <3> QED BY <1>5, <3>4, <3>6
  <2>5. ASSUME NEW q \in DOMAIN backlog' PROVE Unused(q)'
    <3>1. q \in Ids /\ (q \in DOMAIN backlog \/ q[2] > link[q[1]].conn)
      BY <2>5 DEF NetStep
    <3>2. Unused(q)
      BY <1>0, <3>1 DEF FreshInv
    <3> QED BY <1>5, <3>1, <3>2
  <2>6. \A q \in Ids : Intro(q)' = Intro(q)
    BY DEF Intro
  <2>7. ASSUME NEW q \in Ids PROVE InOK(Inq(q), Intro(q), ~ Known(q))'
    <3>1. InOK(Inq(q)', Intro(q), ~ Known(q))
      BY <2>7 DEF InqGood
    <3> QED BY <1>2, <2>6, <2>7, <3>1 DEF InOK, HotAt
  <2>8. ASSUME NEW q \in acc' PROVE Known(q)' \/ \E i \in 1 .. Len(Inq(q)') : Inq(q)'[i] \in Intro(q)[2]
    <3>1. q \in acc /\ q \in Ids
      BY <1>0, <2>8 DEF NetStep, TypeInv
    <3>2. CASE Known(q)
      BY <1>2, <3>1, <3>2
    <3>3. CASE ~ Known(q)
      <4>1. PICK i \in 1 .. Len(Inq(q)) : Inq(q)[i] \in Intro(q)[2]
        BY <1>0, <3>1, <3>3 DEF FreshInv
      <4>2. i \in 1 .. Len(Inq(q)') /\ Inq(q)'[i] = Inq(q)[i]
        BY <3>1, <4>1 DEF InqGood
      <4> QED BY <4>1, <4>2
    <3> QED BY <3>2, <3>3
  <2>9. (\A q \in Ids : InOK(Inq(q), Intro(q), ~ Known(q)))'
    BY <2>7
  <2>10. (\A q \in acc : Known(q) \/ \E i \in 1 .. Len(Inq(q)) : Inq(q)[i] \in Intro(q)[2])'
    BY <1>3, <2>6, <2>8 DEF TypeInv
  <2>11. (\A q \in Ids : q[2] > link[q[1]].conn => Unused(q) /\ ~ Waiting(q))'
    BY <2>4
  <2>12. (\A q \in DOMAIN backlog : Unused(q))'
    BY <2>5
  <2> QED BY <2>2, <2>3, <2>9, <2>10, <2>11, <2>12 DEF FreshInv
<1> QED BY <1>3, <1>4, <1>6 DEF SysInv

LEMMA SameNet ==
  ASSUME SysInv, UNCHANGED <<link, acc, backlog>>
  PROVE  NetStep
<1>1. TypeInv /\ PipeInv /\ FreshInv
  BY DEF SysInv
<1>2. \A q \in DOMAIN backlog : q \in Ids /\ q[2] # 0 /\ q[2] <= link[q[1]].conn
  <2>1. ASSUME NEW q \in DOMAIN backlog PROVE q[2] <= link[q[1]].conn
    <3>1. q \in Ids
      BY <1>1, <2>1 DEF TypeInv
    <3>2. q[2] \in Nat /\ link[q[1]].conn \in Nat
      BY <1>1, <3>1, IdFacts DEF TypeInv
    <3>3. ~ (q[2] > link[q[1]].conn)
      BY <1>1, <2>1, <3>1 DEF FreshInv, Waiting
    <3> QED BY <3>2, <3>3
  <2> QED BY <1>1, <2>1 DEF TypeInv
<1>3. \A l \in Links : link[l].conn \in Nat
  BY <1>1 DEF TypeInv
<1>4. \A l \in Links : (link[l].entry # "none" => Known(<<l, 0>>)) /\ (link[l].entry = "up" => link[l].conn # 0)
  BY <1>1 DEF FreshInv
<1>5. backlog = [q \in DOMAIN backlog |-> backlog[q]]
  BY <1>1 DEF TypeInv
<1>6. ASSUME NEW q \in DOMAIN backlog
      PROVE  /\ q \in Ids /\ q[2] # 0 /\ q[2] <= link[q[1]].conn /\ backlog[q] \in Seq(Msgs)
             /\ \A i \in 1 .. Len(backlog[q]) : /\ backlog[q][i].id = q /\ backlog[q][i].type \in PeerMsgs
                                                /\ InGood(backlog[q][i])
  BY <1>1, <1>2, <1>6 DEF TypeInv, PipeInv
<1>7. link \in [Links -> [entry : {"none", "wait", "up"}, conn : 0 .. MaxConns]]
  BY <1>1 DEF TypeInv
<1> QED BY <1>3, <1>4, <1>5, <1>6, <1>7 DEF NetStep

\* The ends of a connection mirror each other.
LEMMA Mirror ==
  ASSUME TypeInv, FreshInv, NEW q \in Ids, Linked(q)
  PROVE  /\ Far(q) \in Ids /\ Far(q) # q /\ Far(Far(q)) = q
         /\ Owner(Far(q)) = Other(q) /\ Other(Far(q)) = Owner(q)
<1>1. q[1] \in Links /\ q[2] \in 0 .. MaxConns /\ q = <<q[1], q[2]>>
  BY IdFacts
<1>2. Far(Far(q)) = q /\ Open(q)
  BY DEF Linked
<1>3. CASE q[2] = 0
  <2>1. link[q[1]].entry = "up"
    BY <1>2, <1>3 DEF Open
  <2>2. link[q[1]].conn # 0 /\ link[q[1]].conn \in 0 .. MaxConns
    BY <1>1, <2>1 DEF FreshInv, TypeInv
  <2>3. Far(q) = <<q[1], link[q[1]].conn>>
    BY <1>3 DEF Far
  <2>4. Far(q) \in Ids /\ Far(q)[1] = q[1] /\ Far(q)[2] # 0
    BY <1>1, <2>2, <2>3 DEF Ids
  <2> QED BY <1>2, <1>3, <2>4 DEF Owner, Other
<1>4. CASE q[2] # 0
  <2>1. Far(q) = <<q[1], 0>>
    BY <1>4 DEF Far
  <2>2. Far(q) \in Ids /\ Far(q)[1] = q[1] /\ Far(q)[2] = 0
    BY <1>1, <2>1, ConstantsAssumption DEF Ids
  <2> QED BY <1>2, <1>4, <2>2 DEF Owner, Other
<1> QED BY <1>3, <1>4

LEMMA CutNet ==
  ASSUME SysInv, NEW p, NEW e, Cut(p, e)
  PROVE  NetStep
<1>1. TypeInv /\ PipeInv /\ FreshInv
  BY DEF SysInv
<1>2. link \in [Links -> [entry : {"none", "wait", "up"}, conn : 0 .. MaxConns]]
  BY <1>1 DEF TypeInv
<1>3. p[1] \in Links /\ p = <<p[1], p[2]>>
  BY IdFacts DEF Cut
<1>4. e \in {"none", "wait"} /\ (p[2] = 0 /\ e = "wait" => Known(<<p[1], 0>>))
  BY <1>3 DEF Cut
<1>5. \A l \in Links : (link[l].entry # "none" => Known(<<l, 0>>)) /\ (link[l].entry = "up" => link[l].conn # 0)
  BY <1>1 DEF FreshInv
<1>6. /\ link' \in [Links -> [entry : {"none", "wait", "up"}, conn : 0 .. MaxConns]]
      /\ \A l \in Links : /\ link'[l].conn = link[l].conn
                          /\ link'[l].entry = link[l].entry \/ (p[2] = 0 /\ l = p[1] /\ link'[l].entry = e)
  <2>1. CASE p[2] = 0
    <3>1. link' = [link EXCEPT ![p[1]].entry = e]
      BY <2>1 DEF Cut
    <3> QED BY <1>2, <1>3, <1>4, <2>1, <3>1
  <2>2. CASE p[2] # 0
    <3>1. link' = link
      BY <2>2 DEF Cut
    <3> QED BY <1>2, <3>1
  <2> QED BY <2>1, <2>2
<1>7. \A l \in Links : link'[l].entry # "none" => Known(<<l, 0>>)
  BY <1>4, <1>5, <1>6
<1>8. \A l \in Links : link'[l].entry = "up" => link'[l].conn # 0
  BY <1>4, <1>5, <1>6
<1>9. \A l \in Links : link[l].conn <= link'[l].conn
  BY <1>2, <1>6
<1>10. acc' \subseteq acc /\ backlog' = backlog
  BY DEF Cut
<1>11. ASSUME NEW q \in DOMAIN backlog
      PROVE  /\ q \in Ids /\ q[2] # 0 /\ q[2] <= link'[q[1]].conn /\ backlog[q] \in Seq(Msgs)
             /\ \A i \in 1 .. Len(backlog[q]) : /\ backlog[q][i].id = q /\ backlog[q][i].type \in PeerMsgs
                                                /\ InGood(backlog[q][i])
  <2>1. q \in Ids
    BY <1>1, <1>11 DEF TypeInv
  <2>2. q[2] \in Nat /\ q[1] \in Links /\ link[q[1]].conn \in Nat
    BY <1>2, <2>1, IdFacts
  <2>3. ~ (q[2] > link[q[1]].conn)
    BY <1>1, <1>11, <2>1 DEF FreshInv, Waiting
  <2>4. q[2] <= link'[q[1]].conn
    BY <1>6, <2>2, <2>3
  <2> QED BY <1>1, <1>11, <2>1, <2>4 DEF TypeInv, PipeInv
<1>12. backlog = [q \in DOMAIN backlog |-> backlog[q]]
  BY <1>1 DEF TypeInv
<1> QED BY <1>6, <1>7, <1>8, <1>9, <1>10, <1>11, <1>12 DEF NetStep

\* What is linked after that was linked before.
LEMMA CutLinked ==
  ASSUME SysInv, NEW p, NEW e, Cut(p, e), NEW q \in Ids
  PROVE  /\ Linked(q)' => Linked(q) /\ Far(q)' = Far(q)
         /\ Waiting(q)' = Waiting(q) /\ backlog' = backlog
<1>1. link \in [Links -> [entry : {"none", "wait", "up"}, conn : 0 .. MaxConns]]
  BY DEF SysInv, TypeInv
<1>2. p[1] \in Links /\ p \in Ids
  BY IdFacts DEF Cut
<1>3. \A l \in Links : link'[l].conn = link[l].conn /\ (link'[l].entry = "up" => link[l].entry = "up")
  <2>1. CASE p[2] = 0
    <3>1. link' = [link EXCEPT ![p[1]].entry = e] /\ e # "up"
      BY <2>1 DEF Cut
    <3> QED BY <1>1, <1>2, <2>1, <3>1
  <2>2. CASE p[2] # 0
    <3>1. link' = link
      BY <2>2 DEF Cut
    <3> QED BY <1>1, <3>1
  <2> QED BY <2>1, <2>2
<1>4. acc' \subseteq acc /\ backlog' = backlog
  BY DEF Cut
<1>5. ASSUME NEW v, v[1] \in Links PROVE Far(v)' = Far(v) /\ Far(v)[1] = v[1] /\ (Open(v)' => Open(v))
  BY <1>3, <1>4, <1>5 DEF Far, Open
<1>6. q[1] \in Links
  BY IdFacts
<1>0. PICK f : f = Far(q)
  OBVIOUS
<1>7. Far(q)' = f /\ f[1] \in Links /\ (Open(q)' => Open(q))
  BY <1>0, <1>5, <1>6
<1>8. Far(f)' = Far(f) /\ (Open(f)' => Open(f))
  BY <1>5, <1>7
<1>9. Far(Far(q))' = Far(f)' /\ Open(Far(q))' = Open(f)' /\ Waiting(Far(q))' = Waiting(f)'
  BY <1>7 DEF Far, Open, Waiting
<1>10. Waiting(f)' = Waiting(f) /\ Waiting(q)' = Waiting(q)
  BY <1>4 DEF Waiting
<1>11. Linked(q)' => Linked(q)
  BY <1>0, <1>7, <1>8, <1>9, <1>10 DEF Linked
<1> QED BY <1>0, <1>4, <1>7, <1>10, <1>11

LEMMA UpFacts ==
  ASSUME SysInv, NEW l, NEW k, Up(l, k)
  PROVE  /\ <<l, k>> \in Ids /\ k # 0 /\ <<l, 0>> \in Ids
         /\ Unused(<<l, k>>) /\ ~ Waiting(<<l, k>>)
         /\ link'[l].conn = k /\ link'[l].entry = "up"
         /\ \A m \in Links : m # l => link'[m] = link[m]
         /\ DOMAIN backlog' = DOMAIN backlog \cup {<<l, k>>} /\ backlog'[<<l, k>>] = << >>
         /\ \A q \in DOMAIN backlog : backlog'[q] = backlog[q]
<1>1. TypeInv /\ FreshInv
  BY DEF SysInv
<1>2. link \in [Links -> [entry : {"none", "wait", "up"}, conn : 0 .. MaxConns]]
  BY <1>1 DEF TypeInv
<1>3. /\ l \in Links /\ k = link[l].conn + 1 /\ k <= MaxConns
      /\ link' = [link EXCEPT ![l] = [entry |-> "up", conn |-> k]]
      /\ backlog' = [c \in DOMAIN backlog \cup {<<l, k>>} |-> IF c = <<l, k>> THEN << >> ELSE backlog[c]]
  BY DEF Up
<1>4. MaxConns \in Nat /\ link[l].conn \in Nat
  BY <1>2, <1>3, ConstantsAssumption
<1>5. <<l, k>> \in Ids /\ k # 0 /\ k > link[l].conn /\ <<l, 0>> \in Ids
  BY <1>3, <1>4 DEF Ids
<1>6. Unused(<<l, k>>) /\ ~ Waiting(<<l, k>>)
  <2>1. <<l, k>>[1] = l /\ <<l, k>>[2] = k
    OBVIOUS
  <2> QED BY <1>1, <1>5, <2>1 DEF FreshInv
<1>7. link'[l].conn = k /\ link'[l].entry = "up" /\ \A m \in Links : m # l => link'[m] = link[m]
  BY <1>2, <1>3
<1>8. /\ DOMAIN backlog' = DOMAIN backlog \cup {<<l, k>>} /\ backlog'[<<l, k>>] = << >>
      /\ \A q \in DOMAIN backlog : backlog'[q] = backlog[q]
  BY <1>3, <1>6 DEF Waiting
<1> QED BY <1>5, <1>6, <1>7, <1>8

LEMMA UpNet ==
  ASSUME SysInv, NEW l, NEW k, Up(l, k)
  PROVE  NetStep
<1>1. TypeInv /\ PipeInv /\ FreshInv
  BY DEF SysInv
<1>2. link \in [Links -> [entry : {"none", "wait", "up"}, conn : 0 .. MaxConns]]
  BY <1>1 DEF TypeInv
<1>3. /\ l \in Links /\ k = link[l].conn + 1 /\ k <= MaxConns /\ Known(<<l, 0>>) /\ acc' = acc
      /\ link' = [link EXCEPT ![l] = [entry |-> "up", conn |-> k]]
      /\ backlog' = [c \in DOMAIN backlog \cup {<<l, k>>} |-> IF c = <<l, k>> THEN << >> ELSE backlog[c]]
  BY DEF Up
<1>4. /\ <<l, k>> \in Ids /\ k # 0
      /\ link'[l].conn = k /\ link'[l].entry = "up"
      /\ \A m \in Links : m # l => link'[m] = link[m]
      /\ DOMAIN backlog' = DOMAIN backlog \cup {<<l, k>>} /\ backlog'[<<l, k>>] = << >>
      /\ \A q \in DOMAIN backlog : backlog'[q] = backlog[q]
  BY UpFacts
<1>5. k \in 0 .. MaxConns /\ link[l].conn \in Nat
  BY <1>2, <1>3, ConstantsAssumption
<1>6. link' \in [Links -> [entry : {"none", "wait", "up"}, conn : 0 .. MaxConns]]
  BY <1>2, <1>3, <1>5
<1>7. \A m \in Links : /\ link'[m].entry # "none" => Known(<<m, 0>>)
                       /\ link'[m].entry = "up" => link'[m].conn # 0
                       /\ link[m].conn <= link'[m].conn
  <2>1. ASSUME NEW m \in Links, m # l
        PROVE  /\ link'[m].entry # "none" => Known(<<m, 0>>)
               /\ link'[m].entry = "up" => link'[m].conn # 0
               /\ link[m].conn <= link'[m].conn
    <3>1. link'[m] = link[m] /\ link[m].conn \in Nat
      BY <1>2, <1>4, <2>1
    <3> QED BY <1>1, <2>1, <3>1 DEF FreshInv
  <2>2. link'[l].entry # "none" => Known(<<l, 0>>)
    BY <1>3
  <2>3. link'[l].entry = "up" => link'[l].conn # 0
    BY <1>4
  <2>4. link[l].conn <= link'[l].conn
    <3>1. link'[l].conn = link[l].conn + 1
      BY <1>3, <1>4
    <3> QED BY <1>5, <3>1
  <2> QED BY <2>1, <2>2, <2>3, <2>4
<1>8. ASSUME NEW q \in DOMAIN backlog
      PROVE  /\ q \in Ids /\ q[2] # 0 /\ q[2] <= link'[q[1]].conn /\ backlog[q] \in Seq(Msgs)
             /\ \A i \in 1 .. Len(backlog[q]) : /\ backlog[q][i].id = q /\ backlog[q][i].type \in PeerMsgs
                                                /\ InGood(backlog[q][i])
  <2>1. q \in Ids
    BY <1>1, <1>8 DEF TypeInv
  <2>2. q[2] \in Nat /\ q[1] \in Links /\ link[q[1]].conn \in Nat
    BY <1>2, <2>1, IdFacts
  <2>3. ~ (q[2] > link[q[1]].conn)
    BY <1>1, <1>8, <2>1 DEF FreshInv, Waiting
  <2>4. link[q[1]].conn <= link'[q[1]].conn /\ link'[q[1]].conn \in Nat
    <3>1. link[q[1]].conn <= link'[q[1]].conn
      BY <1>7, <2>2
    <3>2. link'[q[1]].conn \in Nat
      BY <1>6, <2>2
    <3> QED BY <3>1, <3>2
  <2>5. q[2] <= link'[q[1]].conn
    BY <2>2, <2>3, <2>4
  <2> QED BY <1>1, <1>8, <2>1, <2>5 DEF TypeInv, PipeInv
<1>9. backlog' = [q \in DOMAIN backlog' |-> backlog'[q]]
  BY <1>3
<1>10. ASSUME NEW q \in DOMAIN backlog'
       PROVE  /\ q \in Ids /\ q[2] # 0 /\ q[2] <= link'[q[1]].conn /\ backlog'[q] \in Seq(Msgs)
              /\ q \in DOMAIN backlog \/ q[2] > link[q[1]].conn
              /\ \A i \in 1 .. Len(backlog'[q]) : /\ backlog'[q][i].id = q /\ backlog'[q][i].type \in PeerMsgs
                                                  /\ InGood(backlog'[q][i])
  <2>1. CASE q \in DOMAIN backlog
    <3>1. backlog'[q] = backlog[q]
      BY <1>4, <2>1
    <3> QED BY <1>8, <2>1, <3>1
  <2>2. CASE q = <<l, k>>
    <3>1. q[1] = l /\ q[2] = k /\ q \in Ids
      BY <1>4, <2>2
    <3>2. backlog'[q] = << >>
      BY <1>4, <2>2
    <3>3. backlog'[q] \in Seq(Msgs) /\ Len(backlog'[q]) = 0
      BY <3>2
    <3>4. k <= link'[l].conn /\ k > link[l].conn
      BY <1>3, <1>4, <1>5
    <3> QED BY <1>4, <3>1, <3>3, <3>4
  <2> QED BY <1>4, <1>10, <2>1, <2>2
<1> QED BY <1>3, <1>6, <1>7, <1>9, <1>10 DEF NetStep

LEMMA UpLinked ==
  ASSUME SysInv, NEW l, NEW k, Up(l, k), NEW q \in Ids
  PROVE  /\ q # <<l, k>> => Waiting(q)' = Waiting(q) /\ (Waiting(q) => backlog'[q] = backlog[q])
         /\ Linked(q)' => \/ Linked(q) /\ Far(q)' = Far(q) /\ Far(q) # <<l, k>>
                          \/ Far(q)' = <<l, k>>
<1>1. TypeInv /\ FreshInv
  BY DEF SysInv
<1>4. /\ <<l, k>> \in Ids /\ k # 0 /\ Unused(<<l, k>>)
      /\ link'[l].conn = k /\ link'[l].entry = "up"
      /\ \A m \in Links : m # l => link'[m] = link[m]
      /\ DOMAIN backlog' = DOMAIN backlog \cup {<<l, k>>} /\ backlog'[<<l, k>>] = << >>
      /\ \A v \in DOMAIN backlog : backlog'[v] = backlog[v]
  BY UpFacts
<1>5. q # <<l, k>> => Waiting(q)' = Waiting(q) /\ (Waiting(q) => backlog'[q] = backlog[q])
  BY <1>4 DEF Waiting
<1>6. acc' = acc
  BY DEF Up
<1>7. q[1] \in Links /\ q = <<q[1], q[2]>>
  BY IdFacts
<1>8. ASSUME Linked(q)', q[1] = l, q[2] # 0 PROVE FALSE
  <2>1. Far(Far(q))' = <<l, link'[l].conn>>
    <3>1. Far(q)' = <<l, 0>>
      BY <1>8 DEF Far
    <3>2. Far(Far(q))' = Far(<<l, 0>>)'
      BY <3>1 DEF Far
    <3> QED BY <3>2 DEF Far
  <2>2. q = <<l, k>>
    BY <1>4, <1>8, <2>1 DEF Linked
  <2>3. q \in acc
    BY <1>6, <1>8 DEF Linked, Open
  <2> QED BY <1>4, <2>2, <2>3 DEF Unused
<1>9. ASSUME q[1] = l, q[2] = 0 PROVE Far(q)' = <<l, k>>
  BY <1>4, <1>9 DEF Far
<1>10. ASSUME Linked(q)', q[1] # l PROVE Linked(q) /\ Far(q)' = Far(q) /\ Far(q) # <<l, k>>
  <2>1. link'[q[1]] = link[q[1]]
    BY <1>4, <1>7, <1>10
  <2>2. ASSUME NEW v, v[1] = q[1]
        PROVE Far(v)' = Far(v) /\ Far(v)[1] = v[1] /\ Open(v)' = Open(v) /\ (v # <<l, k>> => Waiting(v)' = Waiting(v))
    BY <1>4, <1>6, <2>1, <2>2 DEF Far, Open, Waiting
  <2>3. PICK f : f = Far(q)
    OBVIOUS
  <2>4. Far(q)' = f /\ f[1] = q[1] /\ Open(q)' = Open(q)
    BY <2>2, <2>3
  <2>5. f # <<l, k>>
    <3>1. <<l, k>>[1] = l
      OBVIOUS
    <3> QED BY <1>10, <2>4, <3>1
  <2>6. Far(f)' = Far(f) /\ Open(f)' = Open(f) /\ Waiting(f)' = Waiting(f)
    BY <2>2, <2>4, <2>5
  <2>7. Far(Far(q))' = Far(f)' /\ Open(Far(q))' = Open(f)' /\ Waiting(Far(q))' = Waiting(f)'
    BY SMTT(30), <2>4 DEF Far, Open, Waiting
  <2>8. Linked(q)
    BY <1>10, <2>3, <2>4, <2>6, <2>7 DEF Linked
  <2> QED BY <2>3, <2>4, <2>5, <2>8
<1> QED BY <1>5, <1>8, <1>9, <1>10

LEMMA FillFacts ==
  ASSUME TypeInv, NEW f, NEW m, Fill(f, m)
  PROVE  /\ DOMAIN backlog' = DOMAIN backlog /\ backlog' = [q \in DOMAIN backlog' |-> backlog'[q]]
         /\ backlog'[f] \in Seq(Msgs) /\ More(backlog'[f], backlog[f], m)
         /\ \A q \in DOMAIN backlog : q # f => backlog'[q] = backlog[q]
<1>1. backlog = [q \in DOMAIN backlog |-> backlog[q]] /\ f \in DOMAIN backlog /\ backlog[f] \in Seq(Msgs) /\ m \in Msgs
  BY DEF TypeInv, Fill
<1> DEFINE a == Append(backlog[f], m)
<1>2. a \in Seq(Msgs) /\ More(a, backlog[f], m)
  BY <1>1, AppendMore
<1>3. backlog' = [backlog EXCEPT ![f] = a]
  BY DEF Fill
<1> HIDE DEF a
<1>4. /\ DOMAIN backlog' = DOMAIN backlog /\ backlog' = [q \in DOMAIN backlog' |-> backlog'[q]]
      /\ backlog'[f] = a /\ \A q \in DOMAIN backlog : q # f => backlog'[q] = backlog[q]
  BY <1>1, <1>3
<1> QED BY <1>2, <1>4

LEMMA FillNet ==
  ASSUME SysInv, NEW f, NEW m, Fill(f, m)
  PROVE  NetStep
<1>1. TypeInv /\ PipeInv /\ FreshInv
  BY DEF SysInv
<1>2. /\ DOMAIN backlog' = DOMAIN backlog /\ backlog' = [q \in DOMAIN backlog' |-> backlog'[q]]
      /\ backlog'[f] \in Seq(Msgs) /\ More(backlog'[f], backlog[f], m)
      /\ \A q \in DOMAIN backlog : q # f => backlog'[q] = backlog[q]
  BY <1>1, FillFacts
<1>3. link' = link /\ acc' = acc /\ m.id = f /\ m.type \in PeerMsgs /\ InGood(m)
  BY DEF Fill
<1>4. link \in [Links -> [entry : {"none", "wait", "up"}, conn : 0 .. MaxConns]]
  BY <1>1 DEF TypeInv
<1>5. \A l \in Links : /\ link'[l].entry # "none" => Known(<<l, 0>>)
                       /\ link'[l].entry = "up" => link'[l].conn # 0
  BY <1>1, <1>3 DEF FreshInv
<1>6. \A l \in Links : link[l].conn <= link'[l].conn
  BY <1>3, <1>4
<1>7. ASSUME NEW q \in DOMAIN backlog
      PROVE  /\ q \in Ids /\ q[2] # 0 /\ q[2] <= link'[q[1]].conn /\ backlog'[q] \in Seq(Msgs)
             /\ \A i \in 1 .. Len(backlog'[q]) : /\ backlog'[q][i].id = q /\ backlog'[q][i].type \in PeerMsgs
                                                 /\ InGood(backlog'[q][i])
  <2>1. q \in Ids /\ q[2] # 0
    BY <1>1, <1>7 DEF TypeInv
  <2>2. q[2] \in Nat /\ q[1] \in Links /\ link[q[1]].conn \in Nat
    BY <1>4, <2>1, IdFacts
  <2>3. ~ (q[2] > link[q[1]].conn)
    BY <1>1, <1>7, <2>1 DEF FreshInv, Waiting
  <2>4. q[2] <= link'[q[1]].conn
    BY <1>3, <2>2, <2>3
  <2>5. /\ backlog[q] \in Seq(Msgs)
        /\ \A i \in 1 .. Len(backlog[q]) : /\ backlog[q][i].id = q /\ backlog[q][i].type \in PeerMsgs
                                           /\ InGood(backlog[q][i])
    BY <1>1, <1>7 DEF TypeInv, PipeInv
  <2>6. CASE q # f
    <3>1. backlog'[q] = backlog[q]
      BY <1>2, <1>7, <2>6
    <3> QED BY <2>1, <2>4, <2>5, <3>1
  <2>7. CASE q = f
    <3>1. ASSUME NEW i \in 1 .. Len(backlog'[q])
          PROVE  backlog'[q][i].id = q /\ backlog'[q][i].type \in PeerMsgs /\ InGood(backlog'[q][i])
      <4>1. More(backlog'[q], backlog[q], m)
        BY <1>2, <2>7
      <4>2. (i \in 1 .. Len(backlog[q]) /\ backlog'[q][i] = backlog[q][i]) \/ backlog'[q][i] = m
        BY <3>1, <4>1, MoreElement
      <4> QED BY <1>3, <2>5, <2>7, <4>2
    <3> QED BY <1>2, <2>1, <2>4, <2>7, <3>1
  <2> QED BY <2>6, <2>7
<1> QED BY <1>2, <1>3, <1>4, <1>5, <1>6, <1>7 DEF NetStep

\* A connection is accepted: CONNECTED and what has come on it, for the main process.
LEMMA AcceptFacts ==
  ASSUME SysInv, NEW p \in Ids, AcceptConnection(p)
  PROVE  \E u : /\ More(u, Inq(p), Msg(p, "CONNECTED", p[2])) /\ Joined(Inq(p)', u, backlog[p])
                /\ inq' \in [Nodes -> Seq(Msgs)] /\ Unused(p) /\ p[2] # 0 /\ p[2] <= link[p[1]].conn
                /\ Msg(p, "CONNECTED", p[2]) \in Msgs /\ u \in Seq(Msgs)
                /\ \A k \in Nodes : k # Owner(p) => inq'[k] = inq[k]
                /\ DOMAIN backlog' = DOMAIN backlog \ {p} /\ backlog' = [q \in DOMAIN backlog' |-> backlog'[q]]
                /\ \A q \in DOMAIN backlog' : backlog'[q] = backlog[q]
<1>1. TypeInv /\ FreshInv
  BY DEF SysInv
<1>2. p \in DOMAIN backlog
  BY DEF AcceptConnection, Waiting
<1>3. Owner(p) \in Nodes /\ p[2] \in 0 .. MaxConns /\ p[1] \in Links
  BY IdFacts
<1>4. /\ inq \in [Nodes -> Seq(Msgs)] /\ backlog[p] \in Seq(Msgs) /\ p[2] # 0
      /\ link \in [Links -> [entry : {"none", "wait", "up"}, conn : 0 .. MaxConns]]
  BY <1>1, <1>2 DEF TypeInv
<1>5. Msg(p, "CONNECTED", p[2]) \in Msgs
  BY <1>3 DEF Msg, Msgs, MsgTypes
<1> DEFINE e == Msg(p, "CONNECTED", p[2])
           u == Append(inq[Owner(p)], e)
           v == u \o backlog[p]
<1>6. inq' = [inq EXCEPT ![Owner(p)] = v]
  BY DEF AcceptConnection
<1>7. inq[Owner(p)] \in Seq(Msgs) /\ e \in Msgs
  BY <1>3, <1>4, <1>5
<1> HIDE DEF e
<1>8. u \in Seq(Msgs) /\ More(u, inq[Owner(p)], e)
  BY <1>7, AppendMore
<1> HIDE DEF u
<1>9. v \in Seq(Msgs) /\ Joined(v, u, backlog[p])
  BY <1>4, <1>8, ConcatJoined
<1> HIDE DEF v
<1>10. inq' \in [Nodes -> Seq(Msgs)] /\ inq'[Owner(p)] = v /\ \A k \in Nodes : k # Owner(p) => inq'[k] = inq[k]
  BY <1>3, <1>4, <1>6, <1>9
<1>11. Unused(p) /\ ~ (p[2] > link[p[1]].conn)
  BY <1>1, <1>2 DEF FreshInv, Waiting
<1>12. p[2] <= link[p[1]].conn
  <2>1. p[2] \in Nat /\ link[p[1]].conn \in Nat
    BY <1>3, <1>4
  <2> QED BY <1>11, <2>1
<1>13. backlog' = [c \in DOMAIN backlog \ {p} |-> backlog[c]]
  BY DEF AcceptConnection
<1>14. /\ DOMAIN backlog' = DOMAIN backlog \ {p} /\ backlog' = [q \in DOMAIN backlog' |-> backlog'[q]]
       /\ \A q \in DOMAIN backlog' : backlog'[q] = backlog[q]
  BY <1>13
<1>15. More(u, Inq(p), Msg(p, "CONNECTED", p[2])) /\ Joined(Inq(p)', u, backlog[p])
  BY <1>8, <1>9, <1>10 DEF Inq, e
<1> QED BY <1>4, <1>5, <1>8, <1>10, <1>11, <1>12, <1>14, <1>15

LEMMA AcceptElement ==
  ASSUME NEW Q, NEW u, NEW e, NEW x, NEW V, More(u, Q, e), Joined(V, u, x), NEW i \in 1 .. Len(V)
  PROVE  \/ i \in 1 .. Len(Q) /\ V[i] = Q[i]
         \/ i = Len(Q) + 1 /\ V[i] = e
         \/ i > Len(Q) + 1 /\ \E j \in 1 .. Len(x) : V[i] = x[j]
<1>1. /\ Len(Q) \in Nat /\ Len(u) = Len(Q) + 1
      /\ \A k \in 1 .. Len(Q) : u[k] = Q[k]
      /\ u[Len(Q) + 1] = e
  BY DEF More
<1>2. \/ i \in 1 .. Len(u) /\ V[i] = u[i]
      \/ \E j \in 1 .. Len(x) : i = Len(u) + j /\ V[i] = x[j]
  BY JoinedElement
<1>3. CASE i \in 1 .. Len(u) /\ V[i] = u[i]
  BY <1>1, <1>3
<1>4. CASE \E j \in 1 .. Len(x) : i = Len(u) + j /\ V[i] = x[j]
  BY <1>1, <1>4
<1> QED BY <1>2, <1>3, <1>4

\* What is in the queue stays, then there is CONNECTED.
LEMMA AcceptKeeps ==
  ASSUME NEW Q, NEW u, NEW e, NEW x, NEW V, More(u, Q, e), Joined(V, u, x)
  PROVE  /\ Len(Q) \in Nat
         /\ \A i \in 1 .. Len(Q) : i \in 1 .. Len(V) /\ V[i] = Q[i]
         /\ Len(Q) + 1 \in 1 .. Len(V) /\ V[Len(Q) + 1] = e
<1>1. /\ Len(Q) \in Nat /\ Len(u) = Len(Q) + 1
      /\ \A k \in 1 .. Len(Q) : u[k] = Q[k]
      /\ u[Len(Q) + 1] = e
  BY DEF More
<1>2. /\ Len(u) \in Nat /\ Len(x) \in Nat /\ Len(V) = Len(u) + Len(x)
      /\ \A k \in 1 .. Len(u) : V[k] = u[k]
  BY DEF Joined
<1> QED BY <1>1, <1>2

LEMMA AcceptSys ==
  ASSUME SysInv, NEW p \in Ids, AcceptConnection(p)
  PROVE  SysInv'
<1>0. TypeInv /\ PipeInv /\ FreshInv
  BY DEF SysInv
<1> DEFINE e == Msg(p, "CONNECTED", p[2])
<1>1. PICK u : /\ More(u, Inq(p), e) /\ Joined(Inq(p)', u, backlog[p])
               /\ inq' \in [Nodes -> Seq(Msgs)] /\ Unused(p) /\ p[2] # 0 /\ p[2] <= link[p[1]].conn
               /\ e \in Msgs
               /\ \A k \in Nodes : k # Owner(p) => inq'[k] = inq[k]
               /\ DOMAIN backlog' = DOMAIN backlog \ {p} /\ backlog' = [q \in DOMAIN backlog' |-> backlog'[q]]
               /\ \A q \in DOMAIN backlog' : backlog'[q] = backlog[q]
  BY AcceptFacts
<1>2. cf' = cf /\ main' = main /\ link' = link /\ acc' = acc \cup {p} /\ p \in DOMAIN backlog
  BY DEF AcceptConnection, Waiting
<1>3. e.id = p /\ e.type = "CONNECTED" /\ e.conn = p[2]
  BY DEF Msg
<1>4. \A i \in 1 .. Len(backlog[p]) :
         backlog[p][i].id = p /\ backlog[p][i].type \in PeerMsgs /\ InGood(backlog[p][i])
  BY <1>0, <1>2 DEF PipeInv
<1>5. Owner(p) \in Nodes
  BY IdFacts
<1> HIDE DEF e
<1>6. ASSUME NEW i \in 1 .. Len(Inq(p)')
      PROVE  \/ i \in 1 .. Len(Inq(p)) /\ Inq(p)'[i] = Inq(p)[i]
             \/ i = Len(Inq(p)) + 1 /\ Inq(p)'[i] = e
             \/ i > Len(Inq(p)) + 1 /\ \E j \in 1 .. Len(backlog[p]) : Inq(p)'[i] = backlog[p][j]
  BY <1>1, <1>6, AcceptElement
<1>7. /\ Len(Inq(p)) \in Nat
      /\ \A i \in 1 .. Len(Inq(p)) : i \in 1 .. Len(Inq(p)') /\ Inq(p)'[i] = Inq(p)[i]
      /\ Len(Inq(p)) + 1 \in 1 .. Len(Inq(p)') /\ Inq(p)'[Len(Inq(p)) + 1] = e
  BY <1>1, AcceptKeeps
<1>8. TypeInv'
  <2>1. \A k \in Nodes : IsMain(k, main[k])' <=> IsMain(k, main[k])
    BY <1>2 DEF IsMain
  <2>2. \A q \in DOMAIN backlog' : q \in Ids /\ q[2] # 0 /\ backlog'[q] \in Seq(Msgs)
    BY <1>0, <1>1 DEF TypeInv
  <2> QED BY <1>0, <1>1, <1>2, <2>1, <2>2 DEF TypeInv
<1>9. PipeInv'
  <2>1. ASSUME NEW k \in Nodes, NEW i \in 1 .. Len(inq'[k])
        PROVE  /\ inq'[k][i].type # "CONNECT_TO" /\ Owner(inq'[k][i].id) = k /\ InGood(inq'[k][i])
               /\ inq'[k][i].type = "CONNECTED" => inq'[k][i].conn # 0
    <3>1. \A h \in 1 .. Len(inq[k]) :
             /\ inq[k][h].type # "CONNECT_TO" /\ Owner(inq[k][h].id) = k /\ InGood(inq[k][h])
             /\ inq[k][h].type = "CONNECTED" => inq[k][h].conn # 0
      BY <1>0 DEF PipeInv
    <3>2. CASE k # Owner(p)
      BY <1>1, <2>1, <3>1, <3>2
    <3>3. CASE k = Owner(p)
      <4>1. Inq(p)' = inq'[k] /\ Inq(p) = inq[k]
        BY <3>3 DEF Inq
      <4>2. \/ i \in 1 .. Len(inq[k]) /\ inq'[k][i] = inq[k][i]
            \/ inq'[k][i] = e
            \/ \E j \in 1 .. Len(backlog[p]) : inq'[k][i] = backlog[p][j]
        BY <1>6, <2>1, <4>1
      <4>3. InGood(e)
        BY <1>3 DEF InGood, Requests
      <4>4. PeerMsgs \cap {"CONNECT_TO", "CONNECTED"} = {}
        BY DEF PeerMsgs
      <4> QED BY <1>1, <1>3, <1>4, <3>1, <3>3, <4>2, <4>3, <4>4
    <3> QED BY <3>2, <3>3
  <2>2. (\A k \in Nodes : \A i \in 1 .. Len(main[k].out) : OutGood(main[k].out[i]))'
    BY <1>0, <1>2 DEF PipeInv, OutGood, Wants, RequestType, Auth
  <2>3. (\A k \in Nodes : \A i \in 1 .. Len(inq[k]) :
           /\ inq[k][i].type # "CONNECT_TO" /\ Owner(inq[k][i].id) = k /\ InGood(inq[k][i])
           /\ inq[k][i].type = "CONNECTED" => inq[k][i].conn # 0)'
    BY <1>2, <2>1 DEF InGood, Asked, AskedType, AskedAuth
  <2>4. \A v \in DOMAIN backlog' : \A i \in 1 .. Len(backlog'[v]) :
           backlog'[v][i].id = v /\ backlog'[v][i].type \in PeerMsgs /\ InGood(backlog'[v][i])
    BY <1>0, <1>1 DEF PipeInv
  <2>5. (\A v \in DOMAIN backlog : \A i \in 1 .. Len(backlog[v]) :
           backlog[v][i].id = v /\ backlog[v][i].type \in PeerMsgs /\ InGood(backlog[v][i]))'
    BY <1>2, <2>4 DEF InGood, Asked, AskedType, AskedAuth
  <2> QED BY <2>2, <2>3, <2>5 DEF PipeInv
<1>10. \A q \in Ids : Known(q)' = Known(q) /\ Intro(q)' = Intro(q)
  BY <1>2 DEF Known, Intro
<1>11. ASSUME NEW q \in Ids, q # p
       PROVE  /\ Owner(q) = Owner(p) => Inq(q) = Inq(p) /\ Inq(q)' = Inq(p)'
              /\ Owner(q) # Owner(p) => Inq(q)' = Inq(q)
  <2>1. Owner(q) \in Nodes
    BY <1>11, IdFacts
  <2> QED BY <1>1, <2>1 DEF Inq
<1>12. ASSUME NEW q \in Ids, q # p, Unused(q) PROVE Unused(q)'
  <2>1. ~ Known(q)' /\ q \notin acc'
    BY <1>2, <1>10, <1>12 DEF Unused
  <2>2. ASSUME NEW i \in 1 .. Len(Inq(q)') PROVE Inq(q)'[i].id # q
    <3>1. CASE Owner(q) # Owner(p)
      BY <1>11, <1>12, <2>2, <3>1 DEF Unused
    <3>2. CASE Owner(q) = Owner(p)
      <4>1. Inq(q) = Inq(p) /\ Inq(q)' = Inq(p)'
        BY <1>11, <1>12, <3>2
      <4>2. \/ i \in 1 .. Len(Inq(p)) /\ Inq(p)'[i] = Inq(p)[i]
            \/ Inq(p)'[i] = e
            \/ \E j \in 1 .. Len(backlog[p]) : Inq(p)'[i] = backlog[p][j]
        BY <1>6, <2>2, <4>1
      <4> QED BY <1>3, <1>4, <1>12, <4>1, <4>2 DEF Unused
    <3> QED BY <3>1, <3>2
  <2> QED BY <2>1, <2>2 DEF Unused
<1>13. ASSUME NEW q \in Ids PROVE InOK(Inq(q)', Intro(q), ~ Known(q))
  <2> DEFINE h == ~ Known(q)
  <2>1. InOK(Inq(q), Intro(q), h) /\ h \in BOOLEAN
    BY <1>0 DEF FreshInv
  <2> HIDE DEF h
  <2>2. CASE q # p /\ Owner(q) # Owner(p)
    BY <1>11, <2>1, <2>2 DEF h
  <2>3. CASE q # p /\ Owner(q) = Owner(p)
    <3>1. Inq(q) = Inq(p) /\ Inq(q)' = Inq(p)'
      BY <1>11, <2>3
    <3>2. Foreign(<<e>>, Intro(q)) /\ Foreign(backlog[p], Intro(q))
      BY <1>3, <1>4, <2>3 DEF Foreign, Intro
    <3>3. Joined(u, Inq(q), <<e>>)
      BY <1>1, <3>1, MoreJoined
    <3>4. InOK(u, Intro(q), h)
      BY <2>1, <3>2, <3>3, NoiseIn
    <3>5. Joined(Inq(q)', u, backlog[p])
      BY <1>1, <3>1
    <3>6. InOK(Inq(q)', Intro(q), h)
      BY <2>1, <3>2, <3>4, <3>5, NoiseIn
    <3> QED BY <3>6 DEF h
  <2>4. CASE q = p
    <3>1. ASSUME NEW i \in 0 .. Len(Inq(p)'), NEW j \in 1 .. Len(Inq(p)'),
                 HotAt(Inq(p)', Intro(p), h, i), Inq(p)'[j] \in Intro(p)[3], i < j
          PROVE  \E m \in 1 .. Len(Inq(p)') : i < m /\ m < j /\ Inq(p)'[m] \in Intro(p)[2]
      <4>1. i = 0
        BY <3>1 DEF HotAt, Intro
      <4>2. Inq(p)'[j].id = p /\ Inq(p)'[j].type # "CONNECTED"
        BY <3>1 DEF Intro
      <4>3. j > Len(Inq(p)) + 1
        BY <1>1, <1>3, <1>6, <3>1, <4>2 DEF Unused
      <4>4. e \in Intro(p)[2]
        BY <1>1, <1>3 DEF Intro
      <4>5. Len(Inq(p)) + 1 \in 1 .. Len(Inq(p)') /\ Inq(p)'[Len(Inq(p)) + 1] \in Intro(p)[2] /\ i < Len(Inq(p)) + 1
        BY <1>7, <4>1, <4>4
      <4> QED BY <4>3, <4>5
    <3>2. InOK(Inq(p)', Intro(p), h)
      BY <3>1 DEF InOK
    <3> QED BY <2>4, <3>2 DEF h
  <2> QED BY <2>2, <2>3, <2>4
<1>14. ASSUME NEW q \in acc' PROVE Known(q) \/ \E i \in 1 .. Len(Inq(q)') : Inq(q)'[i] \in Intro(q)[2]
  <2>1. CASE q = p
    <3>1. e \in Intro(p)[2]
      BY <1>1, <1>3 DEF Intro
    <3> QED BY <1>7, <2>1, <3>1
  <2>2. CASE q # p /\ ~ Known(q)
    <3>1. q \in acc /\ q \in Ids
      BY <1>0, <1>2, <1>14, <2>2 DEF TypeInv
    <3>2. PICK i \in 1 .. Len(Inq(q)) : Inq(q)[i] \in Intro(q)[2]
      BY <1>0, <2>2, <3>1 DEF FreshInv
    <3>3. i \in 1 .. Len(Inq(q)') /\ Inq(q)'[i] = Inq(q)[i]
      BY <1>7, <1>11, <2>2, <3>1, <3>2
    <3> QED BY <3>2, <3>3
  <2> QED BY <2>1, <2>2
<1>15. FreshInv'
  <2>1. ASSUME NEW l \in Links PROVE <<l, 0>> \in Ids
    BY ConstantsAssumption DEF Ids
  <2>2. (\A l \in Links : link[l].entry # "none" => Known(<<l, 0>>))'
    BY <1>0, <1>2, <1>10, <2>1 DEF FreshInv
  <2>3. (\A l \in Links : link[l].entry = "up" => link[l].conn # 0)'
    BY <1>0, <1>2 DEF FreshInv
  <2>4. ASSUME NEW q \in Ids, q[2] > link'[q[1]].conn PROVE Unused(q)' /\ ~ Waiting(q)'
    <3>1. Unused(q) /\ ~ Waiting(q)
      BY <1>0, <1>2, <2>4 DEF FreshInv
    <3>2. q # p
      BY <1>2, <3>1 DEF Waiting
    <3> QED BY <1>1, <1>12, <3>1, <3>2 DEF Waiting
  <2>5. ASSUME NEW q \in DOMAIN backlog' PROVE Unused(q)'
    <3>1. q \in Ids /\ q # p /\ Unused(q)
      BY <1>0, <1>1, <2>5 DEF TypeInv, FreshInv
    <3> QED BY <1>12, <3>1
  <2>6. ASSUME NEW q \in Ids PROVE InOK(Inq(q), Intro(q), ~ Known(q))'
    <3>1. InOK(Inq(q)', Intro(q), ~ Known(q))
      BY <1>13, <2>6
    <3> QED BY <1>10, <2>6, <3>1 DEF InOK, HotAt
  <2>7. (\A q \in Ids : InOK(Inq(q), Intro(q), ~ Known(q)))'
    BY <2>6
  <2>8. (\A q \in acc : Known(q) \/ \E i \in 1 .. Len(Inq(q)) : Inq(q)[i] \in Intro(q)[2])'
    BY <1>8, <1>10, <1>14 DEF TypeInv
  <2>9. (\A q \in Ids : q[2] > link[q[1]].conn => Unused(q) /\ ~ Waiting(q))'
    BY <2>4
  <2>10. (\A q \in DOMAIN backlog : Unused(q))'
    BY <2>5
  <2> QED BY <2>2, <2>3, <2>7, <2>8, <2>9, <2>10 DEF FreshInv
<1> QED BY <1>8, <1>9, <1>15 DEF SysInv

LEMMA AlienForeign ==
  ASSUME NEW g \in RuleSet, NEW p, NEW x, Alien(x, p)
  PROVE  Foreign(x, Sets(g, p)) /\ Len(x) \in Nat
         /\ \A i \in 1 .. Len(x) : x[i] \notin Sets(g, p)[1] /\ x[i] \notin Sets(g, p)[3]
<1>1. ASSUME NEW i \in 1 .. Len(x)
      PROVE  x[i] \notin Sets(g, p)[1] /\ x[i] \notin Sets(g, p)[2] /\ x[i] \notin Sets(g, p)[3]
  <2>1. x[i].id # p \/ x[i].type \notin PeerMsgs
    BY <1>1 DEF Alien
  <2> QED BY <2>1, ForeignFacts
<1> QED BY <1>1 DEF Foreign, Alien

\* A message of q in its pipe and the same for p in the queue.
LEMMA PassKinds ==
  ASSUME NEW g \in RuleSet, NEW q \in Ids, NEW p \in Ids, NEW m \in Msgs, m.id = q
  PROVE  /\ Msg(p, m.type, m.conn) \in Sets(g, p)[1] <=> m \in Sets(g, q)[1]
         /\ Msg(p, m.type, m.conn) \in Sets(g, p)[2] <=> m \in Sets(g, q)[2]
         /\ Msg(p, m.type, m.conn) \in Sets(g, p)[3] <=> m \in Sets(g, q)[3]
<1>1. m.type \in MsgTypes /\ m.conn \in 0 .. MaxConns
  BY DEF Msgs
<1> DEFINE e == Msg(p, m.type, m.conn)
<1>2. e.id = p /\ e.type = m.type /\ e.conn = m.conn /\ e \in Msgs
  BY <1>1 DEF Msg, Msgs
<1> HIDE DEF e
<1>3. \A types : e \in Kind(p, types, g.k) <=> m \in Kind(q, types, g.k)
  BY <1>2 DEF Kind
<1>4. /\ e \in Sets(g, p)[1] <=> m \in Sets(g, q)[1]
      /\ e \in Sets(g, p)[2] <=> m \in Sets(g, q)[2]
      /\ e \in Sets(g, p)[3] <=> m \in Sets(g, q)[3]
  BY <1>3, SetsFacts
<1> QED BY <1>4 DEF e

LEMMA ChildIn ==
  ASSUME NEW g \in RuleSet, NEW p \in Ids, NEW hot \in BOOLEAN, InOK(In(p), Sets(g, p), hot), InStep(p),
         \A q \in Ids : Linked(q) /\ Far(q) = p =>
             \E due \in BOOLEAN : CrossOK(In(p), Sets(g, p), hot, Out(q), Sets(g, q), due)
  PROVE  InOK(In(p)', Sets(g, p), hot)
<1>1. CASE QuietIn(p)
  <2>1. CASE In(p)' = In(p)
    BY <2>1
  <2>2. ASSUME NEW x, Joined(In(p)', In(p), x), Alien(x, p) PROVE InOK(In(p)', Sets(g, p), hot)
    <3>1. Foreign(x, Sets(g, p))
      BY <2>2, AlienForeign
    <3> QED BY <2>2, <3>1, NoiseIn
  <2> QED BY <1>1, <2>1, <2>2 DEF QuietIn
<1>2. CASE AcceptsIn(p)
  <2>1. PICK u : Joined(In(p)', u, In(p)) /\ Alien(u, p)
    BY <1>2 DEF AcceptsIn
  <2>2. \A i \in 1 .. Len(u) : u[i] \notin Sets(g, p)[1] /\ u[i] \notin Sets(g, p)[3]
    BY <2>1, AlienForeign
  <2> QED BY <2>1, <2>2, AcceptIn
<1>3. CASE Len(In(p)') = 0
  BY <1>3 DEF InOK
<1>4. ASSUME NEW q \in Ids, Linked(q), Far(q) = p, Passes(q, p) PROVE InOK(In(p)', Sets(g, p), hot)
  <2>1. PICK due \in BOOLEAN : CrossOK(In(p), Sets(g, p), hot, Out(q), Sets(g, q), due)
    BY <1>4
  <2> DEFINE m == Out(q)[1]
             e == Msg(p, m.type, m.conn)
  <2>2. m \in Msgs /\ m.id = q /\ More(In(p)', In(p), e) /\ Rest(Out(q)', Out(q))
    BY <1>4 DEF Passes
  <2>3. Len(Out(q)) \in Nat /\ Len(Out(q)) >= 1
    BY <2>2 DEF Rest
  <2>4. e \in Sets(g, p)[3] => m \in Sets(g, q)[3]
    BY <2>2, PassKinds
  <2> HIDE DEF e
  <2> QED BY <2>1, <2>2, <2>3, <2>4, ForwardIn
<1> QED BY <1>1, <1>2, <1>3, <1>4 DEF InStep

LEMMA QuietCross ==
  ASSUME NEW g \in RuleSet, NEW p \in Ids, NEW q \in Ids, NEW hot \in BOOLEAN, NEW due \in BOOLEAN,
         CrossOK(In(p), Sets(g, p), hot, Out(q), Sets(g, q), due),
         QuietIn(p) \/ AcceptsIn(p), QuietOut(q)
  PROVE  CrossOK(In(p)', Sets(g, p), hot, Out(q)', Sets(g, q), due)
<1>1. CrossOK(In(p)', Sets(g, p), hot, Out(q), Sets(g, q), due)
  <2>1. CASE In(p)' = In(p)
    BY <2>1
  <2>2. ASSUME NEW x, Joined(In(p)', In(p), x), Alien(x, p)
        PROVE  CrossOK(In(p)', Sets(g, p), hot, Out(q), Sets(g, q), due)
    <3>1. Foreign(x, Sets(g, p))
      BY <2>2, AlienForeign
    <3> QED BY <2>2, <3>1, NoiseCross
  <2>3. ASSUME NEW u, Joined(In(p)', u, In(p)), Alien(u, p)
        PROVE  CrossOK(In(p)', Sets(g, p), hot, Out(q), Sets(g, q), due)
    <3>1. \A i \in 1 .. Len(u) : u[i] \notin Sets(g, p)[1]
      BY <2>3, AlienForeign
    <3> QED BY <2>3, <3>1, AcceptCross
  <2> QED BY <2>1, <2>2, <2>3 DEF QuietIn, AcceptsIn
<1>2. CASE Out(q)' = Out(q)
  BY <1>1, <1>2
<1>3. CASE Rest(Out(q)', Out(q)) /\ (Out(q)[1].id # q \/ Out(q)[1].type \notin PeerMsgs)
  <2>1. Out(q)[1] \notin Sets(g, q)[2]
    BY <1>3, ForeignFacts
  <2> QED BY <1>1, <1>3, <2>1, DropCross
<1> QED BY <1>2, <1>3 DEF QuietOut

LEMMA MateFacts ==
  ASSUME TypeInv, FreshInv, NEW q, NEW p, NEW k, Mates(q, p, k), Joint(q[1], k)
  PROVE  /\ Far(q) = p /\ Far(p) = q
         /\ Linked(q) \/ Waiting(q)
<1>1. /\ q \in Ids /\ p \in Ids /\ q[1] = p[1] /\ k # 0
      /\ (q[2] = 0 /\ p[2] = k) \/ (q[2] = k /\ p[2] = 0)
  BY ConstantsAssumption DEF Mates
<1>2. q = <<q[1], q[2]>> /\ p = <<p[1], p[2]>>
  BY <1>1, IdFacts
<1>3. Far(q) = p /\ Far(p) = q
  BY <1>1, <1>2 DEF Far, Joint
<1>4. ASSUME q[2] = 0 PROVE Linked(q)
  <2>1. p[2] # 0 /\ p = <<q[1], k>> /\ Open(q)
    BY <1>1, <1>2, <1>4 DEF Open, Joint
  <2>2. Open(p) \/ Waiting(p)
    BY <2>1 DEF Open, Waiting, Joint
  <2> QED BY <1>3, <2>1, <2>2 DEF Linked
<1>5. ASSUME q[2] # 0 PROVE Linked(q) \/ Waiting(q)
  <2>1. p[2] = 0 /\ q = <<q[1], k>> /\ Open(p)
    BY <1>1, <1>2, <1>5 DEF Open, Joint
  <2>2. Open(q) \/ Waiting(q)
    BY <1>5, <2>1 DEF Open, Waiting, Joint
  <2> QED BY <1>3, <2>1, <2>2 DEF Linked
<1> QED BY <1>3, <1>4, <1>5

\* A peer whose connection is not accepted has sent nothing.
LEMMA WaitQuiet ==
  ASSUME SysInv, NEW n, ChildMain(n), NEW q \in Ids, Waiting(q)
  PROVE  QuietOut(q) /\ ~ Linked(q)
<1>1. TypeInv /\ FreshInv
  BY DEF SysInv
<1>2. Unused(q) /\ q[2] # 0
  BY <1>1 DEF FreshInv, TypeInv, Waiting
<1>3. ~ Known(q) /\ ~ Linked(q)
  BY <1>2 DEF Unused, Linked, Open
<1>4. CASE Out(q)' = Out(q)
  BY <1>3, <1>4 DEF QuietOut
<1>5. CASE Rest(Out(q)', Out(q))
  <2>1. 1 \in 1 .. Len(Out(q))
    BY <1>5 DEF Rest
  <2>2. Owner(q) \in Nodes
    BY IdFacts
  <2>3. Out(q)[1].id \in DOMAIN main[Owner(q)].peer
    BY <1>1, <2>1, <2>2 DEF TypeInv, IsMain, Out
  <2> QED BY <1>3, <1>5, <2>3 DEF QuietOut, Known
<1> QED BY <1>1, <1>4, <1>5, ChildPeer

LEMMA ToldUnheard ==
  ASSUME TypeInv, NEW q \in Ids, NEW p, NEW type, NEW k, Told(p, type, k), q # p
  PROVE  Unheard(q)
<1>1. Tells(p, type, k, q)
  BY ToldFacts
<1>2. CASE Owner(q) # Owner(p)
  BY <1>1, <1>2 DEF Tells, Unheard
<1>3. CASE Owner(q) = Owner(p)
  <2>1. PICK e : e = Msg(p, type, k)
    OBVIOUS
  <2>2. e.id = p
    BY <2>1 DEF Msg
  <2>3. Joined(Inq(q)', Inq(q), <<e>>)
    BY <1>1, <1>3, <2>1, MoreJoined DEF Tells
  <2>4. Len(<<e>>) = 1 /\ <<e>>[1] = e
    OBVIOUS
  <2> QED BY <2>2, <2>3, <2>4 DEF Unheard
<1> QED BY <1>2, <1>3

LEMMA ToldOwn ==
  ASSUME TypeInv, NEW p, NEW type, NEW k, Told(p, type, k)
  PROVE  p \in Ids /\ More(Inq(p)', Inq(p), Msg(p, type, k))
<1>1. p \in Ids
  BY DEF Told
<1>2. Tells(p, type, k, p)
  BY <1>1, ToldFacts
<1> QED BY <1>1, <1>2 DEF Tells

LEMMA TellQuiet ==
  ASSUME TypeInv, NEW q \in Ids, Waiting(q)' = Waiting(q), Waiting(q) => backlog'[q] = backlog[q],
         NEW p, NEW type, NEW k, inq' = inq \/ (Told(p, type, k) /\ (q # p \/ type \notin PeerMsgs))
  PROVE  QuietIn(q)
<1>1. CASE Waiting(q)
  BY <1>1 DEF QuietIn, In
<1>2. CASE ~ Waiting(q)
  <2>1. In(q) = Inq(q) /\ In(q)' = Inq(q)'
    BY <1>2 DEF In
  <2>2. CASE inq' = inq
    BY <2>1, <2>2 DEF QuietIn, Inq
  <2>3. CASE Told(p, type, k) /\ (q # p \/ type \notin PeerMsgs)
    <3>1. Tells(p, type, k, q)
      BY <2>3, ToldFacts
    <3>2. CASE Owner(q) = Owner(p)
      <4> DEFINE e == Msg(p, type, k)
      <4>1. e.id = p /\ e.type = type
        BY DEF Msg
      <4>2. More(In(q)', In(q), e)
        BY <2>1, <3>1, <3>2 DEF Tells
      <4> HIDE DEF e
      <4>3. Joined(In(q)', In(q), <<e>>)
        BY <4>2, MoreJoined
      <4>4. Len(<<e>>) = 1 /\ <<e>>[1] = e
        OBVIOUS
      <4>5. Alien(<<e>>, q)
        BY <2>3, <4>1, <4>4 DEF Alien
      <4> QED BY <4>3, <4>5 DEF QuietIn
    <3>3. CASE Owner(q) # Owner(p)
      BY <2>1, <3>1, <3>3 DEF Tells, QuietIn
    <3> QED BY <3>2, <3>3
  <2> QED BY <2>2, <2>3
<1> QED BY <1>1, <1>2

LEMMA CutGood ==
  ASSUME SysInv, NEW n, ChildMain(n), NEW p, NEW e, Cut(p, e), inq' = inq \/ Told(p, "CLOSE", 0),
         inq' = inq => p[2] = 0, p[2] = 0 => Tried(p[1]) \/ (Told(p, "CLOSE", 0) /\ link[p[1]].entry = "up"),
         \A q \in Ids : QuietOut(q)
  PROVE  ChildGood(n)
<1>1. SysInv'
  BY CutNet, SameInq, ToldInq, ChildSys
<1>2. ASSUME NEW q \in Ids PROVE QuietIn(q)
  <2>1. Waiting(q)' = Waiting(q) /\ backlog' = backlog
    BY <1>2, CutLinked
  <2>2. "CLOSE" \notin PeerMsgs
    BY DEF PeerMsgs
  <2> QED BY <1>2, <2>1, <2>2, TellQuiet DEF SysInv
<1>3. TypeInv /\ FreshInv /\ p \in Ids /\ p[1] \in Links
  BY IdFacts DEF SysInv, Cut
<1>4. /\ p[2] = 0 => link'[p[1]].entry # "up"
      /\ \A l \in Links : /\ link'[l].conn = link[l].conn
                          /\ l # p[1] \/ p[2] # 0 => link'[l] = link[l]
      /\ acc' \subseteq acc /\ backlog' = backlog
  <2>1. CASE p[2] = 0
    <3>1. e # "up" /\ link' = [link EXCEPT ![p[1]].entry = e] /\ acc' = acc /\ backlog' = backlog
      BY <2>1 DEF Cut
    <3>2. link \in [Links -> [entry : {"none", "wait", "up"}, conn : 0 .. MaxConns]]
      BY <1>3 DEF TypeInv
    <3> QED BY <1>3, <2>1, <3>1, <3>2
  <2>2. CASE p[2] # 0
    BY <2>2 DEF Cut
  <2> QED BY <2>1, <2>2
<1>5. ASSUME NEW q \in Ids PROVE LinkStep(q)
  <2>1. q[1] \in Links /\ q = <<q[1], q[2]>> /\ p = <<p[1], p[2]>> /\ link[q[1]].conn \in Nat
    BY <1>3, IdFacts DEF TypeInv
  <2>2. CASE q # p
    <3>1. Unheard(q)
      <4>1. CASE inq' = inq
        BY <4>1 DEF Unheard, Inq
      <4>2. CASE Told(p, "CLOSE", 0)
        BY <1>3, <2>2, <4>2, ToldUnheard
      <4> QED BY <4>1, <4>2
    <3>2. CASE q[1] # p[1] \/ p[2] # 0
      BY <1>4, <2>1, <3>1, <3>2 DEF LinkStep
    <3>3. CASE q[1] = p[1] /\ p[2] = 0
      <4>1. q[2] # 0 /\ link'[q[1]].conn = link[q[1]].conn
        BY <1>4, <2>1, <2>2, <3>3
      <4>2. link[q[1]].conn <= link'[q[1]].conn
        BY <2>1, <4>1
      <4> QED BY <3>1, <4>1, <4>2 DEF LinkStep
    <3> QED BY <3>2, <3>3
  <2>3. CASE q = p /\ inq' = inq /\ Tried(p[1])
    <3>1. Unheard(q)
      BY <2>3 DEF Unheard, Inq
    <3> QED BY <1>4, <2>1, <2>3, <3>1 DEF LinkStep
  <2>4. CASE q = p /\ Told(p, "CLOSE", 0)
    <3>1. More(Inq(q)', Inq(q), Msg(q, "CLOSE", 0))
      BY <1>3, <2>4, ToldOwn
    <3> QED BY <1>4, <2>1, <2>4, <3>1 DEF LinkStep
  <2> QED BY <2>2, <2>3, <2>4
<1>6. ASSUME NEW q, NEW f, NEW k, Mates(q, f, k), Joint(q[1], k)' PROVE JointStep(q, f, k)
  <2>1. q \in Ids /\ f \in Ids
    BY <1>6 DEF Mates
  <2>2. q[1] \in Links
    BY <2>1, IdFacts
  <2>3. link'[q[1]].entry = "up" /\ link'[q[1]].conn = k /\ (<<q[1], k>> \in acc' \/ <<q[1], k>> \in DOMAIN backlog')
    BY <1>6 DEF Joint
  <2>4. link'[q[1]] = link[q[1]]
    BY <1>4, <2>2, <2>3
  <2>5. Joint(q[1], k)
    BY <1>4, <2>3, <2>4 DEF Joint
  <2> QED BY <1>2, <2>1, <2>5 DEF JointStep
<1> QED BY <1>1, <1>2, <1>5, <1>6 DEF ChildGood, InStep

LEMMA SameGood ==
  ASSUME SysInv, NEW n, ChildMain(n), UNCHANGED <<inq, link, acc, backlog>>,
         \A q \in Ids : Linked(q) => QuietOut(q)
  PROVE  ChildGood(n)
<1>1. SysInv'
  BY SameNet, SameInq, ChildSys
<1>2. ASSUME NEW q \in Ids PROVE QuietIn(q) /\ Linked(q)' = Linked(q) /\ Far(q)' = Far(q)
  BY DEF QuietIn, In, Inq, Waiting, Linked, Far, Open
<1>3. ASSUME NEW q \in Ids PROVE LinkStep(q)
  BY DEF LinkStep, Unheard, Inq
<1>4. ASSUME NEW q, NEW f, NEW k, Mates(q, f, k), Joint(q[1], k)' PROVE JointStep(q, f, k)
  <2>1. q \in Ids /\ f \in Ids
    BY <1>4 DEF Mates
  <2>2. Joint(q[1], k)
    BY <1>4 DEF Joint
  <2>3. Linked(q) \/ Waiting(q)
    BY <1>4, <2>2, MateFacts DEF SysInv
  <2>4. QuietOut(q)
    BY <2>1, <2>3, WaitQuiet
  <2> QED BY <1>2, <2>1, <2>2, <2>4 DEF JointStep
<1> QED BY <1>1, <1>2, <1>3, <1>4 DEF ChildGood, InStep

LEMMA UpGood ==
  ASSUME SysInv, NEW n, ChildMain(n), NEW l, NEW k, Up(l, k), Told(<<l, 0>>, "CONNECTED", k),
         Tried(l), \A q \in Ids : QuietOut(q)
  PROVE  ChildGood(n)
<1>1. SysInv'
  BY UpNet, ToldInq, ChildSys
<1>2. /\ <<l, k>> \in Ids /\ Unused(<<l, k>>)
      /\ DOMAIN backlog' = DOMAIN backlog \cup {<<l, k>>} /\ backlog'[<<l, k>>] = << >>
  BY UpFacts
<1>3. PICK f : f = <<l, k>>
  OBVIOUS
<1>4. Len(In(f)') = 0 /\ ~ Known(f)
  <2>1. Len(<< >>) = 0
    OBVIOUS
  <2>2. In(f)' = << >>
    BY <1>2, <1>3 DEF In, Waiting
  <2> QED BY <1>2, <1>3, <2>1, <2>2 DEF Unused
<1>5. ASSUME NEW q \in Ids, q # f PROVE QuietIn(q)
  <2>1. Waiting(q)' = Waiting(q) /\ (Waiting(q) => backlog'[q] = backlog[q])
    BY <1>3, <1>5, UpLinked
  <2>2. "CONNECTED" \notin PeerMsgs
    BY DEF PeerMsgs
  <2> QED BY <1>5, <2>1, <2>2, TellQuiet DEF SysInv
<1>6. ASSUME NEW q \in Ids PROVE InStep(q)
  BY <1>4, <1>5, <1>6 DEF InStep
<1>7. /\ TypeInv /\ FreshInv /\ l \in Links /\ link'[l].conn = k /\ link'[l].entry = "up" /\ acc' = acc
      /\ \A m \in Links : m # l => link'[m] = link[m]
      /\ link[l].conn \in Nat /\ k = link[l].conn + 1
  BY UpFacts DEF SysInv, TypeInv, Up
<1>8. ASSUME NEW q \in Ids PROVE LinkStep(q)
  <2>1. q[1] \in Links /\ q = <<q[1], q[2]>>
    BY IdFacts
  <2>2. CASE q = <<l, 0>>
    <3>1. More(Inq(q)', Inq(q), Msg(q, "CONNECTED", k))
      BY <1>7, <2>2, ToldOwn
    <3>2. q[1] = l /\ q[2] = 0
      BY <2>2
    <3> QED BY <1>7, <3>1, <3>2 DEF LinkStep
  <2>3. CASE q # <<l, 0>>
    <3>1. Unheard(q)
      BY <1>7, <2>3, ToldUnheard
    <3>2. CASE q[1] # l
      BY <1>7, <2>1, <3>1, <3>2 DEF LinkStep
    <3>3. CASE q[1] = l
      <4>1. q[2] # 0 /\ link[q[1]].conn <= link'[q[1]].conn
        BY <1>7, <2>1, <2>3, <3>3
      <4> QED BY <3>1, <4>1 DEF LinkStep
    <3> QED BY <3>2, <3>3
  <2> QED BY <2>2, <2>3
<1>9. ASSUME NEW q, NEW v, NEW h, Mates(q, v, h), Joint(q[1], h)' PROVE JointStep(q, v, h)
  <2>1. q \in Ids /\ v \in Ids /\ q[1] = v[1]
    BY <1>9 DEF Mates
  <2>2. q[1] \in Links
    BY <2>1, IdFacts
  <2>3. link'[q[1]].entry = "up" /\ link'[q[1]].conn = h /\ (<<q[1], h>> \in acc' \/ <<q[1], h>> \in DOMAIN backlog')
    BY <1>9 DEF Joint
  <2>4. CASE q[1] = l
    <3>1. link[q[1]].conn < h
      BY <1>7, <2>3, <2>4
    <3>2. QuietIn(v) \/ Len(In(v)') = 0
      BY <1>4, <1>5, <2>1
    <3> QED BY <3>1, <3>2 DEF JointStep
  <2>5. CASE q[1] # l
    <3>1. <<q[1], h>> # <<l, k>> /\ v # f
      BY <1>3, <2>1, <2>5
    <3>2. Joint(q[1], h)
      BY <1>2, <1>7, <2>2, <2>3, <2>5, <3>1 DEF Joint
    <3> QED BY <1>5, <2>1, <3>1, <3>2 DEF JointStep
  <2> QED BY <2>4, <2>5
<1> QED BY <1>1, <1>6, <1>8, <1>9 DEF ChildGood

\* The first message of q is handed on.
LEMMA PassGood ==
  ASSUME SysInv, NEW n, ChildMain(n), NEW q \in Ids, NEW f \in Ids, Linked(q), Far(q) = f, InqGood, NetStep,
         UNCHANGED <<link, acc>>, DOMAIN backlog' = DOMAIN backlog, Passes(q, f), Out(q)[1].type \in PeerMsgs,
         Inq(f)' = Inq(f) \/ ~ Waiting(f),
         \A v \in Ids : v # f => Unheard(v),
         \A v \in Ids : v # f => QuietIn(v),
         \A v \in Ids : v # q => QuietOut(v)
  PROVE  ChildGood(n)
<1>1. SysInv'
  BY ChildSys
<1>2. TypeInv /\ FreshInv
  BY DEF SysInv
<1>3. ASSUME NEW v \in Ids PROVE Linked(v)' = Linked(v) /\ Far(v)' = Far(v)
  BY DEF Linked, Far, Open, Waiting
<1>4. ASSUME NEW v \in Ids PROVE InStep(v)
  BY <1>4 DEF InStep
<1>5. ASSUME NEW v \in Ids PROVE LinkStep(v)
  <2>1. CASE v # f \/ Inq(f)' = Inq(f)
    <3>1. Unheard(v)
      BY <1>5, <2>1 DEF Unheard
    <3> QED BY <3>1 DEF LinkStep
  <2>2. CASE v = f /\ ~ Waiting(f)
    <3>1. In(f) = Inq(f) /\ In(f)' = Inq(f)'
      BY <2>2 DEF In, Waiting
    <3> QED BY <2>2, <3>1 DEF LinkStep
  <2> QED BY <2>1, <2>2
<1>6. ASSUME NEW v, NEW h, NEW k, Mates(v, h, k), Joint(v[1], k)' PROVE JointStep(v, h, k)
  <2>1. v \in Ids /\ h \in Ids
    BY <1>6 DEF Mates
  <2>2. Joint(v[1], k)
    BY <1>6 DEF Joint
  <2>3. Far(v) = h /\ Far(h) = v
    BY <1>2, <1>6, <2>2, MateFacts
  <2>4. Far(f) = q
    BY <1>2, Mirror
  <2>5. CASE v = q
    BY <2>2, <2>3, <2>5 DEF JointStep
  <2>6. CASE v # q
    <3>1. h # f
      BY <2>3, <2>4, <2>6
    <3> QED BY <2>1, <2>2, <2>6, <3>1 DEF JointStep
  <2> QED BY <2>5, <2>6
<1> QED BY <1>1, <1>4, <1>5, <1>6 DEF ChildGood

\* A connection is accepted.
LEMMA AcceptLinked ==
  ASSUME SysInv, NEW p \in Ids, AcceptConnection(p), NEW q \in Ids, q # p
  PROVE  /\ Linked(q)' => Linked(q) /\ Far(q)' = Far(q)
         /\ Waiting(q)' = Waiting(q) /\ (Waiting(q) => backlog'[q] = backlog[q])
<1>1. link' = link /\ acc' = acc \cup {p} /\ Waiting(p)
  BY DEF AcceptConnection
<1>2. DOMAIN backlog' = DOMAIN backlog \ {p} /\ \A v \in DOMAIN backlog' : backlog'[v] = backlog[v]
  BY AcceptFacts
<1>3. p[2] # 0
  BY AcceptFacts
<1>4. ASSUME NEW v PROVE Far(v)' = Far(v) /\ (v # p => Open(v)' = Open(v) /\ Waiting(v)' = Waiting(v))
  BY <1>1, <1>2 DEF Far, Open, Waiting
<1>5. PICK f : f = Far(q)
  OBVIOUS
<1>6. Far(q)' = f /\ Far(f)' = Far(f) /\ Open(q)' = Open(q)
  BY <1>4, <1>5
<1>7. Far(Far(q))' = Far(f)' /\ Open(Far(q))' = Open(f)' /\ Waiting(Far(q))' = Waiting(f)'
  BY <1>6 DEF Far, Open, Waiting
<1>8. Open(f)' \/ Waiting(f)' => Open(f) \/ Waiting(f)
  BY <1>1, <1>4
<1>9. Linked(q)' => Linked(q)
  BY <1>5, <1>6, <1>7, <1>8 DEF Linked
<1> QED BY <1>2, <1>4, <1>5, <1>6, <1>9 DEF Waiting

LEMMA AcceptUnheard ==
  ASSUME SysInv, NEW p \in Ids, AcceptConnection(p), NEW q \in Ids, q # p
  PROVE  Unheard(q)
<1> DEFINE e == Msg(p, "CONNECTED", p[2])
<1>1. Waiting(p)
  BY DEF AcceptConnection
<1>2. PICK u : /\ More(u, Inq(p), e) /\ Joined(Inq(p)', u, backlog[p])
                /\ \A k \in Nodes : k # Owner(p) => inq'[k] = inq[k]
  BY AcceptFacts
<1>3. e.id = p
  BY DEF Msg
<1> HIDE DEF e
<1>4. backlog[p] \in Seq(Msgs) /\ \A i \in 1 .. Len(backlog[p]) : backlog[p][i].id = p
  BY <1>1 DEF SysInv, TypeInv, PipeInv, Waiting
<1> DEFINE x == <<e>> \o backlog[p]
<1>5. /\ Len(x) = 1 + Len(backlog[p]) /\ x[1] = e /\ Len(backlog[p]) \in Nat
      /\ \A i \in 2 .. Len(x) : x[i] = backlog[p][i - 1] /\ i - 1 \in 1 .. Len(backlog[p])
  <2>1. <<e>> \in Seq({e}) /\ Len(<<e>>) = 1
    OBVIOUS
  <2> QED BY <1>4, <2>1
<1> HIDE DEF x
<1>6. Joined(x, <<e>>, backlog[p])
  <2>1. Len(<<e>>) = 1 /\ <<e>>[1] = e
    OBVIOUS
  <2>2. \A i \in 1 .. Len(backlog[p]) : i + 1 \in 2 .. Len(x) /\ x[1 + i] = backlog[p][i]
    <3>1. ASSUME NEW i \in 1 .. Len(backlog[p]) PROVE i + 1 \in 2 .. Len(x) /\ x[1 + i] = backlog[p][i]
      <4>1. i + 1 \in 2 .. Len(x) /\ (i + 1) - 1 = i /\ 1 + i = i + 1
        BY <1>5
      <4> QED BY <1>5, <4>1
    <3> QED BY <3>1
  <2> QED BY <1>5, <2>1, <2>2 DEF Joined
<1>7. Joined(u, Inq(p), <<e>>)
  BY <1>2, MoreJoined
<1>8. Joined(Inq(p)', Inq(p), x)
  BY <1>2, <1>6, <1>7, JoinTwice
<1>9. \A i \in 1 .. Len(x) : x[i].id # q
  <2>1. ASSUME NEW i \in 1 .. Len(x) PROVE x[i].id # q
    <3>1. CASE i = 1
      BY <1>3, <1>5, <3>1
    <3>2. CASE i \in 2 .. Len(x)
      BY <1>4, <1>5, <3>2
    <3> QED BY <1>5, <2>1, <3>1, <3>2
  <2> QED BY <2>1
<1>10. CASE Owner(q) # Owner(p)
  <2>1. Owner(q) \in Nodes
    BY IdFacts
  <2> QED BY <1>2, <1>10, <2>1 DEF Unheard, Inq
<1>11. CASE Owner(q) = Owner(p)
  <2>1. Inq(q) = Inq(p) /\ Inq(q)' = Inq(p)'
    BY <1>11 DEF Inq
  <2> QED BY <1>5, <1>8, <1>9, <2>1 DEF Unheard
<1> QED BY <1>10, <1>11

LEMMA AcceptGood ==
  ASSUME SysInv, NEW p \in Ids, AcceptConnection(p)
  PROVE  ChildGood(Owner(p))
<1>1. SysInv'
  BY AcceptSys
<1>2. ChildMain(Owner(p))
  BY IdFacts DEF ChildMain, AcceptConnection
<1>3. main' = main /\ Waiting(p)
  BY DEF AcceptConnection
<1>4. \A q \in Ids : QuietOut(q)
  BY <1>3 DEF QuietOut, Out
<1> DEFINE e == Msg(p, "CONNECTED", p[2])
<1>5. PICK u : /\ More(u, Inq(p), e) /\ Joined(Inq(p)', u, backlog[p]) /\ Unused(p) /\ u \in Seq(Msgs)
               /\ \A k \in Nodes : k # Owner(p) => inq'[k] = inq[k]
               /\ DOMAIN backlog' = DOMAIN backlog \ {p}
  BY AcceptFacts
<1>6. e.type = "CONNECTED" /\ e.id = p /\ "CONNECTED" \notin PeerMsgs
  BY DEF Msg, PeerMsgs
<1> HIDE DEF e
<1>7. AcceptsIn(p)
  <2>1. In(p) = backlog[p] /\ In(p)' = Inq(p)'
    BY <1>3, <1>5 DEF In, Waiting
  <2>2. ASSUME NEW i \in 1 .. Len(u) PROVE u[i].id # p \/ u[i].type \notin PeerMsgs
    <3>1. (i \in 1 .. Len(Inq(p)) /\ u[i] = Inq(p)[i]) \/ u[i] = e
      BY <1>5, <2>2, MoreElement
    <3> QED BY <1>5, <1>6, <3>1 DEF Unused
  <2>3. Alien(u, p)
    BY <1>5, <2>2 DEF Alien
  <2> QED BY <1>5, <2>1, <2>3 DEF AcceptsIn
<1>8. ASSUME NEW q \in Ids, q # p PROVE QuietIn(q)
  <2>1. Waiting(q)' = Waiting(q) /\ (Waiting(q) => backlog'[q] = backlog[q])
    BY <1>8, AcceptLinked
  <2>2. CASE Waiting(q)
    BY <2>1, <2>2 DEF QuietIn, In
  <2>3. CASE ~ Waiting(q) /\ Owner(q) # Owner(p)
    <3>1. Owner(q) \in Nodes
      BY <1>8, IdFacts
    <3> QED BY <1>5, <2>1, <2>3, <3>1 DEF QuietIn, In, Inq
  <2>4. CASE ~ Waiting(q) /\ Owner(q) = Owner(p)
    <3>1. In(q) = Inq(p) /\ In(q)' = Inq(p)'
      BY <2>1, <2>4 DEF In, Inq
    <3>2. Unheard(q)
      BY <1>8, AcceptUnheard
    <3>3. CASE Inq(q)' = Inq(q)
      BY <2>1, <2>4, <3>3 DEF QuietIn, In
    <3>4. CASE \E x : Joined(Inq(q)', Inq(q), x) /\ Len(x) \in Nat /\ \A i \in 1 .. Len(x) : x[i].id # q
      BY <2>1, <2>4, <3>4 DEF QuietIn, In, Alien
    <3> QED BY <3>2, <3>3, <3>4 DEF Unheard
  <2> QED BY <2>2, <2>3, <2>4
<1>9. ASSUME NEW q \in Ids PROVE InStep(q)
  BY <1>7, <1>8, <1>9 DEF InStep
<1>10. link' = link /\ acc' = acc \cup {p}
  BY DEF AcceptConnection
<1>11. ASSUME NEW q \in Ids PROVE LinkStep(q)
  <2>1. CASE q = p
    BY <1>3, <1>5, <1>10, <2>1 DEF LinkStep, e
  <2>2. CASE q # p
    <3>1. Unheard(q)
      BY <1>11, <2>2, AcceptUnheard
    <3> QED BY <1>10, <3>1 DEF LinkStep
  <2> QED BY <2>1, <2>2
<1>12. ASSUME NEW q, NEW f, NEW k, Mates(q, f, k), Joint(q[1], k)' PROVE JointStep(q, f, k)
  <2>1. q \in Ids /\ f \in Ids
    BY <1>12 DEF Mates
  <2>2. Joint(q[1], k)
    BY <1>3, <1>5, <1>10, <1>12 DEF Joint, Waiting
  <2> QED BY <1>4, <1>7, <1>8, <2>1, <2>2 DEF JointStep
<1> QED BY <1>1, <1>2, <1>9, <1>11, <1>12 DEF ChildGood

\* The ends that are open have been heard of.
LEMMA OpenArrives ==
  ASSUME SysInv, NEW p \in Ids, Open(p)
  PROVE  Arrives(p) /\ (p[2] = 0 => Known(p))
<1>1. TypeInv /\ FreshInv
  BY DEF SysInv
<1>2. p[1] \in Links /\ p = <<p[1], p[2]>>
  BY IdFacts
<1>3. CASE p[2] = 0
  <2>1. link[p[1]].entry = "up"
    BY <1>3 DEF Open
  <2>2. Known(<<p[1], 0>>)
    BY <1>1, <1>2, <2>1 DEF FreshInv
  <2> QED BY <1>2, <1>3, <2>2 DEF Arrives
<1>4. CASE p[2] # 0
  BY <1>1, <1>4 DEF Open, FreshInv, Arrives
<1> QED BY <1>3, <1>4

LEMMA CloseTold ==
  ASSUME NEW p \in Ids, Arrives(p), ToParent(p, "CLOSE", 0)
  PROVE  Told(p, "CLOSE", 0)
<1>1. Msg(p, "CLOSE", 0) \in Msgs /\ Msg(p, "CLOSE", 0).type = "CLOSE"
  BY ConstantsAssumption DEF Msg, Msgs, MsgTypes
<1>2. InGood(Msg(p, "CLOSE", 0))
  BY <1>1 DEF InGood, Requests
<1> QED BY <1>1, <1>2 DEF Told

LEMMA CloseGood ==
  ASSUME SysInv, NEW n, ChildMain(n), NEW p \in Ids, NEW b \in BOOLEAN, Close(p, b), backlog' = backlog,
         Arrives(p), b /\ p[2] = 0 => Known(p), p[2] = 0 => Tried(p[1]) \/ Open(p),
         \A q \in Ids : QuietOut(q)
  PROVE  ChildGood(n)
<1>1. Told(p, "CLOSE", 0)
  BY CloseTold DEF Close
<1>2. PICK e : e = IF cf.retry /\ b THEN "wait" ELSE "none"
  OBVIOUS
<1>3. e \in {"none", "wait"} /\ (p[2] = 0 /\ e = "wait" => Known(p))
  BY <1>2
<1>4. IF p[2] = 0 THEN link' = [link EXCEPT ![p[1]].entry = e] /\ acc' = acc
                  ELSE acc' = acc \ {p} /\ link' = link
  BY <1>2 DEF Close
<1>5. Cut(p, e)
  BY <1>3, <1>4 DEF Cut
<1>6. p[2] = 0 => Tried(p[1]) \/ link[p[1]].entry = "up"
  BY DEF Open
<1>7. inq' # inq
  <2>1. More(Inq(p)', Inq(p), Msg(p, "CLOSE", 0))
    BY <1>1, ToldOwn DEF SysInv
  <2>2. Len(Inq(p)) \in Nat /\ Len(Inq(p)') = Len(Inq(p)) + 1
    BY <2>1 DEF More
  <2> QED BY <2>2 DEF Inq
<1> QED BY <1>1, <1>5, <1>6, <1>7, CutGood

LEMMA ConnectedGood ==
  ASSUME SysInv, NEW n, ChildMain(n), NEW l \in Links, Connected(l), Known(<<l, 0>>), Tried(l),
         \A q \in Ids : QuietOut(q)
  PROVE  ChildGood(n)
<1>1. PICK k : k = link[l].conn + 1
  OBVIOUS
<1>2. Up(l, k) /\ ToParent(<<l, 0>>, "CONNECTED", k)
  <2>1. k <= MaxConns
    <3>1. cf.conns \in 0 .. MaxConns /\ link[l].conn \in Nat
      BY ConstantsAssumption DEF SysInv, TypeInv, ConfigType
    <3>2. k <= cf.conns
      BY <1>1 DEF Connected
    <3> QED BY <1>1, <3>1, <3>2, ConstantsAssumption
  <2> QED BY <1>1, <2>1 DEF Connected, Up
<1>3. link[l].conn \in Nat /\ k \in 0 .. MaxConns /\ k # 0
  <2>1. link[l].conn \in Nat
    BY DEF SysInv, TypeInv
  <2>2. k <= MaxConns
    BY <1>2 DEF Up
  <2> QED BY <1>1, <2>1, <2>2, ConstantsAssumption
<1>4. PICK p : p = <<l, 0>>
  OBVIOUS
<1>5. p \in Ids
  BY <1>4, ConstantsAssumption DEF Ids
<1>6. Msg(p, "CONNECTED", k) \in Msgs /\ Msg(p, "CONNECTED", k).type = "CONNECTED"
  BY <1>3, <1>5 DEF Msg, Msgs, MsgTypes
<1>7. InGood(Msg(p, "CONNECTED", k))
  BY <1>6 DEF InGood, Requests
<1>8. Told(p, "CONNECTED", k)
  BY <1>2, <1>3, <1>4, <1>5, <1>6, <1>7 DEF Told, Arrives
<1> QED BY <1>2, <1>4, <1>8, UpGood

LEMMA SameOut ==
  ASSUME main' = main
  PROVE  \A q \in Ids : QuietOut(q)
BY DEF QuietOut, Out

LEMMA RetryGood ==
  ASSUME SysInv, NEW l \in Links, Retry(l)
  PROVE  ChildGood(l[1])
<1>1. Connected(l) /\ main' = main /\ cf' = cf /\ link[l].entry = "wait"
  BY DEF Retry
<1>2. Known(<<l, 0>>)
  BY <1>1 DEF SysInv, FreshInv
<1>3. <<l, 0>> \in Ids
  BY ConstantsAssumption DEF Ids
<1>4. l[1] \in Nodes
  BY <1>3, IdFacts DEF Owner
<1>5. ChildMain(l[1])
  BY <1>1, <1>4 DEF ChildMain
<1>6. Tried(l)
  BY <1>1 DEF Tried
<1> QED BY <1>1, <1>2, <1>5, <1>6, SameOut, ConnectedGood

LEMMA LostGood ==
  ASSUME SysInv, NEW p \in Ids, Lost(p)
  PROVE  ChildGood(Owner(p))
<1>1. Open(p) /\ Close(p, TRUE) /\ main' = main /\ cf' = cf /\ backlog' = backlog
  BY DEF Lost
<1>2. Arrives(p) /\ (p[2] = 0 => Known(p))
  BY <1>1, OpenArrives
<1>3. ChildMain(Owner(p))
  BY <1>1, IdFacts DEF ChildMain
<1> QED BY <1>1, <1>2, <1>3, SameOut, CloseGood

\* The first message in the pipe.
LEMMA PopFacts ==
  ASSUME SysInv, NEW n \in Nodes, DoParentMessage(n), NEW m, m = Head(main[n].out)
  PROVE  /\ ChildMain(n) /\ m \in Msgs /\ m.id \in Ids /\ Owner(m.id) = n /\ Known(m.id)
         /\ OutGood(m) /\ m.type # "CONNECTED" /\ (m.type = "CONNECT_TO" => m.id[2] = 0)
         /\ Out(m.id)[1] = m /\ Rest(Out(m.id)', Out(m.id))
         /\ \A q \in Ids : m.id # q \/ m.type \notin PeerMsgs => QuietOut(q)
<1>1. ChildMain(n) /\ main[n].out # << >> /\ Main(n, [main[n] EXCEPT !.out = Tail(@)])
  BY DEF DoParentMessage, ChildMain, Main
<1>2. IsMain(n, main[n]) /\ TypeInv
  BY DEF SysInv, TypeInv
<1>3. main[n].out \in Seq(Msgs)
  BY <1>2, MainFacts
<1>4. m = main[n].out[1] /\ m \in Msgs /\ 1 \in 1 .. Len(main[n].out)
  BY <1>1, <1>3, TailRest
<1>5. m.id \in DOMAIN main[n].peer /\ m.type # "CONNECTED" /\ (m.type = "CONNECT_TO" => m.id[2] = 0)
  BY <1>2, <1>4 DEF IsMain
<1>6. m.id \in Ids /\ Owner(m.id) = n
  BY <1>2, <1>5, MainFacts
<1>7. Known(m.id)
  BY <1>5, <1>6 DEF Known
<1>8. OutGood(m)
  BY <1>4 DEF SysInv, PipeInv
<1>9. Rest(main'[n].out, main[n].out) /\ \A k \in Nodes : k # n => main'[k] = main[k]
  <2>1. PICK t : t = [main[n] EXCEPT !.out = Tail(@)]
    OBVIOUS
  <2>2. Rest(t.out, main[n].out)
    BY <1>1, <1>2, <2>1, PopMain
  <2>3. main' = [main EXCEPT ![n] = t]
    BY <1>1, <2>1 DEF Main
  <2>4. main = [k \in Nodes |-> main[k]]
    BY <1>2 DEF TypeInv
  <2>5. main'[n] = t /\ \A k \in Nodes : k # n => main'[k] = main[k]
    BY <2>3, <2>4
  <2> QED BY <2>2, <2>5
<1>10. Out(m.id)[1] = m /\ Rest(Out(m.id)', Out(m.id))
  BY <1>4, <1>6, <1>9 DEF Out
<1>11. ASSUME NEW q \in Ids, m.id # q \/ m.type \notin PeerMsgs PROVE QuietOut(q)
  <2>1. Owner(q) \in Nodes
    BY <1>11, IdFacts
  <2>2. CASE Owner(q) = n
    BY <1>4, <1>9, <1>11, <2>2 DEF QuietOut, Out
  <2>3. CASE Owner(q) # n
    BY <1>9, <2>1, <2>3 DEF QuietOut, Out
  <2> QED BY <2>2, <2>3
<1> QED BY SMTT(30), <1>1, <1>4, <1>5, <1>6, <1>7, <1>8, <1>10, <1>11

LEMMA ForwardStep ==
  ASSUME SysInv, NEW n, ChildMain(n), NEW m \in Msgs, NEW q \in Ids, q = m.id, OutGood(m), Out(q)[1] = m,
         Rest(Out(q)', Out(q)), \A v \in Ids : v # q => QuietOut(v), m.type \in PeerMsgs, Forward(m)
  PROVE  ChildGood(n)
<1>0. TypeInv /\ FreshInv
  BY DEF SysInv
<1>1. q = m.id
  OBVIOUS
<1>2. /\ ChildMain(n) /\ m \in Msgs /\ q \in Ids
      /\ OutGood(m) /\ Out(q)[1] = m /\ Rest(Out(q)', Out(q))
      /\ \A v \in Ids : v # q => QuietOut(v)
  OBVIOUS
<1>3. UNCHANGED <<link, acc>>
  BY DEF Forward
<1>4. CASE ~ Linked(q)
  <2>1. UNCHANGED <<inq, backlog>>
    BY <1>1, <1>4 DEF Forward
  <2>2. \A v \in Ids : Linked(v) => QuietOut(v)
    BY <1>2, <1>4
  <2> QED BY <1>2, <1>3, <2>1, <2>2, SameGood
<1>5. CASE Linked(q)
  <2>1. PICK f : f = Far(q)
    OBVIOUS
  <2>2. f \in Ids /\ Owner(f) = Other(q) /\ Other(f) = Owner(q)
    BY <1>0, <1>2, <1>5, <2>1, Mirror
  <2>3. PICK e : e = Msg(f, m.type, m.conn)
    OBVIOUS
  <2>4. e \in Msgs /\ e.id = f /\ e.type = m.type /\ e.conn = m.conn
    BY <1>2, <2>2, <2>3 DEF Msgs, Msg
  <2>5. InGood(e)
    BY <1>1, <1>2, <2>2, <2>4 DEF InGood, OutGood, Asked, AskedType, AskedAuth, Wants, RequestType, Auth
  <2>6. CASE Waiting(f)
    <3>1. backlog' = [backlog EXCEPT ![f] = Append(@, e)] /\ inq' = inq
      BY <1>1, <1>5, <2>1, <2>3, <2>6 DEF Forward
    <3>2. Fill(f, e)
      BY <1>3, <2>4, <2>5, <2>6, <3>1 DEF Fill, Waiting
    <3>3. /\ DOMAIN backlog' = DOMAIN backlog /\ More(backlog'[f], backlog[f], e)
          /\ \A v \in DOMAIN backlog : v # f => backlog'[v] = backlog[v]
      BY <1>0, <3>2, FillFacts
    <3>4. In(f) = backlog[f] /\ In(f)' = backlog'[f]
      BY <2>6, <3>3 DEF In, Waiting
    <3>5. Passes(q, f)
      BY <1>1, <1>2, <2>3, <3>3, <3>4 DEF Passes
    <3>6. ASSUME NEW v \in Ids, v # f PROVE QuietIn(v)
      BY <3>1, <3>3, <3>6 DEF QuietIn, In, Inq, Waiting
    <3>7. InqGood /\ NetStep
      BY <3>1, <3>2, SameInq, FillNet
    <3>8. Inq(f)' = Inq(f) /\ \A v \in Ids : Unheard(v)
      BY <3>1 DEF Unheard, Inq
    <3> QED BY <1>2, <1>3, <1>5, <2>1, <2>2, <3>3, <3>5, <3>6, <3>7, <3>8, PassGood
  <2>7. CASE ~ Waiting(f)
    <3>1. ToParent(f, m.type, m.conn) /\ backlog' = backlog
      BY <1>1, <1>5, <2>1, <2>7 DEF Forward
    <3>2. Open(f)
      BY <1>5, <2>1, <2>7 DEF Linked
    <3>3. Arrives(f)
      BY <2>2, <3>2, OpenArrives
    <3>4. m.type # "CONNECT_TO" /\ m.type # "CONNECTED"
      BY DEF PeerMsgs
    <3>5. Told(f, m.type, m.conn)
      BY <2>2, <2>3, <2>4, <2>5, <3>1, <3>3, <3>4 DEF Told
    <3>6. Tells(f, m.type, m.conn, f)
      BY <1>0, <2>2, <3>5, ToldFacts
    <3>7. In(f) = Inq(f) /\ In(f)' = Inq(f)'
      BY <2>7, <3>1 DEF In, Waiting
    <3>8. Passes(q, f)
      BY <1>1, <1>2, <3>6, <3>7 DEF Passes, Tells
    <3>9. ASSUME NEW v \in Ids, v # f PROVE QuietIn(v)
      <4>1. Waiting(v)' = Waiting(v)
        BY <3>1 DEF Waiting
      <4> QED BY <1>0, <3>1, <3>5, <3>9, <4>1, TellQuiet
    <3>10. InqGood /\ NetStep
      BY <1>3, <3>1, <3>5, ToldInq, SameNet
    <3>11. \A v \in Ids : v # f => Unheard(v)
      BY <1>0, <3>5, ToldUnheard
    <3> QED BY <1>2, <1>3, <1>5, <2>1, <2>2, <2>7, <3>1, <3>8, <3>9, <3>10, <3>11, PassGood
  <2> QED BY <2>6, <2>7
<1> QED BY <1>4, <1>5

LEMMA ForwardGood ==
  ASSUME SysInv, NEW n \in Nodes, DoParentMessage(n), NEW m, m = Head(main[n].out),
         m.type \in PeerMsgs, Forward(m)
  PROVE  ChildGood(n)
<1>1. PICK q : q = m.id
  OBVIOUS
<1>2. /\ ChildMain(n) /\ m \in Msgs /\ q \in Ids
      /\ OutGood(m) /\ Out(q)[1] = m /\ Rest(Out(q)', Out(q))
      /\ \A v \in Ids : v # q => QuietOut(v)
  BY <1>1, PopFacts
<1> QED BY <1>1, <1>2, ForwardStep

LEMMA ParentGood ==
  ASSUME SysInv, NEW n \in Nodes, DoParentMessage(n)
  PROVE  ChildGood(n)
<1>1. PICK m : m = Head(main[n].out)
  OBVIOUS
<1>2. PICK p : p = m.id
  OBVIOUS
<1>3. /\ ChildMain(n) /\ m \in Msgs /\ p \in Ids /\ Known(p)
      /\ m.type # "CONNECTED" /\ (m.type = "CONNECT_TO" => p[2] = 0)
      /\ \A q \in Ids : m.type \notin PeerMsgs => QuietOut(q)
      /\ Out(p)[1] = m /\ Rest(Out(p)', Out(p))
  BY <1>1, <1>2, PopFacts
<1>4. m.type \in MsgTypes
  BY <1>3 DEF Msgs
<1>5. Arrives(p)
  BY <1>3 DEF Arrives
<1>6. p[1] \in Links /\ p = <<p[1], p[2]>>
  BY <1>3, IdFacts
<1>7. CASE m.type = "CONNECT_TO"
  <2>0. \A q \in Ids : QuietOut(q)
    BY <1>3, <1>7 DEF PeerMsgs
  <2>1. \/ Connected(p[1])
        \/ cf.retry /\ link' = [link EXCEPT ![p[1]].entry = "wait"] /\ UNCHANGED <<inq, acc, backlog>>
        \/ Close(p, FALSE) /\ UNCHANGED backlog
    BY <1>1, <1>2, <1>7 DEF DoParentMessage
  <2>2. p[2] = 0 /\ Known(<<p[1], 0>>)
    BY <1>3, <1>6, <1>7
  <2>6. Tried(p[1])
    <3>1. p = <<p[1], 0>>
      BY <1>6, <2>2
    <3> QED BY <1>2, <1>3, <1>7, <3>1 DEF Tried
  <2>3. CASE Connected(p[1])
    BY <1>3, <1>6, <2>0, <2>2, <2>3, <2>6, ConnectedGood
  <2>4. CASE link' = [link EXCEPT ![p[1]].entry = "wait"] /\ UNCHANGED <<inq, acc, backlog>>
    <3>1. Cut(p, "wait")
      BY <1>3, <2>2, <2>4 DEF Cut
    <3> QED BY <1>3, <2>0, <2>2, <2>4, <2>6, <3>1, CutGood
  <2>5. CASE Close(p, FALSE) /\ UNCHANGED backlog
    BY <1>3, <1>5, <2>0, <2>5, <2>6, CloseGood
  <2> QED BY <2>1, <2>3, <2>4, <2>5
<1>8. CASE m.type = "CLOSE"
  <2>0. \A q \in Ids : QuietOut(q)
    BY <1>3, <1>8 DEF PeerMsgs
  <2>1. CloseMsg(p) /\ UNCHANGED backlog
    BY <1>1, <1>2, <1>8 DEF DoParentMessage
  <2>2. CASE Open(p)
    <3>1. Close(p, FALSE)
      BY <2>1, <2>2 DEF CloseMsg
    <3> QED BY <1>3, <1>5, <2>0, <2>1, <2>2, <3>1, CloseGood
  <2>3. CASE ~ Open(p)
    <3>1. UNCHANGED <<inq, link, acc>>
      BY <2>1, <2>3 DEF CloseMsg
    <3> QED BY <1>3, <2>0, <2>1, <3>1, SameGood
  <2> QED BY <2>2, <2>3
<1>9. CASE m.type \in PeerMsgs
  <2>1. m.type # "CONNECT_TO" /\ m.type # "CLOSE"
    BY <1>9 DEF PeerMsgs
  <2>2. Forward(m)
    BY <1>1, <2>1 DEF DoParentMessage
  <2> QED BY <1>1, <1>9, <2>2, ForwardGood
<1> QED BY <1>3, <1>4, <1>7, <1>8, <1>9 DEF MsgTypes

LEMMA ChildStepGood ==
  ASSUME SysInv, NEW n \in Nodes, ChildStep(n)
  PROVE  \E k : ChildGood(k)
BY ParentGood, RetryGood, AcceptGood, LostGood DEF ChildStep

-----------------------------------------------------------------------------
(* Every step is one of the two.                                           *)

LEMMA Placed ==
  ASSUME SysInv, NEW p \in Ids, ~ Unused(p)
  PROVE  ~ Waiting(p) /\ p[2] <= link[p[1]].conn
<1>1. TypeInv /\ FreshInv
  BY DEF SysInv
<1>2. p[2] \in Nat /\ link[p[1]].conn \in Nat
  BY <1>1, IdFacts DEF TypeInv
<1>3. ~ Waiting(p) /\ ~ (p[2] > link[p[1]].conn)
  BY <1>1 DEF FreshInv, Waiting
<1> QED BY <1>2, <1>3

LEMMA ConnectDoes ==
  ASSUME SysInv, NEW l \in Links, Connect(l)
  PROVE  \E n, t, p, r1, w, ts : MainMove(n, t, p, r1, w, ts) /\ Does(n, p, r1, w, ts)
<1>0. TypeInv /\ FreshInv
  BY DEF SysInv
<1>1. PICK p : p = <<l, 0>>
  OBVIOUS
<1>2. p \in Ids /\ Owner(p) = l[1] /\ p[2] = 0 /\ p[1] = l
  BY <1>1, ConstantsAssumption DEF Ids, Owner
<1>3. PICK n : n = l[1]
  OBVIOUS
<1>4. n \in Nodes /\ Owner(p) = n
  BY <1>2, <1>3, IdFacts
<1>5. PICK s : s = main[n]
  OBVIOUS
<1>6. IsMain(n, s) /\ p \notin DOMAIN s.peer
  BY <1>0, <1>1, <1>3, <1>4, <1>5 DEF TypeInv, Connect
<1>7. Effect(n, s, AddPeer(s, p), p, NewPeer, s.sync_pending, << >>)
  BY <1>2, <1>4, <1>6, AddEffect
<1>8. PICK a : a = AddPeer(s, p)
  OBVIOUS
<1>9. IsMain(n, a) /\ p \in DOMAIN a.peer /\ a.peer[p] = NewPeer /\ a.sync_pending = s.sync_pending
  BY <1>7, <1>8, After
<1>10. Effect(n, a, SendToChild(a, p, "CONNECT_TO"), p, NewPeer, s.sync_pending, <<"CONNECT_TO">>)
  <2>1. "CONNECT_TO" \in MsgTypes \ {"CONNECTED"}
    BY DEF MsgTypes
  <2> QED BY <1>2, <1>9, <2>1, Send
<1>11. PICK b : b = SendToChild(a, p, "CONNECT_TO")
  OBVIOUS
<1>12. Len(<<"CONNECT_TO">>) \in Nat
  OBVIOUS
<1>13. Effect(n, s, b, p, NewPeer, s.sync_pending, <<"CONNECT_TO">>)
  BY <1>7, <1>8, <1>10, <1>11, <1>12, BecomesThen
<1>14. IsMain(n, b) /\ p \in DOMAIN b.peer /\ b.peer[p] = NewPeer /\ b.sync_pending = s.sync_pending
  BY <1>13, After
<1>15. PICK r1 : r1 = [NewPeer EXCEPT !.state = "PENDING"]
  OBVIOUS
<1>16. /\ r1 \in PeerSet /\ r1.state = "PENDING" /\ r1.phase = "UNKNOWN"
       /\ r1.conn = NewPeer.conn /\ NewPeer.conn = 0 /\ ~ r1.error
  BY <1>15, NewPeerType DEF NewPeer, PeerSet, States
<1>17. PICK t : t = [b EXCEPT !.peer[p].state = "PENDING"]
  OBVIOUS
<1>18. t = [b EXCEPT !.peer = [b.peer EXCEPT ![p] = r1]]
  BY <1>14, <1>15, <1>17
<1>19. Effect(n, b, t, p, r1, s.sync_pending, << >>)
  BY <1>14, <1>16, <1>18, Change
<1>20. Effect(n, s, t, p, r1, s.sync_pending, <<"CONNECT_TO">>)
  BY <1>12, <1>13, <1>16, <1>19, ThenChange
<1>21. main' = [main EXCEPT ![n] = t] /\ UNCHANGED <<cf, inq, link, acc, backlog>>
  BY <1>1, <1>3, <1>5, <1>8, <1>11, <1>17 DEF Connect, Main
<1>22. ~ Waiting(p) /\ p[2] <= link[p[1]].conn
  BY <1>0, <1>2 DEF TypeInv, Waiting
<1>23. inq \in [Nodes -> Seq(Msgs)]
  BY <1>0 DEF TypeInv
<1>24. MainMove(n, t, p, r1, s.sync_pending, <<"CONNECT_TO">>)
  BY <1>2, <1>4, <1>5, <1>12, <1>20, <1>21, <1>22, <1>23 DEF MainMove
<1>25. Connects(n, p, r1, s.sync_pending, <<"CONNECT_TO">>)
  BY <1>2, <1>4, <1>5, <1>6, <1>16, <1>21 DEF Connects, Known
<1> QED BY <1>24, <1>25 DEF Does

LEMMA DisconnectDoes ==
  ASSUME SysInv, NEW p \in Ids, Disconnect(p)
  PROVE  \E n, t, q, r1, w, ts : MainMove(n, t, q, r1, w, ts) /\ Does(n, q, r1, w, ts)
<1>0. TypeInv
  BY DEF SysInv
<1>1. PICK n : n = Owner(p)
  OBVIOUS
<1>2. n \in Nodes /\ Known(p)
  BY <1>1, IdFacts DEF Disconnect, Known
<1>3. IsMain(n, main[n]) /\ p \in DOMAIN main[n].peer /\ main[n].peer[p] = Peer(p)
  BY <1>0, <1>1, <1>2 DEF TypeInv, Known, Peer
<1>4. PICK t : t = CloseConnection(main[n], p)
  OBVIOUS
<1>5. Effect(n, main[n], t, p, Closed(Peer(p)), main[n].sync_pending, CloseMsgs(Peer(p)))
  BY <1>3, <1>4, CloseEffect
<1>6. main' = [main EXCEPT ![n] = t] /\ UNCHANGED <<cf, inq, link, acc, backlog>>
  BY <1>1, <1>4 DEF Disconnect, Main
<1>7. ~ Waiting(p) /\ p[2] <= link[p[1]].conn
  BY <1>2, Placed DEF Unused
<1>8. inq \in [Nodes -> Seq(Msgs)]
  BY <1>0 DEF TypeInv
<1>9. Len(CloseMsgs(Peer(p))) \in Nat
  BY DEF CloseMsgs
<1>10. MainMove(n, t, p, Closed(Peer(p)), main[n].sync_pending, CloseMsgs(Peer(p)))
  BY <1>1, <1>2, <1>5, <1>6, <1>7, <1>8, <1>9 DEF MainMove
<1>11. Disconnects(n, p, Closed(Peer(p)), main[n].sync_pending, CloseMsgs(Peer(p)))
  BY <1>2, <1>6 DEF Disconnects
<1> QED BY <1>10, <1>11 DEF Does

LEMMA ResumeDoes ==
  ASSUME SysInv, NEW n \in Nodes, NEW msgstate, NEW cur, TakePending(n, msgstate, cur)
  PROVE  \E k, t, q, r1, w, ts : MainMove(k, t, q, r1, w, ts) /\ Does(k, q, r1, w, ts)
<1>0. TypeInv /\ cf \in Configs
  BY DEF SysInv, TypeInv
<1>1. PICK s : s = main[n]
  OBVIOUS
<1>2. IsMain(n, s) /\ s.sync_pending # << >>
  BY <1>0, <1>1 DEF TypeInv, TakePending, ToSync
<1>3. s.sync_pending \in Seq(Ids)
  BY <1>2, MainFacts
<1>4. PICK v : v = Tail(s.sync_pending)
  OBVIOUS
<1>5. PICK p : p = Head(s.sync_pending)
  OBVIOUS
<1>6. v \in Seq(Ids) /\ Rest(v, s.sync_pending) /\ p = s.sync_pending[1] /\ 1 \in 1 .. Len(s.sync_pending)
  BY <1>2, <1>3, <1>4, <1>5, TailRest
<1>7. p \in DOMAIN s.peer /\ p \in Ids /\ Owner(p) = n /\ s.peer[p] \in PeerSet
  BY <1>2, <1>6, MainFacts
<1>8. ASSUME NEW i \in 1 .. Len(v) PROVE v[i] \in DOMAIN s.peer
  <2>1. i + 1 \in 1 .. Len(s.sync_pending) /\ v[i] = s.sync_pending[i + 1]
    BY <1>6, <1>8, RestElement
  <2> QED BY <1>2, <2>1, MainFacts
<1>9. PICK s1 : s1 = [s EXCEPT !.sync_pending = v]
  OBVIOUS
<1>10. Effect(n, s, s1, p, s.peer[p], v, << >>)
  BY <1>2, <1>6, <1>7, <1>8, <1>9, SetPending
<1>11. IsMain(n, s1) /\ p \in DOMAIN s1.peer /\ s1.peer[p] = s.peer[p] /\ s1.sync_pending = v
  BY <1>10, After
<1>12. SendState(s1.peer[p], p) \in BOOLEAN
  BY <1>0, <1>7, <1>11, SendStateBoolean
<1>13. PICK t : t = HandshakeDone(s1, p)
  OBVIOUS
<1>14. PICK r1, w, ts : /\ Effect(n, s1, t, p, r1, w, ts)
                        /\ Decided(p, s1.peer[p], r1, ts) /\ Queued(s1, w, p, r1)
  BY <1>11, <1>12, <1>13, HandshakeEffect
<1>15. Decided(p, s.peer[p], r1, ts) /\ w = v
  <2>1. s1.in_sync = s.in_sync
    BY <1>2, <1>9, MainFacts
  <2>2. s.in_sync = None
    BY <1>1 DEF TakePending, ToSync
  <2> QED BY <1>11, <1>14, <2>1, <2>2 DEF Queued
<1>16. Len(ts) \in Nat /\ r1.conn = s.peer[p].conn
  <2>1. r1.conn = s.peer[p].conn
    BY <1>15 DEF Decided, Keeps
  <2>2. ts \in {<< >>, <<"CLOSE">>, <<"SERIAL", "PHASE_DONE">>}
    BY <1>15 DEF Decided
  <2>3. Len(<< >>) \in Nat /\ Len(<<"CLOSE">>) \in Nat /\ Len(<<"SERIAL", "PHASE_DONE">>) \in Nat
    OBVIOUS
  <2> QED BY <2>1, <2>2, <2>3
<1>17. Effect(n, s, t, p, r1, w, ts)
  BY <1>10, <1>14, <1>16, ChangeThen
<1>18. main' = [main EXCEPT ![n] = t] /\ UNCHANGED <<cf, inq, link, acc, backlog>>
  BY <1>1, <1>4, <1>5, <1>9, <1>13 DEF TakePending, Main
<1>19. Known(p) /\ Peer(p) = s.peer[p]
  BY <1>1, <1>7 DEF Known, Peer
<1>20. ~ Waiting(p) /\ p[2] <= link[p[1]].conn
  BY <1>7, <1>19, Placed DEF Unused
<1>21. inq \in [Nodes -> Seq(Msgs)]
  BY <1>0 DEF TypeInv
<1>22. MainMove(n, t, p, r1, w, ts)
  BY <1>1, <1>7, <1>16, <1>17, <1>18, <1>20, <1>21 DEF MainMove
<1>23. Peer(p).state # "CONNECTED" => <<p[1], Peer(p).conn>> \in upset'
  <2>1. s1.peer[p] = Peer(p)
    BY <1>11, <1>19
  <2>2. upset' = IF s1.peer[p].state = "CONNECTED" THEN upset ELSE upset \cup {<<p[1], s1.peer[p].conn>>}
    BY <1>1, <1>4, <1>5, <1>9 DEF TakePending
  <2> QED BY <2>1, <2>2
<1>24. Resumes(n, p, r1, w, ts)
  BY <1>1, <1>2, <1>6, <1>15, <1>18, <1>19, <1>23 DEF Resumes
<1> QED BY <1>22, <1>24 DEF Does

LEMMA ShortGood ==
  ASSUME NEW p, NEW ts \in ShortTypes
  PROVE  AreTypes(ts) /\ GoodTypes(p, ts)
<1>1. CASE ts = << >>
  BY <1>1 DEF AreTypes, GoodTypes
<1>2. CASE ts = <<"CLOSE">>
  BY <1>2 DEF AreTypes, GoodTypes, MsgTypes, Requests
<1>3. CASE ts = <<"VERSION">>
  BY <1>3 DEF AreTypes, GoodTypes, MsgTypes, PeerMsgs, Requests
<1>4. CASE ts = <<"CONNECT_TO">>
  BY <1>4 DEF AreTypes, GoodTypes, MsgTypes, Requests
<1>5. CASE ts = <<"SERIAL", "PHASE_DONE">>
  BY <1>5 DEF AreTypes, GoodTypes, MsgTypes, PeerMsgs, Requests
<1> QED BY <1>1, <1>2, <1>3, <1>4, <1>5 DEF ShortTypes

LEMMA CloseShort ==
  ASSUME NEW r PROVE CloseMsgs(r) \in ShortTypes
BY DEF CloseMsgs, ShortTypes

LEMMA DecidedShort ==
  ASSUME NEW p, NEW r, NEW r1, NEW ts, Decided(p, r, r1, ts)
  PROVE  ts \in {<< >>, <<"CLOSE">>, <<"SERIAL", "PHASE_DONE">>}
BY DEF Decided

LEMMA ShakenShort ==
  ASSUME NEW p, NEW r, NEW r1, NEW ts, Shaken(p, r, r1, ts)
  PROVE  ts \in {<< >>, <<"CLOSE">>, <<"SERIAL", "PHASE_DONE">>}
BY DecidedShort DEF Shaken

LEMMA OpeningFacts ==
  ASSUME NEW p
  PROVE  /\ Len(Opening(p)) \in Nat
         /\ IF Wants(p) THEN Len(Opening(p)) = 2 /\ Opening(p)[1] = RequestType(p) /\ Opening(p)[2] = "PHASE_DONE"
                        ELSE Len(Opening(p)) = 1 /\ Opening(p)[1] = "PHASE_DONE"
         /\ RequestType(p) \in Requests
<1>1. CASE Wants(p)
  BY <1>1 DEF Opening, RequestType, Requests
<1>2. CASE ~ Wants(p)
  BY <1>2 DEF Opening, RequestType, Requests
<1> QED BY <1>1, <1>2

\* What is sent on VERSION.
LEMMA OpenTypes ==
  ASSUME NEW p, NEW us \in {<< >>, <<"CLOSE">>, <<"SERIAL", "PHASE_DONE">>}, NEW ts, Joined(ts, Opening(p), us)
  PROVE  /\ AreTypes(ts) /\ GoodTypes(p, ts)
         /\ \A i \in 1 .. Len(ts) : ts[i] # "VERSION"
         /\ Wants(p) => Len(ts) >= 2 /\ ts[1] \in Requests
<1>0. PICK o : o = Opening(p)
  OBVIOUS
<1>1. /\ Len(o) \in Nat /\ RequestType(p) \in Requests
      /\ IF Wants(p) THEN Len(o) = 2 /\ o[1] = RequestType(p) /\ o[2] = "PHASE_DONE"
                     ELSE Len(o) = 1 /\ o[1] = "PHASE_DONE"
  BY <1>0, OpeningFacts
<1>2. \A i \in 1 .. Len(us) : us[i] \in {"CLOSE", "SERIAL", "PHASE_DONE"}
  <2>1. CASE us = << >>
    BY <2>1
  <2>2. CASE us = <<"CLOSE">>
    BY <2>2
  <2>3. CASE us = <<"SERIAL", "PHASE_DONE">>
    BY <2>3
  <2> QED BY <2>1, <2>2, <2>3
<1>3. Joined(ts, o, us)
  BY <1>0
<1>4. /\ Len(us) \in Nat /\ Len(ts) = Len(o) + Len(us)
      /\ \A i \in 1 .. Len(o) : ts[i] = o[i]
  BY <1>3 DEF Joined
<1>5. ASSUME NEW i \in 1 .. Len(ts)
      PROVE  ts[i] \in {"CLOSE", "SERIAL", "PHASE_DONE"} \/ (Wants(p) /\ ts[i] = RequestType(p))
  <2>1. \/ i \in 1 .. Len(o) /\ ts[i] = o[i]
        \/ \E j \in 1 .. Len(us) : i = Len(o) + j /\ ts[i] = us[j]
    BY <1>3, <1>5, JoinedElement
  <2> QED BY <1>1, <1>2, <2>1
<1>6. AreTypes(ts)
  BY <1>1, <1>4, <1>5 DEF AreTypes, MsgTypes, PeerMsgs, Requests
<1>7. GoodTypes(p, ts)
  BY <1>5 DEF GoodTypes, Requests
<1>8. \A i \in 1 .. Len(ts) : ts[i] # "VERSION"
  BY <1>1, <1>5 DEF Requests
<1>9. Wants(p) => Len(ts) >= 2 /\ ts[1] \in Requests
  <2> SUFFICES ASSUME Wants(p) PROVE Len(ts) >= 2 /\ ts[1] \in Requests
    OBVIOUS
  <2>1. Len(o) = 2 /\ o[1] = RequestType(p) /\ RequestType(p) \in Requests /\ Len(us) \in Nat
    BY <1>1, <1>4
  <2>2. ts[1] = o[1]
    BY <1>4, <2>1
  <2> QED BY <1>4, <2>1, <2>2
<1> QED BY <1>6, <1>7, <1>8, <1>9

LEMMA TreatedTypes ==
  ASSUME NEW p, NEW m, NEW r, NEW r1, NEW ts, Treated(p, m, r, r1, ts)
  PROVE  AreTypes(ts) /\ GoodTypes(p, ts)
<1>1. CASE ts \in ShortTypes
  BY <1>1, ShortGood
<1>2. CASE \E us : Shaken(p, Opened(p, m.conn, r), r1, us) /\ Joined(ts, Opening(p), us)
  BY <1>2, ShakenShort, OpenTypes
<1>3. ASSUME PhaseEnds(p, r, r1, ts) PROVE ts \in ShortTypes
  BY <1>3, ShakenShort, CloseShort DEF PhaseEnds, ShortTypes
<1>4. << >> \in ShortTypes /\ <<"VERSION">> \in ShortTypes /\ CloseMsgs(r) \in ShortTypes
  BY CloseShort DEF ShortTypes
<1>5. ts \in ShortTypes \/ (\E us : Shaken(p, Opened(p, m.conn, r), r1, us) /\ Joined(ts, Opening(p), us))
  BY <1>3, <1>4 DEF Treated
<1> QED BY <1>1, <1>2, <1>5

LEMMA FirstKnown ==
  ASSUME FreshInv, NEW n, NEW m \in Msgs, m = inq[n][1], 1 \in 1 .. Len(inq[n]), Len(inq[n]) \in Nat,
         m.id \in Ids, Owner(m.id) = n
  PROVE  m.type = "CONNECTED" \/ Known(m.id)
<1> SUFFICES ASSUME m.type # "CONNECTED", ~ Known(m.id) PROVE FALSE
  OBVIOUS
<1>1. PICK p : p = m.id
  OBVIOUS
<1>2. InOK(inq[n], Intro(p), TRUE)
  BY <1>1 DEF FreshInv, Inq
<1>3. HotAt(inq[n], Intro(p), TRUE, 0) /\ 0 \in 0 .. Len(inq[n])
  BY DEF HotAt
<1>4. inq[n][1] \in Intro(p)[3] /\ 0 < 1 /\ 1 \in 1 .. Len(inq[n])
  BY <1>1 DEF Intro
<1>5. PICK i \in 1 .. Len(inq[n]) : 0 < i /\ i < 1
  <2> HIDE DEF Intro
  <2> QED BY <1>2, <1>3, <1>4 DEF InOK
<1> QED BY <1>5

LEMMA PollDoes ==
  ASSUME SysInv, NEW n \in Nodes, Poll(n), None \notin upset'
  PROVE  \E k, t, q, r1, w, ts : MainMove(k, t, q, r1, w, ts) /\ Does(k, q, r1, w, ts)
<1>0. TypeInv /\ PipeInv /\ FreshInv /\ cf \in Configs
  BY DEF SysInv, TypeInv
<1>1. inq \in [Nodes -> Seq(Msgs)] /\ inq[n] # << >>
  BY <1>0 DEF TypeInv, Poll, PollReads
<1>2. PICK m : m = Head(inq[n])
  OBVIOUS
<1>3. PICK v : v = Tail(inq[n])
  OBVIOUS
<1>4. v \in Seq(Msgs) /\ Rest(v, inq[n]) /\ m = inq[n][1] /\ m \in Msgs /\ 1 \in 1 .. Len(inq[n])
  BY <1>1, <1>2, <1>3, TailRest
<1>5. /\ m.type # "CONNECT_TO" /\ Owner(m.id) = n /\ InGood(m)
      /\ m.type = "CONNECTED" => m.conn # 0
  BY <1>0, <1>4 DEF PipeInv
<1>6. PICK p : p = m.id
  OBVIOUS
<1>7. p \in Ids /\ Owner(p) = n
  BY <1>4, <1>5, <1>6 DEF Msgs
<1>8. Inq(p) = inq[n]
  BY <1>7 DEF Inq
<1>9. m.type = "CONNECTED" \/ Known(p)
  BY <1>0, <1>4, <1>5, <1>6, <1>7, FirstKnown
<1>10. IsMain(n, main[n])
  BY <1>0 DEF TypeInv
<1>11. PICK r : r = IF p \in DOMAIN main[n].peer THEN main[n].peer[p] ELSE NewPeer
  OBVIOUS
<1>12. r = Record(p) /\ (Known(p) <=> p \in DOMAIN main[n].peer)
  BY <1>7, <1>11 DEF Record, Known, Peer
<1>13. PICK t : t = DoMessage(main[n], m, m.id)
  OBVIOUS
<1>14. \E r1, w, ts : /\ Effect(n, main[n], DoMessage(main[n], m, m.id), m.id, r1, w, ts)
                      /\ Treated(m.id, m, r, r1, ts) /\ Waits(main[n], w, m, r1)
  BY <1>0, <1>4, <1>5, <1>6, <1>9, <1>10, <1>11, <1>12, MessageEffect
<1>15. PICK r1, w, ts : /\ Effect(n, main[n], t, p, r1, w, ts)
                        /\ Treated(p, m, r, r1, ts) /\ Waits(main[n], w, m, r1)
  BY <1>6, <1>13, <1>14
<1>16. Len(ts) \in Nat
  BY <1>15, TreatedTypes DEF AreTypes
<1>a. Current(n) = m.id
  <2>1. upset' = upset \cup MixedUp(n, m)
    BY <1>2 DEF Poll
  <2>2. Current(n) # m.id => MixedUp(n, m) = {None}
    BY DEF MixedUp
  <2> QED BY <2>1, <2>2
<1>17. main' = [main EXCEPT ![n] = t] /\ UNCHANGED <<cf, link, acc, backlog>> /\ inq' = [inq EXCEPT ![n] = v]
  BY <1>2, <1>3, <1>13, <1>a DEF Poll, Main
<1>18. inq' \in [Nodes -> Seq(Msgs)] /\ inq'[n] = v /\ \A k \in Nodes \ {n} : inq'[k] = inq[k]
  BY <1>1, <1>4, <1>17
<1>19. Took(n, p)
  BY <1>4, <1>6, <1>18 DEF Took
<1>20. ~ Waiting(p) /\ p[2] <= link[p[1]].conn
  <2>1. ~ Unused(p)
    BY <1>4, <1>6, <1>8 DEF Unused
  <2> QED BY <1>7, <2>1, Placed
<1>21. MainMove(n, t, p, r1, w, ts)
  BY <1>7, <1>15, <1>16, <1>17, <1>18, <1>19, <1>20 DEF MainMove
<1>22. /\ m.type \in PeerMsgs /\ m.conn # Peer(p).conn => <<p[1], Peer(p).conn>> \in upset'
       /\ m.type = "CONNECTED" /\ Record(p).state # "CONNECTED" /\ InPending(main[n], p)
             => <<p[1], m.conn>> \in upset'
  <2>1. main[n].peer[p] = Peer(p)
    BY <1>7 DEF Peer
  <2>2. upset' = upset \cup MixedUp(n, m)
    BY <1>2 DEF Poll
  <2>3. ASSUME m.type \in PeerMsgs, m.conn # Peer(p).conn PROVE MixedUp(n, m) = {<<p[1], Peer(p).conn>>}
    <3>1. m.type # "CONNECTED"
      BY <2>3 DEF PeerMsgs
    <3> QED BY <1>6, <1>a, <2>1, <2>3, <3>1 DEF MixedUp
  <2>4. ASSUME m.type = "CONNECTED", Record(p).state # "CONNECTED", InPending(main[n], p)
        PROVE  MixedUp(n, m) = {<<p[1], m.conn>>}
    <3>1. p \in DOMAIN main[n].peer
      BY <1>10, <2>4, MainFacts DEF InPending
    <3>2. Record(p) = main[n].peer[p] /\ m.type \notin PeerMsgs
      BY <1>12, <2>1, <2>4, <3>1 DEF Record, PeerMsgs
    <3> QED BY <1>6, <1>a, <2>4, <3>1, <3>2 DEF MixedUp
  <2> QED BY <2>2, <2>3, <2>4
<1>23. Takes(n, p, r1, w, ts)
  BY <1>4, <1>5, <1>6, <1>9, <1>12, <1>15, <1>19, <1>22 DEF Takes
<1> QED BY <1>21, <1>23 DEF Does

\* A main process finds no message for a peer that it does not know.
LEMMA NoCrash ==
  ASSUME SysInv, PollInv, NEW n \in Nodes
  PROVE  ~ Crash(n)
<1> SUFFICES ASSUME Crash(n) PROVE FALSE
  OBVIOUS
<1>0. TypeInv /\ PipeInv /\ FreshInv
  BY DEF SysInv
<1>1. inq[n] \in Seq(Msgs) /\ inq[n] # << >> /\ Fatal(n)
  BY <1>0 DEF TypeInv, Crash, PollReads
<1>2. PICK m : m = Head(inq[n])
  OBVIOUS
<1>3. m = inq[n][1] /\ m \in Msgs /\ 1 \in 1 .. Len(inq[n])
  BY <1>1, <1>2, TailRest
<1>4. Owner(m.id) = n /\ m.id \in Ids
  BY <1>0, <1>3 DEF PipeInv, Msgs
<1>5. m.type = "CONNECTED" \/ Known(m.id)
  BY <1>0, <1>3, <1>4, FirstKnown
<1>6. Current(n) \notin DOMAIN main[n].peer /\ m.type # "CONNECTED"
  BY <1>1, <1>2 DEF Fatal
<1>7. m.id \in DOMAIN main[n].peer
  BY <1>4, <1>5, <1>6 DEF Known
<1>8. Current(n) = m.id
  BY <1>2, <1>6 DEF PollInv, Current
<1> QED BY <1>6, <1>7, <1>8

LEMMA NextSteps ==
  ASSUME SysInv, PollInv, Next, None \notin upset'
  PROVE  \/ \E n, t, p, r1, w, ts : MainMove(n, t, p, r1, w, ts) /\ Does(n, p, r1, w, ts)
         \/ \E n : ChildGood(n)
<1>1. ASSUME NEW n \in Nodes, MainStep(n)
      PROVE  \E k, t, p, r1, w, ts : MainMove(k, t, p, r1, w, ts) /\ Does(k, p, r1, w, ts)
  <2>1. CASE PollSync(n) \/ PollHeader(n)
    BY <2>1, ResumeDoes DEF PollSync, PollHeader
  <2>2. CASE Poll(n)
    BY <2>2, PollDoes
  <2>3. ASSUME NEW l \in Links, Connect(l)
        PROVE \E k, t, p, r1, w, ts : MainMove(k, t, p, r1, w, ts) /\ Does(k, p, r1, w, ts)
    BY <2>3, ConnectDoes
  <2> QED BY <1>1, <2>1, <2>2, <2>3, NoCrash DEF MainStep
<1>2. ASSUME NEW n \in Nodes, ChildStep(n) PROVE \E k : ChildGood(k)
  BY <1>2, ChildStepGood
<1>3. ASSUME NEW p \in Ids, Disconnect(p)
      PROVE  \E k, t, q, r1, w, ts : MainMove(k, t, q, r1, w, ts) /\ Does(k, q, r1, w, ts)
  BY <1>3, DisconnectDoes
<1>4. ASSUME NEW p \in Ids, Lost(p) PROVE \E k : ChildGood(k)
  BY <1>4, LostGood
<1> QED BY <1>1, <1>2, <1>3, <1>4 DEF Next

-----------------------------------------------------------------------------
(* The record of a peer.                                                   *)

LEMMA AuthWants ==
  ASSUME cf \in Configs, NEW p \in Ids
  PROVE  (Auth(p) => Wants(p)) /\ (AskedAuth(p) => Asked(p))
<1>1. cf.auth \subseteq cf.want
  BY ConstantsAssumption DEF ConfigType
<1> QED BY <1>1 DEF Auth, Wants, AskedAuth, Asked

LEMMA PartFacts ==
  ASSUME cf \in Configs, NEW p \in Ids
  PROVE  /\ "PEER" \notin Ours(p) /\ (Asked(p) => "PEER" \in Full(p)) /\ (~ Asked(p) => Full(p) = Ours(p))
         /\ (Auth(p) /\ AskedAuth(p) => {"AUTH_WE", "AUTH_PEER"} \subseteq Full(p))
BY AuthWants DEF Ours, Theirs, Full, WePart

LEMMA SameSendState ==
  ASSUME NEW p, NEW r, NEW r1, r1.sync_requested = r.sync_requested, r1.runtime = r.runtime,
         r1.our_runtime = r.our_runtime
  PROVE  SendState(r1, p) = SendState(r, p)
BY DEF SendState

\* HandshakeDone.
LEMMA DecidedPeer ==
  ASSUME cf \in Configs, NEW p \in Ids, NEW r \in PeerSet, NEW r1, NEW ts, PeerOK(p, r), r.state = "CONNECTED" => Past(r),
         r.handshake_done = {"WE", "PEER"}, Decided(p, r, r1, ts)
  PROVE  PeerOK(p, r1)
<1> SUFFICES ASSUME r1.state = "CONNECTED" PROVE PeerOK(p, r1)
  BY DEF PeerOK
<1>1. /\ r1.conn = r.conn /\ r1.runtime = r.runtime /\ r1.our_runtime = r.our_runtime
      /\ r1.sync_requested = r.sync_requested /\ r1.handshake_done = r.handshake_done
  BY DEF Decided, Keeps
<1>2. SendState(r1, p) = SendState(r, p)
  BY <1>1, SameSendState
<1>3. CASE r1 = r
  BY <1>3
<1>4. CASE r1.state = r.state /\ r1.phase \in {"RUNNING", "SYNC"}
           /\ (r.sync_requested # {} => /\ ~ ({"AUTH_WE", "AUTH_PEER"} \subseteq r.sync_requested)
                                        /\ r1.send_state = SendState(r, p))
           /\ (r1.phase = "SYNC" => ~ r1.send_state)
  <2>1. /\ r.phase # "UNKNOWN" /\ r.phase # "SETUP" /\ r.conn # 0
        /\ r.runtime = TheirTime(p, r.conn) /\ r.our_runtime = OurTime(p, r.conn)
        /\ r.sync_requested = Full(p)
    BY <1>4 DEF PeerOK, Past
  <2>2. r.sync_requested # {} => ~ (Auth(p) /\ AskedAuth(p))
    BY <1>4, <2>1, PartFacts
  <2> QED BY <1>1, <1>2, <1>4, <2>1, <2>2 DEF PeerOK
<1>5. SendState(r, p) \in BOOLEAN
  BY SendStateBoolean
<1> QED BY <1>3, <1>4, <1>5 DEF Decided

LEMMA ShakenPeer ==
  ASSUME cf \in Configs, NEW p \in Ids, NEW r \in PeerSet, NEW r1, NEW ts, PeerOK(p, r), r.state = "CONNECTED" => Past(r),
         Shaken(p, r, r1, ts)
  PROVE  PeerOK(p, r1)
BY DecidedPeer DEF Shaken

LEMMA OpenedPeer ==
  ASSUME cf \in Configs, NEW p \in Ids, NEW r \in PeerSet, PeerOK(p, r)
  PROVE  PeerOK(p, Opened(p, r.conn, r)) /\ Past(Opened(p, r.conn, r))
<1>1. PICK o : o = Opened(p, r.conn, r)
  OBVIOUS
<1>2. /\ o \in PeerSet /\ o.conn = r.conn /\ o.state = r.state /\ o.phase = "HANDSHAKE"
      /\ o.runtime = TheirTime(p, r.conn) /\ o.our_runtime = r.our_runtime
      /\ o.sync_requested = r.sync_requested \cup Ours(p)
      /\ o.handshake_done = r.handshake_done \cup {"WE"}
  <2>1. r.conn \in 0 .. MaxConns
    BY DEF PeerSet
  <2> QED BY <1>1, <2>1, OpenedType DEF Ours
<1>3. ASSUME r.state = "CONNECTED"
      PROVE  /\ o.sync_requested \in {Ours(p), Full(p)} /\ r.conn # 0 /\ r.our_runtime = OurTime(p, r.conn)
             /\ "PEER" \in o.handshake_done => o.sync_requested = Full(p)
  <2>1. r.sync_requested \in {{}, Ours(p), Full(p)}
    BY <1>3 DEF PeerOK
  <2>2. "PEER" \in o.handshake_done => "PEER" \in r.handshake_done
    BY <1>2
  <2>3. "PEER" \in r.handshake_done => r.sync_requested = Full(p)
    BY <1>3 DEF PeerOK
  <2>4. r.conn # 0 /\ r.our_runtime = OurTime(p, r.conn)
    BY <1>3 DEF PeerOK
  <2> QED BY <1>2, <2>1, <2>2, <2>3, <2>4 DEF Full
<1>4. PeerOK(p, o) /\ Past(o)
  BY <1>2, <1>3 DEF PeerOK, Past
<1> QED BY <1>1, <1>4

\* The end of the handshake: the request of the other side has come, if it has made one.
LEMMA ShookPeer ==
  ASSUME cf \in Configs, NEW p \in Ids, NEW r \in PeerSet, PeerOK(p, r), r.phase = "HANDSHAKE",
         Asked(p) => ~ Lacks(r)
  PROVE  PeerOK(p, Shook(r, "PEER")) /\ Past(Shook(r, "PEER"))
<1>1. PICK o : o = Shook(r, "PEER")
  OBVIOUS
<1>2. /\ o.conn = r.conn /\ o.state = r.state /\ o.phase = "HANDSHAKE" /\ o.runtime = r.runtime
      /\ o.our_runtime = r.our_runtime
      /\ o.sync_requested = r.sync_requested /\ o.handshake_done = r.handshake_done \cup {"PEER"}
  BY <1>1 DEF Shook, PeerSet
<1>3. ASSUME r.state = "CONNECTED" PROVE r.sync_requested = Full(p)
  <2>1. r.sync_requested \in {Ours(p), Full(p)}
    BY <1>3 DEF PeerOK
  <2>2. CASE Asked(p)
    <3>1. "PEER" \in r.sync_requested
      BY <1>3, <2>2 DEF Lacks, Past
    <3> QED BY <2>1, <3>1, PartFacts
  <2>3. CASE ~ Asked(p)
    BY <2>1, <2>3, PartFacts
  <2> QED BY <2>2, <2>3
<1>4. PeerOK(p, o) /\ Past(o)
  <2>1. r.state = "CONNECTED" => /\ r.conn # 0 /\ "WE" \in r.handshake_done /\ r.runtime = TheirTime(p, r.conn)
                              /\ r.our_runtime = OurTime(p, r.conn)
    BY DEF PeerOK
  <2> QED BY <1>2, <1>3, <2>1 DEF PeerOK, Past
<1> QED BY <1>1, <1>4

LEMMA RequestStep ==
  ASSUME cf \in Configs, NEW p \in Ids, NEW r \in PeerSet, PeerOK(p, r), r.phase # "SETUP", Asked(p), NEW r1,
         r1.conn = r.conn, r1.state = r.state, r1.phase = r.phase, r1.runtime = r.runtime,
         r1.our_runtime = r.our_runtime,
         r1.handshake_done = r.handshake_done, r1.send_state = r.send_state,
         r1.sync_requested = r.sync_requested \cup Theirs(p)
  PROVE  PeerOK(p, r1)
<1>1. /\ r1.conn = r.conn /\ r1.state = r.state /\ r1.phase = r.phase /\ r1.runtime = r.runtime
      /\ r1.handshake_done = r.handshake_done /\ r1.send_state = r.send_state /\ r1.our_runtime = r.our_runtime
      /\ r1.sync_requested = r.sync_requested \cup Theirs(p)
  OBVIOUS
<1>2. ASSUME r.state = "CONNECTED"
      PROVE  r1.sync_requested = Full(p) /\ ("PEER" \in r.handshake_done => r1.sync_requested = r.sync_requested)
  <2>1. r.sync_requested \in {Ours(p), Full(p)}
    BY <1>2 DEF PeerOK
  <2>2. "PEER" \in r.handshake_done => r.sync_requested = Full(p)
    BY <1>2 DEF PeerOK
  <2> QED BY <1>1, <2>1, <2>2 DEF Full
<1>3. "PEER" \in r.handshake_done /\ r.state = "CONNECTED" => SendState(r1, p) = SendState(r, p)
  BY <1>1, <1>2, SameSendState
<1> SUFFICES ASSUME r.state = "CONNECTED" PROVE PeerOK(p, r1)
  BY <1>1 DEF PeerOK
<1>4. r.phase \in {"SYNC", "RUNNING"} => r.handshake_done = {"WE", "PEER"}
  BY DEF PeerOK
<1>5. /\ r.phase # "UNKNOWN" /\ r.conn # 0 /\ "WE" \in r.handshake_done /\ r.runtime = TheirTime(p, r.conn)
      /\ r.our_runtime = OurTime(p, r.conn)
  BY DEF PeerOK
<1>6. r.phase \in {"SYNC", "RUNNING"} /\ r.sync_requested # {} =>
        r.send_state = SendState(r, p) /\ ~ (Auth(p) /\ AskedAuth(p))
  BY DEF PeerOK
<1> QED BY <1>1, <1>2, <1>3, <1>4, <1>5, <1>6 DEF PeerOK

LEMMA RequestPeer ==
  ASSUME cf \in Configs, NEW p \in Ids, NEW r \in PeerSet, PeerOK(p, r), r.phase # "SETUP",
         NEW type \in Requests, Asked(p), type = AskedType(p),
         NEW r1, r1 = [r EXCEPT !.sync_requested =
                @ \cup {"PEER"} \cup (IF type = "REQUEST_SYNC_AUTH" THEN {"AUTH_PEER"} ELSE {})]
  PROVE  PeerOK(p, r1)
<1>1. /\ r1.conn = r.conn /\ r1.state = r.state /\ r1.phase = r.phase /\ r1.runtime = r.runtime
      /\ r1.handshake_done = r.handshake_done /\ r1.send_state = r.send_state /\ r1.our_runtime = r.our_runtime
      /\ r1.sync_requested = r.sync_requested \cup Theirs(p)
  BY DEF PeerSet, Theirs, AskedType, Requests
<1>2. PeerOK(p, r) /\ r.phase # "SETUP" /\ Asked(p)
  OBVIOUS
<1>3. PICK q : q = r1
  OBVIOUS
<1>4. /\ q.conn = r.conn /\ q.state = r.state /\ q.phase = r.phase /\ q.runtime = r.runtime
      /\ q.handshake_done = r.handshake_done /\ q.send_state = r.send_state /\ q.our_runtime = r.our_runtime
      /\ q.sync_requested = r.sync_requested \cup Theirs(p)
  BY <1>1, <1>3
<1>5. PeerOK(p, q)
  BY <1>2, <1>4, RequestStep
<1> QED BY <1>3, <1>5

LEMMA TreatedPeer ==
  ASSUME cf \in Configs, NEW p \in Ids, NEW m \in Msgs, m.id = p, NEW r \in PeerSet, NEW r1 \in PeerSet, NEW ts,
         Treated(p, m, r, r1, ts), PeerOK(p, r), InGood(m), m.type = "CONNECTED" => m.conn # 0,
         m.type \in PeerMsgs => m.conn = r.conn,
         m.type = "PHASE_DONE" /\ Asked(p) => ~ Lacks(r)
  PROVE  PeerOK(p, r1)
<1>1. CASE r1 = r
  BY <1>1
<1>2. CASE r1 = Refused(r)
  <2>1. r1.state = "CLOSING"
    BY <1>2 DEF Refused, Closed, PeerSet
  <2> QED BY <2>1 DEF PeerOK
<1>3. CASE Gone(r, r1)
  BY <1>3 DEF Gone, PeerOK
<1>4. CASE m.type = "CONNECTED" /\ r1 = Fresh(p, r, m.conn)
  <2>1. m.conn \in 0 .. MaxConns
    BY DEF Msgs
  <2>2. /\ r1.phase = "SETUP" /\ r1.sync_requested = {} /\ r1.handshake_done = {} /\ r1.conn = m.conn
        /\ r1.our_runtime = OurTime(p, m.conn)
    BY <1>4, <2>1, FreshFacts
  <2> QED BY <1>4, <2>2 DEF PeerOK
<1>5. CASE m.type = "VERSION" /\ \E us : Shaken(p, Opened(p, m.conn, r), r1, us)
  <2>1. m.conn = r.conn /\ r.conn \in 0 .. MaxConns
    BY <1>5 DEF PeerMsgs, PeerSet
  <2>2. PeerOK(p, Opened(p, r.conn, r)) /\ Past(Opened(p, r.conn, r)) /\ Opened(p, r.conn, r) \in PeerSet
    BY <2>1, OpenedPeer, OpenedType
  <2> QED BY <1>5, <2>1, <2>2, ShakenPeer
<1>6. CASE m.type \in Requests /\ r.phase # "SETUP"
           /\ r1 = [r EXCEPT !.sync_requested =
                  @ \cup {"PEER"} \cup (IF m.type = "REQUEST_SYNC_AUTH" THEN {"AUTH_PEER"} ELSE {})]
  <2>1. Asked(p) /\ m.type = AskedType(p)
    BY <1>6 DEF InGood
  <2>2. PICK type : type = m.type
    OBVIOUS
  <2>3. r1 = [r EXCEPT !.sync_requested =
                @ \cup {"PEER"} \cup (IF type = "REQUEST_SYNC_AUTH" THEN {"AUTH_PEER"} ELSE {})]
    BY <1>6, <2>2
  <2>4. type \in Requests /\ Asked(p) /\ type = AskedType(p) /\ r.phase # "SETUP"
    BY <1>6, <2>1, <2>2
  <2> QED BY <2>3, <2>4, RequestPeer
<1>7. CASE r1 = [r EXCEPT !.got = @ \/ "WE" \in r.sync_requested]
  <2>1. /\ r1.conn = r.conn /\ r1.state = r.state /\ r1.phase = r.phase /\ r1.runtime = r.runtime
        /\ r1.handshake_done = r.handshake_done /\ r1.send_state = r.send_state /\ r1.our_runtime = r.our_runtime
        /\ r1.sync_requested = r.sync_requested
    BY <1>7 DEF PeerSet
  <2>2. SendState(r1, p) = SendState(r, p)
    BY <2>1, SameSendState
  <2> HIDE <1>7
  <2> QED BY <2>1, <2>2 DEF PeerOK
<1>8. CASE m.type = "PHASE_DONE" /\ PhaseEnds(p, r, r1, ts)
  <2>1. CASE r.phase = "HANDSHAKE" /\ Shaken(p, Shook(r, "PEER"), r1, ts)
    <3>1. PeerOK(p, Shook(r, "PEER")) /\ Past(Shook(r, "PEER")) /\ Shook(r, "PEER") \in PeerSet
      <4>1. m.conn \in 0 .. MaxConns
        BY DEF Msgs
      <4> QED BY <1>8, <2>1, <4>1, ShookPeer, OpenedType
    <3> QED BY <2>1, <3>1, ShakenPeer
  <2>2. CASE r.phase = "SYNC" /\ r1 = [r EXCEPT !.phase = "RUNNING", !.suspended = FALSE]
    <3>1. /\ r1.conn = r.conn /\ r1.state = r.state /\ r1.phase = "RUNNING" /\ r1.runtime = r.runtime
          /\ r1.handshake_done = r.handshake_done /\ r1.send_state = r.send_state /\ r1.our_runtime = r.our_runtime
          /\ r1.sync_requested = r.sync_requested
      BY <2>2 DEF PeerSet
    <3>2. SendState(r1, p) = SendState(r, p)
      BY <3>1, SameSendState
    <3>3. r.phase = "SYNC"
      BY <2>2
    <3> HIDE <2>2
    <3> QED BY <3>1, <3>2, <3>3 DEF PeerOK
  <2> QED BY <1>2, <1>8, <2>1, <2>2 DEF PhaseEnds
<1> QED BY <1>1, <1>2, <1>3, <1>4, <1>5, <1>6, <1>7, <1>8 DEF Treated

\* Whether the receiver lacks the request.
LEMMA ShakenLacks ==
  ASSUME NEW p, NEW r \in PeerSet, NEW r1, NEW ts, Shaken(p, r, r1, ts), Past(r), Lacks(r1)
  PROVE  Lacks(r)
<1>1. r1.sync_requested = r.sync_requested
  BY ShakenKeeps DEF Keeps
<1>2. r1.state = r.state
  BY DEF Shaken, Decided, Lacks
<1> QED BY <1>1, <1>2 DEF Lacks

LEMMA TreatedLacks ==
  ASSUME cf \in Configs, NEW p \in Ids, NEW m \in Msgs, NEW r \in PeerSet, NEW r1 \in PeerSet, NEW ts,
         Treated(p, m, r, r1, ts), Lacks(r1)
  PROVE  (Lacks(r) \/ m.type = "VERSION") /\ m.type \notin Requests
<1>0. r1.state = "CONNECTED" /\ r1.phase # "SETUP" /\ "PEER" \notin r1.sync_requested
  BY DEF Lacks, Past
<1>1. CASE m.type \in PeerMsgs /\ Deaf(r) /\ r1 = r
  BY <1>0, <1>1 DEF Deaf
<1>2. CASE r1 = Refused(r)
  <2>1. r1.state = "CLOSING"
    BY <1>2 DEF Refused, Closed, PeerSet
  <2> QED BY <1>0, <2>1
<1>3. CASE Gone(r, r1)
  BY <1>0, <1>3 DEF Gone
<1>4. CASE m.type = "CONNECTED" /\ r1 = r
  BY <1>4 DEF Requests
<1>5. CASE m.type = "CONNECTED" /\ r1 = Fresh(p, r, m.conn)
  <2>1. r1.phase = "SETUP"
    BY <1>5 DEF Fresh, PeerSet
  <2> QED BY <1>0, <2>1
<1>6. CASE m.type = "VERSION"
  BY <1>6 DEF Requests
<1>7. CASE r1 = [r EXCEPT !.sync_requested =
                  @ \cup {"PEER"} \cup (IF m.type = "REQUEST_SYNC_AUTH" THEN {"AUTH_PEER"} ELSE {})]
  <2>1. "PEER" \in r1.sync_requested
    BY <1>7 DEF PeerSet
  <2> QED BY <1>0, <2>1
<1>8. CASE m.type = "SERIAL" /\ r1 = [r EXCEPT !.got = @ \/ "WE" \in r.sync_requested]
  <2>1. r1.state = r.state /\ r1.phase = r.phase /\ r1.sync_requested = r.sync_requested
    BY <1>8 DEF PeerSet
  <2> QED BY <1>8, <2>1 DEF Lacks, Past, Requests
<1>9. CASE m.type = "PHASE_DONE" /\ PhaseEnds(p, r, r1, ts)
  <2>1. CASE r.phase = "HANDSHAKE" /\ Shaken(p, Shook(r, "PEER"), r1, ts)
    <3>1. PICK o : o = Shook(r, "PEER")
      OBVIOUS
    <3>2. o \in PeerSet /\ o.phase = r.phase /\ o.state = r.state /\ o.sync_requested = r.sync_requested
      BY <3>1, OpenedType DEF Shook, PeerSet
    <3>3. Past(o)
      BY <2>1, <3>2 DEF Past
    <3>4. Lacks(o)
      BY <2>1, <3>1, <3>2, <3>3, ShakenLacks
    <3> QED BY <1>9, <3>2, <3>4 DEF Lacks, Past, Requests
  <2>2. CASE r.phase = "SYNC" /\ r1 = [r EXCEPT !.phase = "RUNNING", !.suspended = FALSE]
    <3>1. r1.state = r.state /\ r1.sync_requested = r.sync_requested
      BY <2>2 DEF PeerSet
    <3> QED BY <1>9, <2>2, <3>1 DEF Lacks, Past, Requests
  <2> QED BY <1>2, <1>9, <2>1, <2>2 DEF PhaseEnds
<1> QED BY <1>1, <1>2, <1>3, <1>4, <1>5, <1>6, <1>7, <1>8, <1>9 DEF Treated

\* Who is through with the handshake stays so while it is connected.
LEMMA TreatedDone ==
  ASSUME cf \in Configs, NEW p \in Ids, NEW m \in Msgs, NEW r \in PeerSet, NEW r1 \in PeerSet, NEW ts,
         Treated(p, m, r, r1, ts), r.state = "CONNECTED", r.handshake_done = {"WE", "PEER"}
  PROVE  r1.handshake_done = {"WE", "PEER"}
<1>1. CASE r1 = r
  BY <1>1
<1>2. CASE r1 = Refused(r)
  BY <1>2 DEF Refused, Closed, PeerSet
<1>3. CASE Gone(r, r1)
  BY <1>3 DEF Gone
<1>5. CASE \E us : Shaken(p, Opened(p, m.conn, r), r1, us)
  <2>1. PICK us : Shaken(p, Opened(p, m.conn, r), r1, us)
    BY <1>5
  <2>2. Opened(p, m.conn, r) \in PeerSet /\ Opened(p, m.conn, r).handshake_done = r.handshake_done \cup {"WE"}
    <3>1. m.conn \in 0 .. MaxConns
      BY DEF Msgs
    <3> QED BY <3>1, OpenedType
  <2>3. Keeps(Opened(p, m.conn, r), r1)
    BY <2>1, <2>2, ShakenKeeps
  <2> QED BY <2>2, <2>3 DEF Keeps
<1>6. CASE r1 = [r EXCEPT !.sync_requested =
                  @ \cup {"PEER"} \cup (IF m.type = "REQUEST_SYNC_AUTH" THEN {"AUTH_PEER"} ELSE {})]
  BY <1>6 DEF PeerSet
<1>7. CASE r1 = [r EXCEPT !.got = @ \/ "WE" \in r.sync_requested]
  BY <1>7 DEF PeerSet
<1>8. CASE PhaseEnds(p, r, r1, ts)
  <2>1. CASE Shaken(p, Shook(r, "PEER"), r1, ts)
    <3>1. Shook(r, "PEER") \in PeerSet /\ Shook(r, "PEER").handshake_done = r.handshake_done \cup {"PEER"}
      BY OpenedType DEF Shook, PeerSet
    <3>2. Keeps(Shook(r, "PEER"), r1)
      BY <2>1, <3>1, ShakenKeeps
    <3> QED BY <3>1, <3>2 DEF Keeps
  <2>2. CASE r1 = [r EXCEPT !.phase = "RUNNING", !.suspended = FALSE]
    BY <2>2 DEF PeerSet
  <2> QED BY <1>2, <1>8, <2>1, <2>2 DEF PhaseEnds
<1> QED BY <1>1, <1>2, <1>3, <1>5, <1>6, <1>7, <1>8 DEF Treated

-----------------------------------------------------------------------------
(* The invariant.                                                          *)

LEMMA RecordFacts ==
  ASSUME TypeInv, NEW p \in Ids
  PROVE  /\ Record(p) \in PeerSet
         /\ Known(p) => Record(p) = Peer(p)
         /\ ~ Known(p) => Record(p) = NewPeer
<1>1. Owner(p) \in Nodes
  BY IdFacts
<1>2. IsMain(Owner(p), main[Owner(p)])
  BY <1>1 DEF TypeInv
<1>3. Known(p) => Peer(p) \in PeerSet
  BY <1>2, MainFacts DEF Known, Peer
<1> QED BY <1>3, NewPeerType DEF Record

LEMMA MoveRecord ==
  ASSUME NEW n, NEW t, NEW p, NEW r1, NEW w, NEW ts, MainMove(n, t, p, r1, w, ts)
  PROVE  r1 \in PeerSet /\ r1.conn \in 0 .. MaxConns /\ p \in Ids /\ Owner(p) = n /\ n \in Nodes
<1>1. Effect(n, main[n], t, p, r1, w, ts) /\ p \in Ids /\ Owner(p) = n /\ n \in Nodes
  BY DEF MainMove
<1>2. r1 \in PeerSet
  BY <1>1, MainFacts DEF Effect
<1>3. r1.conn \in 0 .. MaxConns
  BY <1>2 DEF PeerSet
<1> QED BY <1>1, <1>2, <1>3

LEMMA NotTaken ==
  ASSUME SysInv, NEW n \in Nodes, NEW p, inq' = inq
  PROVE  ~ Took(n, p)
<1>1. inq[n] \in Seq(Msgs)
  BY DEF SysInv, TypeInv
<1>2. Len(inq[n]) \in Nat
  BY <1>1
<1> QED BY <1>2 DEF Took, Rest

\* Whether a record that has not been given a message is past VERSION or lacks a request.
LEMMA ClosedFacts ==
  ASSUME NEW r \in PeerSet
  PROVE  /\ Closed(r).state = "CLOSING" /\ Closed(r).phase = r.phase
         /\ Closed(r).handshake_done = r.handshake_done
BY DEF Closed, PeerSet

LEMMA DecidedFacts ==
  ASSUME NEW p, NEW r \in PeerSet, NEW r1, NEW ts, Decided(p, r, r1, ts), r.state = "CONNECTED" => Past(r)
  PROVE  Lacks(r1) => Lacks(r)
<1>1. r1.sync_requested = r.sync_requested /\ (r1.state = r.state \/ r1.state = "CLOSING")
  BY DEF Decided, Keeps
<1> QED BY <1>1 DEF Lacks

LEMMA DoesTypes ==
  ASSUME NEW n, NEW p, NEW r1, NEW w, NEW ts, Does(n, p, r1, w, ts)
  PROVE  AreTypes(ts) /\ GoodTypes(p, ts)
<1>1. CASE Connects(n, p, r1, w, ts) \/ Disconnects(n, p, r1, w, ts) \/ Resumes(n, p, r1, w, ts)
  <2>1. ts \in ShortTypes
    BY <1>1, CloseShort, DecidedShort DEF Connects, Disconnects, Resumes, ShortTypes
  <2> QED BY <2>1, ShortGood
<1>2. CASE Takes(n, p, r1, w, ts)
  BY <1>2, TreatedTypes DEF Takes
<1> QED BY <1>1, <1>2 DEF Does

\* The first of those who wait is connected and through with the handshake, unless its
\* connection is mixed up.
LEMMA Turn ==
  ASSUME SysInv, CleanInv, upset \subseteq upset', NEW n, NEW t, NEW p, NEW r1, NEW w, NEW ts,
         MainMove(n, t, p, r1, w, ts), Resumes(n, p, r1, w, ts), <<p[1], r1.conn>> \notin upset'
  PROVE  /\ Known(p) /\ Peer(p) \in PeerSet /\ Peer(p).state = "CONNECTED" /\ Clean(p) /\ Record(p) = Peer(p)
         /\ Peer(p).handshake_done = {"WE", "PEER"} /\ PeerOK(p, Peer(p)) /\ Past(Peer(p))
<1>0. TypeInv
  BY DEF SysInv
<1>1. p \in Ids /\ Owner(p) = n /\ n \in Nodes
  BY MoveRecord
<1>2. /\ Known(p) /\ main[n].sync_pending # << >> /\ p = main[n].sync_pending[1]
      /\ Rest(w, main[n].sync_pending) /\ Decided(p, Peer(p), r1, ts)
      /\ Peer(p).state # "CONNECTED" => <<p[1], Peer(p).conn>> \in upset'
  BY DEF Resumes
<1>3. 1 \in 1 .. Len(main[n].sync_pending)
  BY <1>2 DEF Rest
<1>4. Record(p) = Peer(p) /\ Peer(p) \in PeerSet
  BY <1>0, <1>1, <1>2, RecordFacts
<1>5. r1.conn = Peer(p).conn
  BY <1>2 DEF Decided, Keeps
<1>6. Clean(p) /\ Peer(p).state = "CONNECTED"
  BY <1>2, <1>4, <1>5 DEF Clean
<1>7. PeerOK(p, Peer(p)) /\ Through(p, Peer(p), main[n].sync_pending)
  BY <1>1, <1>4, <1>6 DEF CleanInv, Queue
<1>8. Peer(p).handshake_done = {"WE", "PEER"}
  BY <1>2, <1>3, <1>6, <1>7 DEF Through, IsUp
<1>9. Past(Peer(p))
  BY <1>6, <1>7, <1>8 DEF PeerOK, Past
<1> QED BY <1>2, <1>4, <1>6, <1>7, <1>8, <1>9

\* A receiver that lacks something does not find first what is to come after it.
LEMMA NotFirst ==
  ASSUME NEW Q, NEW R, NEW hot, InOK(Q, R, hot), HotAt(Q, R, hot, 0), Len(Q) \in Nat, 1 \in 1 .. Len(Q), Q[1] \in R[3]
  PROVE  FALSE
<1>1. \A i \in 0 .. Len(Q), j \in 1 .. Len(Q) :
        HotAt(Q, R, hot, i) /\ Q[j] \in R[3] /\ i < j
            => \E m \in 1 .. Len(Q) : i < m /\ m < j /\ Q[m] \in R[2]
  BY DEF InOK
<1>2. 0 \in 0 .. Len(Q)
  OBVIOUS
<1>3. \E m \in 1 .. Len(Q) : 0 < m /\ m < 1 /\ Q[m] \in R[2]
  BY <1>1, <1>2
<1> QED BY <1>3

LEMMA DoneStays ==
  ASSUME SysInv, NEW n, NEW t, NEW p, NEW r1, NEW w, NEW ts, MainMove(n, t, p, r1, w, ts),
         Does(n, p, r1, w, ts), Known(p), Peer(p).state = "CONNECTED", Peer(p).handshake_done = {"WE", "PEER"}
  PROVE  r1.handshake_done = {"WE", "PEER"}
<1>0. TypeInv /\ cf \in Configs
  BY DEF SysInv, TypeInv
<1>1. p \in Ids /\ r1 \in PeerSet
  BY MoveRecord
<1>2. Record(p) = Peer(p) /\ Peer(p) \in PeerSet
  BY <1>0, <1>1, RecordFacts
<1>3. CASE Connects(n, p, r1, w, ts)
  BY <1>3 DEF Connects
<1>4. CASE Disconnects(n, p, r1, w, ts)
  BY <1>2, <1>4, ClosedFacts DEF Disconnects
<1>5. CASE Resumes(n, p, r1, w, ts)
  BY <1>5 DEF Resumes, Decided, Keeps
<1>6. CASE Takes(n, p, r1, w, ts)
  <2>1. PICK m : m = inq[n][1]
    OBVIOUS
  <2>2. Treated(p, m, Record(p), r1, ts) /\ m \in Msgs
    BY <1>6, <2>1 DEF Takes
  <2> QED BY <1>0, <1>1, <1>2, <2>2, TreatedDone
<1> QED BY <1>3, <1>4, <1>5, <1>6 DEF Does

\* Who waits after the step has waited before, or is p.
LEMMA WhoWaits ==
  ASSUME SysInv, NEW n, NEW t, NEW p, NEW r1, NEW w, NEW ts, MainMove(n, t, p, r1, w, ts),
         Does(n, p, r1, w, ts), NEW i \in 1 .. Len(w)
  PROVE  \/ \E j \in 1 .. Len(main[n].sync_pending) : w[i] = main[n].sync_pending[j]
         \/ w[i] = p /\ r1.handshake_done = {"WE", "PEER"}
<1>0. TypeInv /\ n \in Nodes
  BY MoveRecord DEF SysInv
<1>1. CASE w = main[n].sync_pending
  BY <1>1
<1>2. CASE Resumes(n, p, r1, w, ts)
  <2>1. Rest(w, main[n].sync_pending)
    BY <1>2 DEF Resumes
  <2> QED BY <2>1, RestElement
<1>3. CASE Takes(n, p, r1, w, ts)
  <2>1. Waits(main[n], w, inq[n][1], r1) /\ inq[n][1].id = p
    BY <1>3 DEF Takes
  <2>2. CASE More(w, main[n].sync_pending, p) /\ r1.handshake_done = {"WE", "PEER"}
    BY <2>2, MoreElement
  <2> QED BY <1>1, <2>1, <2>2 DEF Waits
<1> QED BY <1>1, <1>2, <1>3 DEF Does, Connects, Disconnects

\* The configuration stays, and with it what a record has to be.
LEMMA KeepOK ==
  ASSUME cf' = cf, NEW q, NEW r, r = Record(q)', PeerOK(q, r)
  PROVE  PeerOK(q, Record(q))'
<1>1. /\ Wants(q)' = Wants(q) /\ Auth(q)' = Auth(q) /\ Asked(q)' = Asked(q) /\ AskedAuth(q)' = AskedAuth(q)
  BY DEF Wants, Auth, Asked, AskedAuth
<1>2. Ours(q)' = Ours(q) /\ Theirs(q)' = Theirs(q)
  BY <1>1 DEF Ours, Theirs, WePart
<1>3. Full(q)' = Full(q)
  BY <1>2 DEF Full
<1>4. SendState(Record(q), q)' = SendState(r, q)
  BY DEF SendState
<1>5. OurTime(q, Record(q).conn)' = OurTime(q, r.conn) /\ TheirTime(q, Record(q).conn)' = TheirTime(q, r.conn)
  BY DEF OurTime, TheirTime, RunTime
<1> QED BY <1>1, <1>2, <1>3, <1>4, <1>5 DEF PeerOK

\* A step that changes nothing is one of a child that does nothing.
LEMMA StutterGood ==
  ASSUME SysInv, UNCHANGED vars, NEW n \in Nodes
  PROVE  ChildGood(n)
<1>1. /\ cf' = cf /\ main' = main /\ UNCHANGED <<inq, link, acc, backlog>>
  BY DEF vars
<1>2. ChildMain(n)
  BY <1>1 DEF ChildMain
<1>3. \A q \in Ids : QuietOut(q)
  BY <1>1 DEF QuietOut, Out
<1> QED BY <1>1, <1>2, <1>3, SameGood

LEMMA StutterSys ==
  ASSUME SysInv, UNCHANGED vars
  PROVE  SysInv'
<1>1. /\ cf' = cf /\ main' = main /\ inq' = inq /\ link' = link /\ acc' = acc /\ backlog' = backlog
  BY DEF vars
<1>2. CASE Nodes # {}
  BY <1>2, StutterGood DEF ChildGood
<1>3. CASE Nodes = {}
  <2>1. Ids = {}
    BY <1>3, IdFacts
  <2>2. TypeInv /\ PipeInv /\ FreshInv
    BY DEF SysInv
  <2>3. TypeInv'
    BY <1>1, <2>2 DEF TypeInv
  <2>4. DOMAIN backlog = {} /\ acc = {}
    BY <2>1, <2>2 DEF TypeInv
  <2>5. PipeInv'
    BY <1>1, <1>3, <2>4 DEF PipeInv
  <2>6. Links = {}
    BY <1>3, ConstantsAssumption DEF Links, ConfigType
  <2>7. FreshInv'
    BY <1>1, <2>1, <2>4, <2>6 DEF FreshInv
  <2> QED BY <2>3, <2>5, <2>7 DEF SysInv
<1> QED BY <1>2, <1>3

-----------------------------------------------------------------------------
(* How it starts, and who is to send.                                      *)

LEMMA InitMain ==
  ASSUME Init, NEW n \in Nodes
  PROVE  /\ IsMain(n, main[n]) /\ DOMAIN main[n].peer = {}
         /\ main[n].out = << >> /\ main[n].sync_pending = << >>
<1>1. PICK s : s = main[n]
  OBVIOUS
<1>2. s = [peer |-> [p \in {} |-> NewPeer], in_sync |-> None, sync_pending |-> << >>, out |-> << >>]
  BY <1>1 DEF Init
<1>3. s.peer = [p \in {} |-> NewPeer] /\ s.sync_pending = << >> /\ s.out = << >>
  BY <1>2
<1>4. DOMAIN s.peer = {} /\ s.peer = [p \in DOMAIN s.peer |-> s.peer[p]]
  BY <1>3
<1>5. Len(<< >>) = 0 /\ << >> \in Seq(Ids) /\ << >> \in Seq(Msgs)
  OBVIOUS
<1>6. s = [peer |-> s.peer, in_sync |-> s.in_sync, sync_pending |-> s.sync_pending, out |-> s.out]
  BY <1>2
<1>7. IsMain(n, s)
  BY <1>3, <1>4, <1>5, <1>6 DEF IsMain
<1> QED BY <1>1, <1>3, <1>4, <1>7

LEMMA InitSys ==
  ASSUME Init
  PROVE  SysInv
<1>1. \A n \in Nodes : /\ IsMain(n, main[n]) /\ DOMAIN main[n].peer = {}
                       /\ main[n].out = << >> /\ main[n].sync_pending = << >>
  BY InitMain
<1>2. /\ cf \in Configs /\ inq = [n \in Nodes |-> << >>] /\ acc = {} /\ DOMAIN backlog = {}
      /\ backlog = [p \in DOMAIN backlog |-> backlog[p]]
      /\ link = [l \in Links |-> [entry |-> "none", conn |-> 0]]
  BY DEF Init
<1>3. Len(<< >>) = 0 /\ << >> \in Seq(Msgs) /\ MaxConns \in Nat
  BY ConstantsAssumption
<1>4. main = [n \in Nodes |-> main[n]]
  BY DEF Init
<1>5. inq \in [Nodes -> Seq(Msgs)]
  BY <1>2, <1>3
<1>6. link \in [Links -> [entry : {"none", "wait", "up"}, conn : 0 .. MaxConns]]
  BY <1>2, <1>3
<1>7. TypeInv
  BY <1>1, <1>2, <1>4, <1>5, <1>6 DEF TypeInv
<1>8. PipeInv
  BY <1>1, <1>2, <1>3 DEF PipeInv
<1>9. \A p \in Ids : /\ Owner(p) \in Nodes /\ ~ Known(p) /\ Len(Inq(p)) = 0 /\ ~ Waiting(p)
                     /\ Len(In(p)) = 0 /\ Len(Out(p)) = 0
  BY <1>1, <1>2, <1>3, IdFacts DEF Known, Inq, Waiting, In, Out
<1>10. FreshInv
  <2>1. \A l \in Links : link[l].entry = "none" /\ link[l].conn = 0
    BY <1>2
  <2>2. \A p \in Ids : Unused(p) /\ ~ Waiting(p)
    BY <1>2, <1>9 DEF Unused
  <2>3. \A p \in Ids : InOK(Inq(p), Intro(p), ~ Known(p))
    BY <1>9 DEF InOK
  <2> QED BY <1>2, <2>1, <2>2, <2>3 DEF FreshInv
<1> QED BY <1>7, <1>8, <1>10 DEF SysInv

\* Who sends, when both sides' requests are known.
LEMMA SendValue ==
  ASSUME cf \in Configs, NEW p \in Ids, NEW r, NEW k, r.sync_requested = Full(p),
         r.our_runtime = OurTime(p, k), r.runtime = TheirTime(p, k)
  PROVE  SendState(r, p) =
             IF ~ (Wants(p) /\ Asked(p)) THEN Asked(p)
             ELSE IF Auth(p) THEN TRUE
             ELSE IF AskedAuth(p) THEN FALSE
             ELSE IF OurTime(p, k) = TheirTime(p, k) THEN p[2] = 0
             ELSE OurTime(p, k) > TheirTime(p, k)
<1>1. (Auth(p) => Wants(p)) /\ (AskedAuth(p) => Asked(p))
  BY AuthWants
<1>2. /\ "WE" \in Full(p) <=> Wants(p)
      /\ "PEER" \in Full(p) <=> Asked(p)
      /\ "AUTH_WE" \in Full(p) <=> Auth(p)
      /\ "AUTH_PEER" \in Full(p) <=> AskedAuth(p)
  BY <1>1 DEF Full, Ours, Theirs, WePart
<1>3. {"WE", "PEER"} \subseteq Full(p) <=> Wants(p) /\ Asked(p)
  BY <1>2
<1>4. CASE ~ (Wants(p) /\ Asked(p))
  <2>1. SendState(r, p) = ("PEER" \in Full(p))
    BY <1>3, <1>4 DEF SendState
  <2>2. ("PEER" \in Full(p)) = Asked(p)
    BY <1>2 DEF Asked
  <2> QED BY <1>4, <2>1, <2>2
<1>5. CASE Wants(p) /\ Asked(p) /\ (Auth(p) \/ AskedAuth(p))
  BY <1>2, <1>3, <1>5 DEF SendState
<1>6. CASE Wants(p) /\ Asked(p) /\ ~ Auth(p) /\ ~ AskedAuth(p)
  BY <1>2, <1>3, <1>6 DEF SendState
<1> QED BY <1>4, <1>5, <1>6

LEMMA FullEmpty ==
  ASSUME cf \in Configs, NEW p \in Ids
  PROVE  Full(p) = {} <=> ~ Wants(p) /\ ~ Asked(p)
BY AuthWants DEF Full, Ours, Theirs, WePart

LEMMA PeerKnown ==
  ASSUME TypeInv, NEW p \in Peers
  PROVE  p \in Ids /\ Known(p)
<1>1. PICK n \in Nodes : p \in DOMAIN main[n].peer
  BY DEF Peers
<1>2. p \in Ids /\ Owner(p) = n
  BY <1>1, MainFacts DEF TypeInv
<1> QED BY <1>1, <1>2 DEF Known

-----------------------------------------------------------------------------
(* The numbers of the connections.                                         *)

LEMMA WithinRest ==
  ASSUME NEW V, NEW Q, NEW S, Rest(V, Q), Within(Q, S)
  PROVE  Within(V, S)
BY RestElement DEF Within

LEMMA WithinJoined ==
  ASSUME NEW V, NEW Q, NEW x, NEW S, Joined(V, Q, x), Within(Q, S), Within(x, S)
  PROVE  Within(V, S)
<1>1. ASSUME NEW i \in 1 .. Len(V) PROVE V[i] \in S
  <2>1. \/ i \in 1 .. Len(Q) /\ V[i] = Q[i]
        \/ \E j \in 1 .. Len(x) : i = Len(Q) + j /\ V[i] = x[j]
    BY <1>1, JoinedElement
  <2> QED BY <2>1 DEF Within
<1> QED BY <1>1 DEF Within

LEMMA WithinMono ==
  ASSUME NEW Q, NEW S, NEW T, Within(Q, S), S \subseteq T
  PROVE  Within(Q, T)
BY DEF Within

LEMMA LabelTypes ==
  ASSUME NEW r, NEW k
  PROVE  Reached(r, k) \in BOOLEAN /\ Behind(r, k) \in BOOLEAN /\ IsUp(r) \in BOOLEAN
BY DEF Reached, Behind, IsUp

LEMMA LabelRules ==
  ASSUME NEW q
  PROVE  /\ \A k : /\ OwnRule(Rising(q, k), q) /\ OwnRule(Announced(q, k), q)
                   /\ Rising(q, k)[1] = {m \in ConnOf(q) : m.conn >= k}
                   /\ Rising(q, k)[2] = {}
                   /\ Rising(q, k)[3] = {m \in ConnOf(q) : m.conn <= k}
                   /\ Announced(q, k)[1] = {}
                   /\ Announced(q, k)[2] = {m \in ConnOf(q) : m.conn = k}
                   /\ Announced(q, k)[3] = {m \in DataOf(q) : m.conn = k}
         /\ OwnRule(Turns(q), q)
         /\ Turns(q)[1] = ConnOf(q) /\ Turns(q)[2] = CloseOf(q) /\ Turns(q)[3] = ConnOf(q)
BY DEF OwnRule, Rising, Announced, Turns, ConnOf, CloseOf, DataOf

\* The queue gets a message: for those it is to come after, something has come in between.
LEMMA AppendIn ==
  ASSUME NEW V, NEW Q, NEW e, More(V, Q, e), NEW R, NEW hot \in BOOLEAN, InOK(Q, R, hot),
         e \in R[3] => Settled(Q, R, hot)
  PROVE  InOK(V, R, hot)
<1>1. /\ Len(Q) \in Nat /\ Len(V) = Len(Q) + 1
      /\ \A i \in 1 .. Len(Q) : V[i] = Q[i]
      /\ V[Len(Q) + 1] = e
  BY DEF More
<1> SUFFICES ASSUME NEW i \in 0 .. Len(V), NEW j \in 1 .. Len(V),
                    HotAt(V, R, hot, i), V[j] \in R[3], i < j
             PROVE  \E m \in 1 .. Len(V) : i < m /\ m < j /\ V[m] \in R[2]
  BY DEF InOK
<1>2. i \in 0 .. Len(Q) /\ HotAt(Q, R, hot, i)
  BY <1>1 DEF HotAt
<1>3. CASE j \in 1 .. Len(Q)
  <2>1. PICK m \in 1 .. Len(Q) : i < m /\ m < j /\ Q[m] \in R[2]
    BY <1>1, <1>2, <1>3 DEF InOK
  <2> QED BY <1>1, <2>1
<1>4. CASE j = Len(Q) + 1
  <2>1. Settled(Q, R, hot)
    BY <1>1, <1>4
  <2>2. PICK m \in 1 .. Len(Q) : i < m /\ Q[m] \in R[2]
    <3>1. Len(<< >>) = 0 /\ 1 \in 1 .. Len(<< >>) + 1
      OBVIOUS
    <3>2. DueAt(<< >>, R, TRUE, 1)
      BY <3>1 DEF DueAt
    <3>3. ~ \E m \in 1 .. Len(<< >>) : m < 1 /\ << >>[m] \in R[2]
      OBVIOUS
    <3> QED BY <1>2, <2>1, <3>1, <3>2, <3>3 DEF Settled, CrossOK
  <2> QED BY <1>1, <1>4, <2>2
<1> QED BY <1>1, <1>3, <1>4

\* It is settled when there is one to come in between at the end.
LEMMA SettledElement ==
  ASSUME NEW Q, NEW R, NEW hot,
         \A i \in 0 .. Len(Q) : HotAt(Q, R, hot, i) => \E m \in 1 .. Len(Q) : i < m /\ Q[m] \in R[2]
  PROVE  Settled(Q, R, hot)
BY DEF Settled, CrossOK

LEMMA SettledAt ==
  ASSUME NEW Q, NEW R, NEW hot, Settled(Q, R, hot), NEW i \in 0 .. Len(Q), HotAt(Q, R, hot, i)
  PROVE  \E m \in 1 .. Len(Q) : i < m /\ Q[m] \in R[2]
<1>1. Len(<< >>) = 0 /\ 1 \in 1 .. Len(<< >>) + 1
  OBVIOUS
<1>2. DueAt(<< >>, R, TRUE, 1)
  BY <1>1 DEF DueAt
<1>3. ~ \E m \in 1 .. Len(<< >>) : m < 1 /\ << >>[m] \in R[2]
  OBVIOUS
<1> QED BY <1>1, <1>2, <1>3 DEF Settled, CrossOK

LEMMA AppendSettled ==
  ASSUME NEW V, NEW Q, NEW e, More(V, Q, e), NEW R, NEW hot \in BOOLEAN, e \notin R[1],
         e \in R[2] \/ Settled(Q, R, hot)
  PROVE  Settled(V, R, hot)
<1>1. /\ Len(Q) \in Nat /\ Len(V) = Len(Q) + 1
      /\ \A i \in 1 .. Len(Q) : V[i] = Q[i]
      /\ V[Len(Q) + 1] = e
  BY DEF More
<1>2. ASSUME NEW i \in 0 .. Len(V), HotAt(V, R, hot, i)
      PROVE  \E m \in 1 .. Len(V) : i < m /\ V[m] \in R[2]
  <2>1. i \in 0 .. Len(Q) /\ HotAt(Q, R, hot, i)
    <3>1. i # Len(Q) + 1
      BY <1>1, <1>2 DEF HotAt
    <3>2. i \in 0 .. Len(Q)
      BY <1>1, <1>2, <3>1
    <3> QED BY <1>1, <1>2, <3>2 DEF HotAt
  <2>2. CASE e \in R[2]
    <3>1. Len(Q) + 1 \in 1 .. Len(V) /\ i < Len(Q) + 1
      BY <1>1, <2>1
    <3> QED BY <1>1, <2>2, <3>1
  <2>3. CASE Settled(Q, R, hot)
    <3>1. PICK m \in 1 .. Len(Q) : i < m /\ Q[m] \in R[2]
      BY <2>1, <2>3, SettledAt
    <3> QED BY <1>1, <3>1
  <2> QED BY <2>2, <2>3
<1> QED BY <1>2, SettledElement

\* A rule for q where the queue gets, or the main process takes, messages of others.
LEMMA UnheardIn ==
  ASSUME NEW q, Unheard(q), NEW R, OwnRule(R, q), NEW hot \in BOOLEAN
  PROVE  /\ InOK(Inq(q), R, hot) => InOK(Inq(q)', R, hot)
         /\ Settled(Inq(q), R, hot) => Settled(Inq(q)', R, hot)
<1>1. CASE Inq(q)' = Inq(q)
  BY <1>1
<1>2. ASSUME NEW x, Joined(Inq(q)', Inq(q), x), Len(x) \in Nat, \A i \in 1 .. Len(x) : x[i].id # q
      PROVE  /\ InOK(Inq(q), R, hot) => InOK(Inq(q)', R, hot)
             /\ Settled(Inq(q), R, hot) => Settled(Inq(q)', R, hot)
  <2>1. Foreign(x, R)
    BY <1>2 DEF Foreign, OwnRule
  <2>2. InOK(Inq(q), R, hot) => InOK(Inq(q)', R, hot)
    BY <1>2, <2>1, NoiseIn
  <2>3. Settled(Inq(q), R, hot) => Settled(Inq(q)', R, hot)
    <3>1. PICK b \in BOOLEAN : b = TRUE
      OBVIOUS
    <3>2. CrossOK(Inq(q), R, hot, << >>, R, b) => CrossOK(Inq(q)', R, hot, << >>, R, b)
      BY <1>2, <2>1, NoiseCross
    <3> QED BY <3>1, <3>2 DEF Settled
  <2> QED BY <2>2, <2>3
<1> QED BY <1>1, <1>2 DEF Unheard

LEMMA OtherIn ==
  ASSUME SysInv, NEW n, NEW t, NEW p, NEW r1, NEW w, NEW ts, MainMove(n, t, p, r1, w, ts),
         NEW q \in Ids, q # p, NEW R, OwnRule(R, q), NEW hot \in BOOLEAN
  PROVE  /\ InOK(Inq(q), R, hot) => InOK(Inq(q)', R, hot)
         /\ Settled(Inq(q), R, hot) => Settled(Inq(q)', R, hot)
<1>1. CASE Inq(q)' = Inq(q)
  BY <1>1
<1>2. CASE Took(n, p) /\ Rest(Inq(q)', Inq(q)) /\ Inq(q) = inq[n]
  <2>1. Inq(q)[1] \notin R[2]
    BY <1>2 DEF Took, OwnRule
  <2>2. InOK(Inq(q), R, hot) => InOK(Inq(q)', R, hot)
    BY <1>2, <2>1, ConsumeIn
  <2>3. Settled(Inq(q), R, hot) => Settled(Inq(q)', R, hot)
    <3>1. PICK b \in BOOLEAN : b = TRUE
      OBVIOUS
    <3>2. CrossOK(Inq(q), R, hot, << >>, R, b) => CrossOK(Inq(q)', R, hot, << >>, R, b)
      BY <1>2, <2>1, ConsumeCross
    <3> QED BY <3>1, <3>2 DEF Settled
  <2> QED BY <2>2, <2>3
<1> QED BY <1>1, <1>2, MoveIn

\* The record of a peer after a step.
LEMMA MoveRecordOf ==
  ASSUME TypeInv, NEW n, NEW t, NEW p, NEW r1, NEW w, NEW ts, MainMove(n, t, p, r1, w, ts), NEW q \in Ids
  PROVE  Record(q)' = IF q = p THEN r1 ELSE Record(q)
<1>1. /\ Known(q)' <=> Known(q) \/ q = p
      /\ Peer(p)' = r1
      /\ Known(q) /\ q # p => Peer(q)' = Peer(q)
  BY MovePeer
<1>2. Record(q)' = IF Known(q)' THEN Peer(q)' ELSE NewPeer
  BY DEF Record, NewPeer
<1> QED BY <1>1, <1>2 DEF Record

LEMMA ChildRecord ==
  ASSUME TypeInv, NEW n, ChildMain(n), NEW q \in Ids
  PROVE  Record(q)' = Record(q)
<1>1. (Known(q)' <=> Known(q)) /\ Peer(q)' = Peer(q)
  BY ChildPeer
<1>2. Record(q)' = IF Known(q)' THEN Peer(q)' ELSE NewPeer
  BY DEF Record, NewPeer
<1> QED BY <1>1, <1>2 DEF Record

\* How the number and the state of a record change.
LEMMA ShakenState ==
  ASSUME NEW p, NEW r \in PeerSet, NEW r1, NEW ts, Shaken(p, r, r1, ts)
  PROVE  r1.conn = r.conn /\ r1.state \in {r.state, "CLOSING"}
BY DEF Shaken, Decided, Keeps

LEMMA TreatedState ==
  ASSUME cf \in Configs, NEW p \in Ids, NEW m \in Msgs, NEW r \in PeerSet, NEW r1 \in PeerSet, NEW ts,
         Treated(p, m, r, r1, ts), m.type = "CONNECTED" => r.state = "CONNECTED"
  PROVE  /\ r1.conn = r.conn /\ r1.state \in {r.state, "CLOSING", "CLOSED"}
         /\ m.type = "CLOSE" => r1.state # "CONNECTED"
<1>0. m.conn \in 0 .. MaxConns
  BY DEF Msgs
<1>1. CASE r1 = r /\ m.type # "CLOSE"
  BY <1>1
<1>2. CASE r1 = Refused(r)
  BY <1>2 DEF Refused, Closed, PeerSet
<1>3. CASE Gone(r, r1)
  BY <1>3 DEF Gone
<1>5. CASE m.type = "VERSION" /\ \E us : Shaken(p, Opened(p, m.conn, r), r1, us)
  <2>1. PICK us : Shaken(p, Opened(p, m.conn, r), r1, us)
    BY <1>5
  <2>2. Opened(p, m.conn, r) \in PeerSet /\ Opened(p, m.conn, r).conn = r.conn /\ Opened(p, m.conn, r).state = r.state
    BY <1>0, OpenedType
  <2> QED BY <1>5, <2>1, <2>2, ShakenState
<1>6. CASE m.type # "CLOSE" /\ r1 = [r EXCEPT !.sync_requested =
                  @ \cup {"PEER"} \cup (IF m.type = "REQUEST_SYNC_AUTH" THEN {"AUTH_PEER"} ELSE {})]
  BY <1>6 DEF PeerSet
<1>7. CASE m.type # "CLOSE" /\ r1 = [r EXCEPT !.got = @ \/ "WE" \in r.sync_requested]
  BY <1>7 DEF PeerSet
<1>8. CASE m.type # "CLOSE" /\ PhaseEnds(p, r, r1, ts)
  <2>1. CASE Shaken(p, Shook(r, "PEER"), r1, ts)
    <3>1. Shook(r, "PEER") \in PeerSet
      BY <1>0, OpenedType
    <3>2. Shook(r, "PEER").conn = r.conn /\ Shook(r, "PEER").state = r.state
      BY DEF Shook, PeerSet
    <3> QED BY <1>8, <2>1, <3>1, <3>2, ShakenState
  <2>2. CASE r1 = [r EXCEPT !.phase = "RUNNING", !.suspended = FALSE]
    BY <1>8, <2>2 DEF PeerSet
  <2> QED BY <1>2, <1>8, <2>1, <2>2 DEF PhaseEnds
<1> QED BY <1>1, <1>2, <1>3, <1>5, <1>6, <1>7, <1>8 DEF Treated, PeerMsgs, Requests

LEMMA TreatedTry ==
  ASSUME NEW p, NEW m, NEW r, NEW r1, NEW ts, Treated(p, m, r, r1, ts), NEW i \in 1 .. Len(ts)
  PROVE  ts[i] # "CONNECT_TO"
<1>1. CASE ts \in {<< >>, <<"CLOSE">>, <<"VERSION">>, <<"SERIAL", "PHASE_DONE">>}
  BY <1>1
<1>2. ASSUME NEW us, Shaken(p, Opened(p, m.conn, r), r1, us), Joined(ts, Opening(p), us)
      PROVE  ts[i] # "CONNECT_TO"
  <2>1. us \in {<< >>, <<"CLOSE">>, <<"SERIAL", "PHASE_DONE">>}
    BY <1>2, ShakenShort
  <2>2. \A j \in 1 .. Len(us) : us[j] # "CONNECT_TO"
    BY <2>1
  <2>3. \A j \in 1 .. Len(Opening(p)) : Opening(p)[j] # "CONNECT_TO"
    BY OpeningFacts DEF Requests
  <2>4. \/ i \in 1 .. Len(Opening(p)) /\ ts[i] = Opening(p)[i]
        \/ \E j \in 1 .. Len(us) : i = Len(Opening(p)) + j /\ ts[i] = us[j]
    BY <1>2, JoinedElement
  <2> QED BY <2>2, <2>3, <2>4
<1>3. CASE PhaseEnds(p, r, r1, ts)
  <2>1. ts \in {<< >>, <<"CLOSE">>, <<"SERIAL", "PHASE_DONE">>}
    BY <1>3, ShakenShort DEF PhaseEnds, CloseMsgs
  <2> QED BY <1>1, <2>1
<1> QED BY <1>1, <1>2, <1>3 DEF Treated, CloseMsgs

\* A message that is taken is of no later connection than the one the peer knows of.
LEMMA Abreast ==
  ASSUME SysInv, LabelInv, NEW n, NEW t, NEW p, NEW r1, NEW w, NEW ts,
         MainMove(n, t, p, r1, w, ts), Took(n, p), inq[n][1] \in DataOf(p), Known(p)
  PROVE  /\ 0 < inq[n][1].conn /\ inq[n][1].conn <= Record(p).conn
         /\ Record(p).conn \in Nat /\ Record(p).conn # 0 /\ Record(p).state \notin {"INIT", "PENDING"}
<1>1. PICK m : m = inq[n][1]
  OBVIOUS
<1>2. p \in Ids /\ TypeInv /\ Owner(p) = n
  BY DEF MainMove, SysInv
<1>3. LabelParts(p) /\ (p[2] = 0 => TurnParts(p))
  BY <1>2 DEF LabelInv
<1>4. In(p) = inq[n] /\ Inq(p) = inq[n] /\ 1 \in 1 .. Len(inq[n]) /\ Len(inq[n]) \in Nat
  BY <1>2, MoveIn DEF Took, Rest, Inq
<1>5. 0 < m.conn /\ m.conn <= (IF p[2] = 0 THEN link[p[1]].conn ELSE p[2])
  BY <1>1, <1>3, <1>4 DEF LabelParts, Within, InSet
<1>6. m \in DataOf(p) /\ m.conn \in 1 .. MaxConns
  BY <1>1, <1>5 DEF DataOf, Msgs
<1>7. Record(p) \in PeerSet /\ Record(p).conn \in 0 .. MaxConns
  BY <1>2, RecordFacts DEF PeerSet
<1>8. CASE p[2] # 0
  BY <1>1, <1>3, <1>5, <1>6, <1>7, <1>8 DEF LabelParts
<1>9. CASE p[2] = 0
  <2>1. PICK k : k = m.conn
    OBVIOUS
  <2>2. PICK hot \in BOOLEAN : hot = Behind(Record(p), k)
    BY LabelTypes
  <2>3. InOK(inq[n], Announced(p, k), hot)
    BY <1>3, <1>4, <1>6, <1>9, <2>1, <2>2 DEF TurnParts
  <2>4. inq[n][1] \in Announced(p, k)[3]
    BY <1>1, <1>6, <2>1, LabelRules
  <2>5. ~ hot
    <3>1. SUFFICES ASSUME hot PROVE FALSE
      OBVIOUS
    <3>2. HotAt(inq[n], Announced(p, k), hot, 0)
      BY <3>1 DEF HotAt
    <3> QED BY <1>4, <2>3, <2>4, <3>2, NotFirst
  <2>6. ~ Behind(Record(p), k)
    BY <2>2, <2>5
  <2>7. m.conn <= Record(p).conn
    BY <1>6, <1>7, <2>1, <2>6 DEF Behind
  <2> QED BY <1>1, <1>3, <1>5, <1>6, <1>7, <2>7 DEF LabelParts
<1> QED BY <1>8, <1>9

LEMMA ConnStep ==
  ASSUME SysInv, LabelInv, WaitInv, NEW n, NEW t, NEW p, NEW r1, NEW w, NEW ts,
         MainMove(n, t, p, r1, w, ts), Does(n, p, r1, w, ts), NEW r, r = Record(p)
  PROVE  NewConn(n, p, r, r1, ts) \/ SameConn(n, p, r, r1, ts)
<1>0. SysInv /\ TypeInv /\ cf \in Configs
  BY DEF SysInv, TypeInv
<1>1. p \in Ids /\ r1 \in PeerSet /\ n \in Nodes /\ Owner(p) = n
  BY MoveRecord
<1>2. r \in PeerSet /\ (Known(p) => r = Peer(p)) /\ (~ Known(p) => r = NewPeer)
  BY <1>0, <1>1, RecordFacts DEF Record
<1>3. CASE Connects(n, p, r1, w, ts)
  <2>1. inq' = inq /\ r1.conn = 0 /\ r1.state = "PENDING" /\ ts = <<"CONNECT_TO">> /\ r = NewPeer
    BY <1>2, <1>3 DEF Connects
  <2>2. r.conn = 0
    BY <2>1 DEF NewPeer
  <2>3. \A i \in 1 .. Len(ts) : ts[i] \notin PeerMsgs
    BY <2>1 DEF PeerMsgs
  <2>4. ~ Known(p) /\ p[2] = 0 /\ Len(ts) = 1
    BY <1>3, <2>1 DEF Connects
  <2> QED BY <1>0, <1>1, <2>1, <2>2, <2>3, <2>4, NotTaken DEF SameConn
<1>4. CASE Disconnects(n, p, r1, w, ts)
  <2>1. inq' = inq /\ r1 = Closed(r) /\ ts = CloseMsgs(r)
    BY <1>2, <1>4 DEF Disconnects
  <2>2. r1.conn = r.conn /\ r1.state = "CLOSING"
    BY <1>2, <2>1 DEF Closed, PeerSet
  <2>3. \A i \in 1 .. Len(ts) : ts[i] \notin PeerMsgs
    BY <2>1 DEF CloseMsgs, PeerMsgs
  <2>4. Known(p) /\ \A i \in 1 .. Len(ts) : ts[i] # "CONNECT_TO"
    BY <1>4, <2>1 DEF Disconnects, CloseMsgs
  <2> QED BY <1>0, <1>1, <2>1, <2>2, <2>3, <2>4, NotTaken DEF SameConn
<1>5. CASE Resumes(n, p, r1, w, ts)
  <2>1. Known(p) /\ inq' = inq /\ Decided(p, r, r1, ts) /\ Rest(w, main[n].sync_pending)
        /\ p = main[n].sync_pending[1]
    BY <1>2, <1>5 DEF Resumes
  <2>2. InPending(main[Owner(p)], p)
    BY <1>1, <2>1 DEF Rest, InPending
  <2>3. r.conn # 0 /\ r.state # "PENDING"
    BY <1>1, <2>2 DEF WaitInv, LabelInv, LabelParts
  <2>4. r1.conn = r.conn /\ r1.state \in {r.state, "CLOSING"}
    BY <2>1 DEF Decided, Keeps
  <2>5. \A i \in 1 .. Len(ts) : ts[i] # "CONNECT_TO"
    <3>1. ts \in {<< >>, <<"CLOSE">>, <<"SERIAL", "PHASE_DONE">>}
      BY <2>1, DecidedShort
    <3> QED BY <3>1
  <2> QED BY <1>0, <1>1, <2>1, <2>3, <2>4, <2>5, NotTaken DEF SameConn
<1>6. CASE Takes(n, p, r1, w, ts)
  <2>1. PICK m : m = inq[n][1]
    OBVIOUS
  <2>2. /\ Treated(p, m, r, r1, ts) /\ m \in Msgs /\ m.id = p /\ Took(n, p)
        /\ m.type = "CONNECTED" \/ Known(p)
    BY <1>6, <2>1 DEF Takes
  <2>3. CASE m.type = "CONNECTED" /\ r.state # "CONNECTED"
    <3>1. r1 = Fresh(p, r, m.conn) /\ ts = <<"VERSION">>
      BY <2>2, <2>3 DEF Treated, PeerMsgs, Requests
    <3>2. m \in ConnOf(p)
      BY <2>2, <2>3 DEF ConnOf
    <3>3. LabelParts(p)
      BY <1>1 DEF LabelInv
    <3>4. Inq(p) = inq[n] /\ 1 \in 1 .. Len(inq[n]) /\ Len(inq[n]) \in Nat
      BY <1>1, <2>2 DEF Took, Rest, Inq
    <3>5. m.conn \in 1 .. MaxConns
      BY <2>1, <2>2, <3>2, <3>3, <3>4 DEF LabelParts, Within, ConnSet, Msgs
    <3>6. r.conn \in 0 .. MaxConns
      BY <1>2 DEF PeerSet
    <3>7. PICK k : k = m.conn
      OBVIOUS
    <3>8. PICK hot \in BOOLEAN : hot = Reached(r, k)
      BY LabelTypes
    <3>9. InOK(inq[n], Rising(p, k), hot)
      BY <3>3, <3>4, <3>5, <3>7, <3>8 DEF LabelParts
    <3>10. inq[n][1] \in Rising(p, k)[3]
      BY <2>1, <3>2, <3>5, <3>7, LabelRules
    <3>11. ~ hot
      <4>1. SUFFICES ASSUME hot PROVE FALSE
        OBVIOUS
      <4>2. HotAt(inq[n], Rising(p, k), hot, 0)
        BY <4>1 DEF HotAt
      <4> QED BY <3>4, <3>9, <3>10, <4>2, NotFirst
    <3>12. ~ Reached(r, k)
      BY <3>8, <3>11
    <3>13. r.conn < m.conn
      BY <3>5, <3>6, <3>7, <3>12 DEF Reached
    <3> QED BY <2>1, <2>2, <2>3, <3>1, <3>2, <3>13 DEF NewConn
  <2>4. CASE m.type = "CONNECTED" => r.state = "CONNECTED"
    <3>1. /\ r1.conn = r.conn /\ r1.state \in {r.state, "CLOSING", "CLOSED"}
          /\ m.type = "CLOSE" => r1.state # "CONNECTED"
      BY <1>0, <1>1, <1>2, <2>2, <2>4, TreatedState
    <3>2. r1.state = "PENDING" => r.conn = 0
      <4>1. r.state = "PENDING" => r.conn = 0
        BY <1>1 DEF LabelInv, LabelParts
      <4> QED BY <3>1, <4>1
    <3>3. ASSUME r.conn = 0 PROVE \A i \in 1 .. Len(ts) : ts[i] \notin PeerMsgs
      <4>1. m \notin DataOf(p)
        BY <1>0, <2>1, <2>2, <3>3, Abreast DEF DataOf, PeerMsgs
      <4>2. m.type \notin PeerMsgs
        BY <2>2, <4>1 DEF DataOf
      <4>3. ts = << >>
        BY <2>2, <2>4, <4>2 DEF Treated, PeerMsgs, Requests
      <4> QED BY <4>3
    <3>4. (m \in ConnOf(p) => r.state = "CONNECTED") /\ (m \in CloseOf(p) => r1.state # "CONNECTED")
      BY <2>4, <3>1 DEF ConnOf, CloseOf
    <3>5. Known(p)
      BY <1>2, <2>2, <2>4 DEF NewPeer
    <3>6. \A i \in 1 .. Len(ts) : ts[i] # "CONNECT_TO"
      BY <2>2, TreatedTry
    <3> QED BY <2>1, <3>1, <3>2, <3>3, <3>4, <3>5, <3>6 DEF SameConn
  <2> QED BY <2>3, <2>4
<1> QED BY <1>3, <1>4, <1>5, <1>6 DEF Does

\* What is sent in a step of the main process.
LEMMA SentMsgs ==
  ASSUME NEW p \in Ids, NEW k \in 0 .. MaxConns, NEW ts, AreTypes(ts)
  PROVE  /\ Len(Sent(p, k, ts)) = Len(ts) /\ Len(ts) \in Nat
         /\ \A i \in 1 .. Len(ts) : /\ Sent(p, k, ts)[i] \in Msgs /\ Sent(p, k, ts)[i].id = p
                                    /\ Sent(p, k, ts)[i].type = ts[i] /\ Sent(p, k, ts)[i].conn = k
<1>1. Len(ts) \in Nat /\ \A i \in 1 .. Len(ts) : ts[i] \in MsgTypes
  BY DEF AreTypes
<1>2. Len(Sent(p, k, ts)) = Len(ts) /\ \A i \in 1 .. Len(ts) : Sent(p, k, ts)[i] = Msg(p, ts[i], k)
  BY <1>1, SentFacts
<1>3. ASSUME NEW type \in MsgTypes
      PROVE  Msg(p, type, k) \in Msgs /\ Msg(p, type, k).id = p /\ Msg(p, type, k).type = type /\ Msg(p, type, k).conn = k
  BY DEF Msg, Msgs
<1> QED BY <1>1, <1>2, <1>3

\* The numbers that the records of the others and their queues have.
LEMMA MoveOther ==
  ASSUME SysInv, LabelInv, NEW n, NEW t, NEW p, NEW r1, NEW w, NEW ts, MainMove(n, t, p, r1, w, ts), AreTypes(ts),
         NEW q \in Ids, q # p
  PROVE  LabelParts(q)' /\ (q[2] = 0 => TurnParts(q)')
<1>0. TypeInv /\ link' = link
  BY DEF SysInv, MainMove
<1>1. r1.conn \in 0 .. MaxConns /\ p \in Ids
  BY MoveRecord
<1>2. LabelParts(q) /\ (q[2] = 0 => TurnParts(q))
  BY DEF LabelInv
<1>3. Record(q)' = Record(q) /\ (Known(q)' <=> Known(q))
  BY <1>0, MoveRecordOf, MovePeer
<1>4. PICK x : x = Sent(p, r1.conn, ts)
  OBVIOUS
<1>5. /\ Len(x) \in Nat /\ \A i \in 1 .. Len(x) : x[i] \in Msgs /\ x[i].id # q
      /\ Out(q)' = Out(q) \/ Joined(Out(q)', Out(q), x)
  <2>1. Len(x) \in Nat /\ \A i \in 1 .. Len(x) : x[i] \in Msgs /\ x[i].id = p
    BY <1>1, <1>4, SentMsgs
  <2>2. Out(q)' = Out(q) \/ Joined(Out(q)', Out(q), x)
    BY <1>0, <1>4, MoveOut
  <2> QED BY <2>1, <2>2
<1>6. Within(Out(q)', OutSet(q, Record(q).conn))
  <2>1. Within(Out(q), OutSet(q, Record(q).conn))
    BY <1>2 DEF LabelParts
  <2>2. Within(x, OutSet(q, Record(q).conn))
    BY <1>5 DEF Within, OutSet, DataOf
  <2> QED BY <1>5, <2>1, <2>2, WithinJoined
<1>7. /\ In(q)' = In(q) \/ Rest(In(q)', In(q))
      /\ Inq(q)' = Inq(q) \/ (Rest(Inq(q)', Inq(q)) /\ Inq(q)[1].id # q)
  BY MoveIn DEF Took
<1>8. Within(In(q)', InSet(q, IF q[2] = 0 THEN link[q[1]].conn ELSE q[2]))
  BY <1>2, <1>7, WithinRest DEF LabelParts
<1>9. Within(Inq(q)', ConnSet(q, link[q[1]].conn))
  BY <1>2, <1>7, WithinRest DEF LabelParts
<1>10. ASSUME NEW k \in 1 .. MaxConns PROVE InOK(Inq(q)', Rising(q, k), Reached(Record(q), k))
  <2>1. InOK(Inq(q), Rising(q, k), Reached(Record(q), k))
    BY <1>2 DEF LabelParts
  <2>2. OwnRule(Rising(q, k), q) /\ Reached(Record(q), k) \in BOOLEAN
    BY LabelRules, LabelTypes
  <2> QED BY <2>1, <2>2, OtherIn
<1>11. LabelParts(q)'
  <2>1. Known(q)' /\ q[2] # 0 => Record(q)'.conn = q[2]
    BY <1>2, <1>3 DEF LabelParts
  <2>2. Record(q)'.state \in {"INIT", "PENDING"} => Record(q)'.conn = 0
    BY <1>2, <1>3 DEF LabelParts
  <2>3. Record(q)'.conn <= link'[q[1]].conn
    BY <1>0, <1>2, <1>3 DEF LabelParts
  <2>4. Within(Out(q)', OutSet(q, Record(q)'.conn)) /\ Within(Inq(q)', ConnSet(q, link'[q[1]].conn))
    BY <1>0, <1>3, <1>6, <1>9
  <2>5. Within(In(q)', InSet(q, IF q[2] = 0 THEN link'[q[1]].conn ELSE q[2]))
    BY <1>0, <1>8
  <2>6. \A k \in 1 .. MaxConns : InOK(Inq(q)', Rising(q, k), Reached(Record(q)', k))
    BY <1>3, <1>10
  <2> QED BY <2>1, <2>2, <2>3, <2>4, <2>5, <2>6 DEF LabelParts
<1>12. ASSUME q[2] = 0 PROVE TurnParts(q)'
  <2>1. ASSUME NEW k \in 1 .. MaxConns PROVE InOK(Inq(q)', Announced(q, k), Behind(Record(q)', k))
    <3>1. InOK(Inq(q), Announced(q, k), Behind(Record(q), k))
      BY <1>2, <1>12 DEF TurnParts
    <3>2. OwnRule(Announced(q, k), q) /\ Behind(Record(q), k) \in BOOLEAN
      BY LabelRules, LabelTypes
    <3>3. InOK(Inq(q)', Announced(q, k), Behind(Record(q), k))
      BY <3>1, <3>2, OtherIn
    <3> QED BY <1>3, <3>3
  <2>2. InOK(Inq(q)', Turns(q), IsUp(Record(q)'))
    <3>1. InOK(Inq(q), Turns(q), IsUp(Record(q)))
      BY <1>2, <1>12 DEF TurnParts
    <3>2. InOK(Inq(q)', Turns(q), IsUp(Record(q)))
      BY <3>1, OtherIn, LabelRules, LabelTypes
    <3> QED BY <1>3, <3>2
  <2>3. link'[q[1]].entry # "up" => Settled(Inq(q)', Turns(q), IsUp(Record(q)'))
    <3>1. link[q[1]].entry # "up" => Settled(Inq(q), Turns(q), IsUp(Record(q)))
      BY <1>2, <1>12 DEF TurnParts
    <3>2. link[q[1]].entry # "up" => Settled(Inq(q)', Turns(q), IsUp(Record(q)))
      BY <3>1, OtherIn, LabelRules, LabelTypes
    <3> QED BY <1>0, <1>3, <3>2
  <2>4. \/ Record(q)'.conn = link'[q[1]].conn
        \/ \E i \in 1 .. Len(Inq(q)') : Inq(q)'[i] = Msg(q, "CONNECTED", link'[q[1]].conn)
    <3>1. CASE Record(q).conn = link[q[1]].conn
      BY <1>0, <1>3, <3>1
    <3>2. ASSUME NEW i \in 1 .. Len(Inq(q)), Inq(q)[i] = Msg(q, "CONNECTED", link[q[1]].conn)
          PROVE  \E j \in 1 .. Len(Inq(q)') : Inq(q)'[j] = Msg(q, "CONNECTED", link'[q[1]].conn)
      <4>1. CASE Inq(q)' = Inq(q)
        BY <1>0, <3>2, <4>1
      <4>2. CASE Rest(Inq(q)', Inq(q)) /\ Inq(q)[1].id # q
        <5>1. Msg(q, "CONNECTED", link[q[1]].conn).id = q
          BY DEF Msg
        <5>2. i # 1
          BY <3>2, <4>2, <5>1
        <5>3. i - 1 \in 1 .. Len(Inq(q)') /\ Inq(q)'[i - 1] = Inq(q)[i]
          BY <3>2, <4>2, <5>2 DEF Rest
        <5> QED BY <1>0, <3>2, <5>3
      <4> QED BY <1>7, <4>1, <4>2
    <3> QED BY <1>2, <1>12, <3>1, <3>2 DEF TurnParts
  <2>5. ASSUME NEW i \in 1 .. Len(Out(q)'), NEW j \in 1 .. Len(Out(q)'),
               Out(q)'[i].id = q, Out(q)'[i].type = "CONNECT_TO", Out(q)'[j].id = q, Out(q)'[j].type = "CONNECT_TO"
        PROVE  i = j /\ link'[q[1]].entry = "none"
    <3>1. i \in 1 .. Len(Out(q)) /\ Out(q)'[i] = Out(q)[i] /\ j \in 1 .. Len(Out(q)) /\ Out(q)'[j] = Out(q)[j]
      <4>1. PICK V, Q : V = Out(q)' /\ Q = Out(q)
        OBVIOUS
      <4>2. CASE V = Q
        BY <4>1, <4>2
      <4>3. CASE Joined(V, Q, x)
        <5>1. ASSUME NEW h \in 1 .. Len(V), V[h].id = q PROVE h \in 1 .. Len(Q) /\ V[h] = Q[h]
          <6>1. (h \in 1 .. Len(Q) /\ V[h] = Q[h]) \/ \E g \in 1 .. Len(x) : V[h] = x[g]
            BY <4>3, JoinedElement
          <6> QED BY <1>5, <5>1, <6>1
        <5>2. i \in 1 .. Len(V) /\ V[i].id = q /\ j \in 1 .. Len(V) /\ V[j].id = q
          BY <2>5, <4>1
        <5>3. i \in 1 .. Len(Q) /\ V[i] = Q[i] /\ j \in 1 .. Len(Q) /\ V[j] = Q[j]
          BY <5>1, <5>2
        <5> QED BY <4>1, <5>3
      <4> QED BY <1>5, <4>1, <4>2, <4>3
    <3> QED BY <1>0, <1>2, <1>12, <2>5, <3>1 DEF TurnParts
  <2> QED BY <2>1, <2>2, <2>3, <2>4, <2>5 DEF TurnParts
<1> QED BY <1>11, <1>12

\* The numbers that the record and the queues of the peer have.
LEMMA MoveOwn ==
  ASSUME SysInv, LabelInv, WaitInv, NEW n, NEW t, NEW p, NEW r1, NEW w, NEW ts,
         MainMove(n, t, p, r1, w, ts), Does(n, p, r1, w, ts)
  PROVE  LabelParts(p)' /\ (p[2] = 0 => TurnParts(p)')
<1>0. SysInv /\ TypeInv /\ FreshInv /\ link' = link /\ AreTypes(ts)
  BY DoesTypes DEF SysInv, MainMove
<1>1. r1 \in PeerSet /\ r1.conn \in 0 .. MaxConns /\ p \in Ids /\ Owner(p) = n /\ n \in Nodes
  BY MoveRecord
<1>2. LabelParts(p) /\ (p[2] = 0 => TurnParts(p))
  BY <1>1 DEF LabelInv
<1>3. Record(p)' = r1 /\ Known(p)'
  BY <1>0, <1>1, MoveRecordOf, MovePeer
<1>4. PICK r : r = Record(p)
  OBVIOUS
<1>5. r \in PeerSet /\ r.conn \in 0 .. MaxConns /\ link[p[1]].conn \in 0 .. MaxConns
  BY <1>0, <1>1, <1>4, RecordFacts, IdFacts DEF PeerSet, TypeInv
<1>6. NewConn(n, p, r, r1, ts) \/ SameConn(n, p, r, r1, ts)
  BY <1>4, ConnStep
<1>7. PICK m : m = inq[n][1]
  OBVIOUS
<1>8. /\ In(p) = Inq(p) /\ In(p)' = Inq(p)' /\ Inq(p) = inq[n] /\ Inq(p)' = inq'[n]
      /\ Took(n, p) => Rest(Inq(p)', Inq(p)) /\ Inq(p)[1] = m /\ 1 \in 1 .. Len(Inq(p)) /\ Len(Inq(p)) \in Nat
      /\ ~ Took(n, p) => Inq(p)' = Inq(p)
  <2>1. In(p) = inq[n] /\ In(p)' = inq'[n] /\ (inq'[n] = inq[n] \/ Took(n, p))
    BY <1>0, <1>1, MoveIn DEF MainMove
  <2> QED BY <1>1, <1>7, <2>1 DEF Inq, Took, Rest
<1>9. /\ Took(n, p) /\ m \in ConnOf(p) => 0 < m.conn /\ m.conn <= link[p[1]].conn /\ (p[2] # 0 => m.conn = p[2])
      /\ m \in ConnOf(p) => m.conn \in 0 .. MaxConns
  BY <1>2, <1>8 DEF LabelParts, Within, ConnSet, ConnOf, Msgs
<1>10. NewConn(n, p, r, r1, ts) =>
           /\ Took(n, p) /\ m \in ConnOf(p) /\ r.state # "CONNECTED" /\ r.conn < m.conn
           /\ ts = <<"VERSION">> /\ r1.state = "CONNECTED" /\ r1.conn = m.conn
  <2>1. ASSUME NewConn(n, p, r, r1, ts)
        PROVE  Took(n, p) /\ m \in ConnOf(p) /\ r.state # "CONNECTED" /\ r1 = Fresh(p, r, m.conn)
               /\ ts = <<"VERSION">> /\ r.conn < m.conn
    BY <1>7, <2>1 DEF NewConn
  <2>2. cf \in Configs
    BY <1>0 DEF TypeInv
  <2> QED BY SMTT(30), <1>1, <1>5, <1>9, <2>1, <2>2, FreshFacts
<1>11. r.conn <= r1.conn /\ r1.conn <= link[p[1]].conn
  <2>1. r.conn <= link[p[1]].conn
    BY <1>2, <1>4 DEF LabelParts
  <2>2. CASE NewConn(n, p, r, r1, ts)
    BY <1>1, <1>5, <1>9, <1>10, <2>2
  <2>3. CASE SameConn(n, p, r, r1, ts)
    BY <1>5, <2>1, <2>3 DEF SameConn
  <2> QED BY <1>6, <2>2, <2>3
<1>12. p[2] # 0 => r1.conn = p[2]
  <2>1. CASE NewConn(n, p, r, r1, ts)
    BY <1>9, <1>10, <2>1
  <2>2. CASE SameConn(n, p, r, r1, ts)
    BY <1>2, <1>4, <2>2 DEF SameConn, LabelParts
  <2> QED BY <1>6, <2>1, <2>2
<1>13. r1.state \in {"INIT", "PENDING"} => r1.conn = 0
  <2>1. CASE NewConn(n, p, r, r1, ts)
    BY <1>10, <2>1
  <2>2. CASE SameConn(n, p, r, r1, ts)
    BY <1>2, <1>4, <2>2 DEF SameConn, LabelParts
  <2> QED BY <1>6, <2>1, <2>2
<1>14. PICK x : x = Sent(p, r1.conn, ts)
  OBVIOUS
<1>15. /\ Len(x) = Len(ts) /\ Len(x) \in Nat
       /\ \A i \in 1 .. Len(x) : x[i] \in Msgs /\ x[i].id = p /\ x[i].type = ts[i] /\ x[i].conn = r1.conn
       /\ Joined(Out(p)', Out(p), x)
  BY <1>0, <1>1, <1>14, SentMsgs, MoveOut
<1>16. Within(Out(p)', OutSet(p, r1.conn))
  <2>1. Within(Out(p), OutSet(p, r.conn))
    BY <1>2, <1>4 DEF LabelParts
  <2>2. OutSet(p, r.conn) \subseteq OutSet(p, r1.conn)
    <3>1. ASSUME NEW e \in OutSet(p, r.conn) PROVE e \in OutSet(p, r1.conn)
      <4>1. e \in Msgs /\ e.conn \in 0 .. MaxConns
        BY <3>1 DEF OutSet, Msgs
      <4>2. e \in DataOf(p) => 0 < e.conn /\ e.conn <= r.conn /\ (p[2] # 0 => e.conn = p[2])
        BY <3>1 DEF OutSet
      <4>3. e \in DataOf(p) => e.conn <= r1.conn
        BY <1>1, <1>5, <1>11, <4>1, <4>2
      <4> QED BY <4>1, <4>2, <4>3 DEF OutSet
    <3> QED BY <3>1
  <2>3. \A i \in 1 .. Len(x) : x[i] \in DataOf(p) => 0 < r1.conn
    <3>1. CASE NewConn(n, p, r, r1, ts)
      BY <1>1, <1>5, <1>10, <3>1
    <3>2. CASE SameConn(n, p, r, r1, ts)
      BY <1>5, <1>15, <3>2 DEF SameConn, DataOf
    <3> QED BY <1>6, <3>1, <3>2
  <2>4. Within(x, OutSet(p, r1.conn))
    BY <1>1, <1>12, <1>15, <2>3 DEF Within, OutSet
  <2>5. Within(Out(p), OutSet(p, r1.conn))
    BY <2>1, <2>2, WithinMono
  <2> QED BY <1>15, <2>4, <2>5, WithinJoined
<1>17. /\ Within(Inq(p)', InSet(p, IF p[2] = 0 THEN link[p[1]].conn ELSE p[2]))
       /\ Within(Inq(p)', ConnSet(p, link[p[1]].conn))
  BY <1>2, <1>8, WithinRest DEF LabelParts
\* A rule that is kept if it is with the message that is taken.
<1>18. ASSUME NEW R, NEW hot \in BOOLEAN, NEW hot1 \in BOOLEAN,
              IF Took(n, p) THEN hot1 => (hot \/ m \in R[1]) /\ m \notin R[2] ELSE hot1 => hot
       PROVE  /\ InOK(Inq(p), R, hot) => InOK(Inq(p)', R, hot1)
              /\ Settled(Inq(p), R, hot) => Settled(Inq(p)', R, hot1)
  <2>1. PICK b \in BOOLEAN : b = TRUE
    OBVIOUS
  <2>2. CASE Took(n, p)
    <3>1. hot1 => (hot \/ Inq(p)[1] \in R[1]) /\ Inq(p)[1] \notin R[2]
      BY <1>8, <1>18, <2>2
    <3>2. InOK(Inq(p), R, hot) => InOK(Inq(p)', R, hot1)
      BY <1>8, <2>2, <3>1, ConsumeIn
    <3>3. CrossOK(Inq(p), R, hot, << >>, R, b) => CrossOK(Inq(p)', R, hot1, << >>, R, b)
      BY <1>8, <2>2, <3>1, ConsumeCross
    <3> QED BY <2>1, <3>2, <3>3 DEF Settled
  <2>3. CASE ~ Took(n, p)
    <3>1. Inq(p)' = Inq(p) /\ (hot1 => hot)
      BY <1>8, <1>18, <2>3
    <3>2. InOK(Inq(p), R, hot) => InOK(Inq(p)', R, hot1)
      BY <3>1, CoolIn
    <3>3. CrossOK(Inq(p), R, hot, << >>, R, b) => CrossOK(Inq(p)', R, hot1, << >>, R, b)
      BY <3>1, CoolCross
    <3> QED BY <2>1, <3>2, <3>3 DEF Settled
  <2> QED BY <2>2, <2>3
<1>19. ASSUME NEW k \in 1 .. MaxConns PROVE InOK(Inq(p)', Rising(p, k), Reached(r1, k))
  <2>1. InOK(Inq(p), Rising(p, k), Reached(r, k))
    BY <1>2, <1>4 DEF LabelParts
  <2>2. Reached(r, k) \in BOOLEAN /\ Reached(r1, k) \in BOOLEAN
    BY LabelTypes
  <2>3. IF Took(n, p) THEN Reached(r1, k) => (Reached(r, k) \/ m \in Rising(p, k)[1]) /\ m \notin Rising(p, k)[2]
                      ELSE Reached(r1, k) => Reached(r, k)
    <3>1. CASE NewConn(n, p, r, r1, ts)
      BY <1>10, <3>1, LabelRules DEF Reached
    <3>2. CASE SameConn(n, p, r, r1, ts)
      BY <3>2, LabelRules DEF Reached, SameConn
    <3> QED BY <1>6, <3>1, <3>2
  <2> QED BY <1>18, <2>1, <2>2, <2>3
<1>20. LabelParts(p)'
  <2>1. Known(p)' /\ p[2] # 0 => Record(p)'.conn = p[2]
    BY <1>3, <1>12
  <2>2. Record(p)'.state \in {"INIT", "PENDING"} => Record(p)'.conn = 0
    BY <1>3, <1>13
  <2>3. Record(p)'.conn <= link'[p[1]].conn
    BY <1>0, <1>3, <1>11
  <2>4. Within(Out(p)', OutSet(p, Record(p)'.conn)) /\ Within(Inq(p)', ConnSet(p, link'[p[1]].conn))
    BY <1>0, <1>3, <1>16, <1>17
  <2>5. Within(In(p)', InSet(p, IF p[2] = 0 THEN link'[p[1]].conn ELSE p[2]))
    BY <1>0, <1>8, <1>17
  <2>6. \A k \in 1 .. MaxConns : InOK(Inq(p)', Rising(p, k), Reached(Record(p)', k))
    BY <1>3, <1>19
  <2> QED BY <2>1, <2>2, <2>3, <2>4, <2>5, <2>6 DEF LabelParts
<1>21. ASSUME p[2] = 0 PROVE TurnParts(p)'
  <2>0. TurnParts(p) /\ IsUp(r) \in BOOLEAN /\ IsUp(r1) \in BOOLEAN
    BY <1>2, <1>21, LabelTypes
  <2>1. ASSUME SameConn(n, p, r, r1, ts), Took(n, p), m \in ConnOf(p) PROVE FALSE
    <3>1. IsUp(r)
      BY <1>7, <2>1 DEF SameConn, IsUp
    <3>2. HotAt(Inq(p), Turns(p), IsUp(r), 0)
      BY <3>1 DEF HotAt
    <3>3. InOK(Inq(p), Turns(p), IsUp(r))
      BY <1>4, <2>0 DEF TurnParts
    <3>4. Inq(p)[1] \in Turns(p)[3]
      BY <1>8, <2>1, LabelRules
    <3> QED BY <1>8, <2>1, <3>2, <3>3, <3>4, NotFirst
  <2>2. ASSUME NEW k \in 1 .. MaxConns PROVE InOK(Inq(p)', Announced(p, k), Behind(r1, k))
    <3>1. InOK(Inq(p), Announced(p, k), Behind(r, k))
      BY <1>4, <2>0 DEF TurnParts
    <3>2. Behind(r, k) \in BOOLEAN /\ Behind(r1, k) \in BOOLEAN
      BY LabelTypes
    <3>3. Behind(r1, k) => Behind(r, k)
      BY <1>1, <1>5, <1>11 DEF Behind
    <3>4. Took(n, p) /\ Behind(r1, k) => m \notin Announced(p, k)[2]
      <4>1. CASE NewConn(n, p, r, r1, ts)
        BY <1>1, <1>10, <4>1, LabelRules DEF Behind
      <4>2. CASE SameConn(n, p, r, r1, ts)
        BY <2>1, <4>2, LabelRules
      <4> QED BY <1>6, <4>1, <4>2
    <3> QED BY <1>18, <3>1, <3>2, <3>3, <3>4
  <2>3. IF Took(n, p) THEN IsUp(r1) => (IsUp(r) \/ m \in Turns(p)[1]) /\ m \notin Turns(p)[2]
                      ELSE IsUp(r1) => IsUp(r)
    <3>1. CASE NewConn(n, p, r, r1, ts)
      <4>1. Took(n, p) /\ m \in ConnOf(p)
        BY <1>10, <3>1
      <4>2. m \notin CloseOf(p)
        BY <4>1 DEF ConnOf, CloseOf
      <4> QED BY <4>1, <4>2, LabelRules
    <3>2. CASE SameConn(n, p, r, r1, ts)
      BY <1>7, <3>2, LabelRules DEF IsUp, SameConn
    <3> QED BY <1>6, <3>1, <3>2
  <2>4. InOK(Inq(p)', Turns(p), IsUp(r1))
    BY <1>4, <1>18, <2>0, <2>3 DEF TurnParts
  <2>5. link[p[1]].entry # "up" => Settled(Inq(p)', Turns(p), IsUp(r1))
    BY <1>4, <1>18, <2>0, <2>3 DEF TurnParts
  <2>6. \/ r1.conn = link[p[1]].conn
        \/ \E i \in 1 .. Len(Inq(p)') : Inq(p)'[i] = Msg(p, "CONNECTED", link[p[1]].conn)
    <3>1. CASE r.conn = link[p[1]].conn
      BY <1>1, <1>5, <1>11, <3>1
    <3>2. ASSUME NEW i \in 1 .. Len(Inq(p)), Inq(p)[i] = Msg(p, "CONNECTED", link[p[1]].conn)
          PROVE  \/ r1.conn = link[p[1]].conn
                 \/ \E j \in 1 .. Len(Inq(p)') : Inq(p)'[j] = Msg(p, "CONNECTED", link[p[1]].conn)
      <4>1. CASE ~ Took(n, p)
        BY <1>8, <3>2, <4>1
      <4>2. CASE Took(n, p) /\ i # 1
        <5>1. i - 1 \in 1 .. Len(Inq(p)') /\ Inq(p)'[i - 1] = Inq(p)[i]
          BY <1>8, <3>2, <4>2 DEF Rest
        <5> QED BY <3>2, <5>1
      <4>3. CASE Took(n, p) /\ i = 1
        <5>1. m = Msg(p, "CONNECTED", link[p[1]].conn)
          BY <1>8, <3>2, <4>3
        <5>2. m \in ConnOf(p) /\ m.conn = link[p[1]].conn
          BY <1>1, <1>5, <5>1 DEF ConnOf, Msg, Msgs, MsgTypes
        <5> QED BY <1>6, <1>10, <2>1, <4>3, <5>2
      <4> QED BY <4>1, <4>2, <4>3
    <3> QED BY <1>4, <2>0, <3>1, <3>2 DEF TurnParts
  <2>7. ASSUME NEW i \in 1 .. Len(Out(p)'), NEW j \in 1 .. Len(Out(p)'),
               Out(p)'[i].id = p, Out(p)'[i].type = "CONNECT_TO", Out(p)'[j].id = p, Out(p)'[j].type = "CONNECT_TO"
        PROVE  i = j /\ link[p[1]].entry = "none"
    <3>1. CASE \A h \in 1 .. Len(ts) : ts[h] # "CONNECT_TO"
      <4>1. ASSUME NEW h \in 1 .. Len(Out(p)'), Out(p)'[h].type = "CONNECT_TO"
            PROVE  h \in 1 .. Len(Out(p)) /\ Out(p)'[h] = Out(p)[h]
        <5>1. \/ h \in 1 .. Len(Out(p)) /\ Out(p)'[h] = Out(p)[h]
              \/ \E g \in 1 .. Len(x) : h = Len(Out(p)) + g /\ Out(p)'[h] = x[g]
          BY <1>15, <4>1, JoinedElement
        <5>2. \A g \in 1 .. Len(x) : x[g].type # "CONNECT_TO"
          BY <1>15, <3>1
        <5> QED BY <4>1, <5>1, <5>2
      <4> QED BY <2>0, <2>7, <4>1 DEF TurnParts
    <3>2. CASE \E h \in 1 .. Len(ts) : ts[h] = "CONNECT_TO"
      <4>1. ~ Known(p) /\ Len(ts) = 1
        <5>1. ~ NewConn(n, p, r, r1, ts)
          BY <1>10, <3>2
        <5> QED BY <1>6, <3>2, <5>1 DEF SameConn
      <4>2. ASSUME NEW h \in 1 .. Len(Out(p)) PROVE Out(p)[h].id # p
        <5>1. Out(p)[h].id \in DOMAIN main[Owner(p)].peer
          BY <1>0, <1>1, <4>2 DEF TypeInv, IsMain, Out
        <5> QED BY <4>1, <5>1 DEF Known
      <4>3. ASSUME NEW h \in 1 .. Len(Out(p)'), Out(p)'[h].id = p PROVE h = Len(Out(p)) + 1
        <5>1. \/ h \in 1 .. Len(Out(p)) /\ Out(p)'[h] = Out(p)[h]
              \/ \E g \in 1 .. Len(x) : h = Len(Out(p)) + g /\ Out(p)'[h] = x[g]
          BY <1>15, <4>3, JoinedElement
        <5>2. ASSUME NEW g \in 1 .. Len(x), h = Len(Out(p)) + g PROVE h = Len(Out(p)) + 1
          <6>1. g = 1
            BY <1>15, <4>1, <5>2
          <6> QED BY <5>2, <6>1
        <5> QED BY <4>2, <4>3, <5>1, <5>2
      <4>4. p = <<p[1], 0>> /\ p[1] \in Links
        BY <1>1, <1>21, IdFacts
      <4>5. link[p[1]].entry = "none"
        BY <1>0, <4>1, <4>4 DEF FreshInv
      <4> QED BY <2>7, <4>3, <4>5
    <3> QED BY <3>1, <3>2
  <2>8. \A k \in 1 .. MaxConns : InOK(Inq(p)', Announced(p, k), Behind(Record(p)', k))
    BY <1>3, <2>2
  <2>9. /\ InOK(Inq(p)', Turns(p), IsUp(Record(p)'))
        /\ link'[p[1]].entry # "up" => Settled(Inq(p)', Turns(p), IsUp(Record(p)'))
    BY <1>0, <1>3, <2>4, <2>5
  <2>10. \/ Record(p)'.conn = link'[p[1]].conn
         \/ \E i \in 1 .. Len(Inq(p)') : Inq(p)'[i] = Msg(p, "CONNECTED", link'[p[1]].conn)
    BY <1>0, <1>3, <2>6
  <2> QED BY <1>0, <2>7, <2>8, <2>9, <2>10 DEF TurnParts
<1> QED BY <1>20, <1>21

LEMMA MoveLabels ==
  ASSUME SysInv, LabelInv, WaitInv, NEW n, NEW t, NEW p, NEW r1, NEW w, NEW ts,
         MainMove(n, t, p, r1, w, ts), Does(n, p, r1, w, ts)
  PROVE  LabelInv'
<1>1. SysInv /\ AreTypes(ts)
  BY DoesTypes
<1>2. ASSUME NEW q \in Ids PROVE LabelParts(q)' /\ (q[2] = 0 => TurnParts(q)')
  BY <1>1, <1>2, MoveOther, MoveOwn
<1> QED BY <1>2 DEF LabelInv

\* What is handed to q is of a connection that q has been told of, or will be.
LEMMA PassLabel ==
  ASSUME SysInv, LabelInv, NEW v \in Ids, NEW q \in Ids, Linked(v), Far(v) = q, NEW m, m = Out(v)[1],
         Rest(Out(v)', Out(v)), m \in Msgs, m.id = v, m.type \in PeerMsgs
  PROVE  /\ q[1] = v[1] /\ 0 < m.conn /\ m.conn <= link[q[1]].conn
         /\ IF q[2] = 0 THEN m.conn = link[q[1]].conn ELSE m.conn <= q[2]
<1>1. LabelParts(v) /\ TypeInv /\ FreshInv
  BY DEF LabelInv, SysInv
<1>2. 1 \in 1 .. Len(Out(v))
  BY DEF Rest
<1>3. 0 < m.conn /\ m.conn <= Record(v).conn /\ (v[2] # 0 => m.conn = v[2]) /\ Record(v).conn <= link[v[1]].conn
  BY <1>1, <1>2 DEF LabelParts, Within, OutSet, DataOf
<1>4. /\ v[1] \in Links /\ v = <<v[1], v[2]>> /\ link[v[1]].conn \in 0 .. MaxConns /\ m.conn \in 0 .. MaxConns
      /\ Record(v).conn \in 0 .. MaxConns
  BY <1>1, IdFacts, RecordFacts DEF TypeInv, Msgs, PeerSet
<1>5. m.conn <= link[v[1]].conn
  BY <1>3, <1>4
<1>6. CASE v[2] = 0
  <2>1. q = <<v[1], link[v[1]].conn>>
    BY <1>6 DEF Far
  <2> QED BY <1>3, <1>4, <1>5, <2>1
<1>7. CASE v[2] # 0
  <2>1. q = <<v[1], 0>>
    BY <1>7 DEF Far
  <2>2. Far(q) = <<q[1], link[q[1]].conn>>
    BY <2>1 DEF Far
  <2>3. Far(q) = v
    BY DEF Linked
  <2>4. v[2] = link[v[1]].conn
    BY <1>4, <2>1, <2>2, <2>3
  <2> QED BY <1>3, <1>4, <1>5, <1>7, <2>1, <2>4
<1> QED BY <1>6, <1>7

\* The numbers only grow.
LEMMA LinkGrows ==
  ASSUME TypeInv, NEW q \in Ids, LinkStep(q)
  PROVE  link[q[1]].conn <= link'[q[1]].conn /\ link[q[1]].conn \in 0 .. MaxConns
<1>1. link[q[1]].conn \in 0 .. MaxConns
  BY IdFacts DEF TypeInv
<1> QED BY <1>1 DEF LinkStep

LEMMA ChildLabelIn ==
  ASSUME SysInv, LabelInv, NEW n, ChildGood(n), NEW q \in Ids
  PROVE  Within(In(q)', InSet(q, IF q[2] = 0 THEN link'[q[1]].conn ELSE q[2]))
<1>1. TypeInv /\ TypeInv' /\ LabelParts(q) /\ InStep(q) /\ LinkStep(q)
  BY DEF SysInv, LabelInv, ChildGood
<1>2. PICK b : b = IF q[2] = 0 THEN link[q[1]].conn ELSE q[2]
  OBVIOUS
<1>3. PICK c : c = IF q[2] = 0 THEN link'[q[1]].conn ELSE q[2]
  OBVIOUS
<1>4. q[2] \in 0 .. MaxConns /\ link[q[1]].conn <= link'[q[1]].conn /\ link[q[1]].conn \in 0 .. MaxConns
      /\ link'[q[1]].conn \in 0 .. MaxConns
  BY <1>1, IdFacts, LinkGrows DEF TypeInv
<1>5. b <= c /\ b \in Nat /\ c \in Nat
  BY <1>2, <1>3, <1>4
<1>6. Within(In(q), InSet(q, b))
  BY <1>1, <1>2 DEF LabelParts
<1>7. In(q)' \in Seq(Msgs) /\ Len(In(q)') \in Nat
  <2>1. Owner(q) \in Nodes
    BY IdFacts
  <2>2. In(q)' \in Seq(Msgs)
    BY <1>1, <2>1 DEF TypeInv, In, Inq, Waiting
  <2> QED BY <2>2
<1>8. ASSUME NEW i \in 1 .. Len(In(q)') PROVE In(q)'[i] \in InSet(q, c)
  <2>1. PICK e : e = In(q)'[i]
    OBVIOUS
  <2>2. e \in Msgs
    BY <1>7, <2>1
  <2>3. e.conn \in 0 .. MaxConns
    BY <2>2 DEF Msgs
  <2>4. ASSUME NEW j \in 1 .. Len(In(q)), e = In(q)[j] PROVE e \in InSet(q, c)
    <3>1. e \in InSet(q, b)
      BY <1>6, <2>4 DEF Within
    <3> QED BY <1>5, <2>2, <2>3, <3>1 DEF InSet
  <2>5. ASSUME NEW x, NEW j \in 1 .. Len(x), Alien(x, q), e = x[j] PROVE e \in InSet(q, c)
    BY <2>2, <2>5 DEF Alien, InSet, DataOf
  <2>6. CASE QuietIn(q)
    <3>1. CASE In(q)' = In(q)
      BY <1>8, <2>1, <2>4, <3>1
    <3>2. ASSUME NEW x, Joined(In(q)', In(q), x), Alien(x, q) PROVE e \in InSet(q, c)
      <4>1. \/ i \in 1 .. Len(In(q)) /\ In(q)'[i] = In(q)[i]
            \/ \E j \in 1 .. Len(x) : i = Len(In(q)) + j /\ In(q)'[i] = x[j]
        <5>1. PICK V, Q : V = In(q)' /\ Q = In(q)
          OBVIOUS
        <5>2. i \in 1 .. Len(V) /\ Joined(V, Q, x)
          BY <1>8, <3>2, <5>1
        <5>3. \/ i \in 1 .. Len(Q) /\ V[i] = Q[i]
              \/ \E j \in 1 .. Len(x) : i = Len(Q) + j /\ V[i] = x[j]
          BY <5>2, JoinedElement
        <5> QED BY <5>1, <5>3
      <4> QED BY <2>1, <2>4, <2>5, <3>2, <4>1
    <3> QED BY <2>1, <2>6, <3>1, <3>2 DEF QuietIn
  <2>7. CASE AcceptsIn(q)
    <3>1. PICK u : Joined(In(q)', u, In(q)) /\ Alien(u, q)
      BY <2>7 DEF AcceptsIn
    <3>2. \/ i \in 1 .. Len(u) /\ In(q)'[i] = u[i]
          \/ \E j \in 1 .. Len(In(q)) : i = Len(u) + j /\ In(q)'[i] = In(q)[j]
      <4>1. PICK V, Q : V = In(q)' /\ Q = In(q)
        OBVIOUS
      <4>2. i \in 1 .. Len(V) /\ Joined(V, u, Q)
        BY <1>8, <3>1, <4>1
      <4>3. \/ i \in 1 .. Len(u) /\ V[i] = u[i]
            \/ \E j \in 1 .. Len(Q) : i = Len(u) + j /\ V[i] = Q[j]
        BY <4>2, JoinedElement
      <4> QED BY <4>1, <4>3
    <3> QED BY <2>1, <2>4, <2>5, <3>1, <3>2
  <2>8. CASE Len(In(q)') = 0
    BY <1>8, <2>8
  <2>9. CASE \E v \in Ids : Linked(v) /\ Far(v) = q /\ Passes(v, q)
    <3>1. PICK v \in Ids : Linked(v) /\ Far(v) = q /\ Passes(v, q)
      BY <2>9
    <3>2. PICK m : m = Out(v)[1]
      OBVIOUS
    <3>3. Rest(Out(v)', Out(v)) /\ m \in Msgs /\ m.id = v /\ More(In(q)', In(q), Msg(q, m.type, m.conn))
      BY <3>1, <3>2 DEF Passes
    <3>4. (i \in 1 .. Len(In(q)) /\ In(q)'[i] = In(q)[i]) \/ In(q)'[i] = Msg(q, m.type, m.conn)
      BY <1>8, <3>3, MoreElement
    <3>5. ASSUME e = Msg(q, m.type, m.conn) PROVE e \in InSet(q, c)
      <4>1. e.type = m.type /\ e.conn = m.conn
        BY <3>5 DEF Msg
      <4>2. m.type \in PeerMsgs => 0 < m.conn /\ m.conn <= link[q[1]].conn
                                   /\ (IF q[2] = 0 THEN m.conn = link[q[1]].conn ELSE m.conn <= q[2])
        BY <3>1, <3>2, <3>3, PassLabel
      <4>3. m.type \in PeerMsgs => 0 < e.conn /\ e.conn <= c
        BY <1>3, <1>4, <2>3, <4>1, <4>2
      <4> QED BY <2>2, <4>1, <4>3 DEF InSet, DataOf
    <3> QED BY <2>1, <2>4, <3>4, <3>5
  <2> QED BY <1>1, <2>1, <2>6, <2>7, <2>8, <2>9 DEF InStep
<1> QED BY <1>3, <1>8 DEF Within

\* What the main process is told of q, if anything.
LEMMA LinkKinds ==
  ASSUME SysInv, LabelInv, NEW q \in Ids, LinkStep(q), TypeInv'
  PROVE  \/ Unheard(q)
         \/ More(Inq(q)', Inq(q), Msg(q, "CLOSE", 0))
         \/ /\ More(Inq(q)', Inq(q), Msg(q, "CONNECTED", link'[q[1]].conn)) /\ q[2] = 0 /\ Tried(q[1])
            /\ link'[q[1]].conn = link[q[1]].conn + 1 /\ link'[q[1]].entry = "up"
         \/ \E e \in DataOf(q) : /\ More(Inq(q)', Inq(q), e) /\ link'[q[1]] = link[q[1]]
                                 /\ q[2] = 0 => e.conn = link[q[1]].conn
         \/ /\ \E u : More(u, Inq(q), Msg(q, "CONNECTED", q[2])) /\ Joined(Inq(q)', u, backlog[q])
            /\ Unused(q) /\ Waiting(q) /\ q[2] # 0 /\ q[2] <= link[q[1]].conn /\ link'[q[1]] = link[q[1]]
            /\ \A i \in 1 .. Len(backlog[q]) : backlog[q][i].type \in PeerMsgs
<1>1. ASSUME NEW v \in Ids, Linked(v), Far(v) = q, Passes(v, q), Out(v)[1].type \in PeerMsgs,
             In(q) = Inq(q), In(q)' = Inq(q)', link'[q[1]] = link[q[1]]
      PROVE  \E e \in DataOf(q) : /\ More(Inq(q)', Inq(q), e) /\ link'[q[1]] = link[q[1]]
                                  /\ q[2] = 0 => e.conn = link[q[1]].conn
  <2>1. PICK m : m = Out(v)[1]
    OBVIOUS
  <2>2. m \in Msgs /\ m.id = v /\ Rest(Out(v)', Out(v)) /\ More(Inq(q)', Inq(q), Msg(q, m.type, m.conn))
    BY <1>1, <2>1 DEF Passes
  <2>3. q[2] = 0 => m.conn = link[q[1]].conn
    BY <1>1, <2>1, <2>2, PassLabel
  <2>4. Msg(q, m.type, m.conn) \in DataOf(q) /\ Msg(q, m.type, m.conn).conn = m.conn
    BY <1>1, <2>1, <2>2 DEF Msg, DataOf, Msgs
  <2> QED BY <1>1, <2>2, <2>3, <2>4
<1>2. ASSUME Waiting(q)
      PROVE  q[2] # 0 /\ q[2] <= link[q[1]].conn /\ \A i \in 1 .. Len(backlog[q]) : backlog[q][i].type \in PeerMsgs
  <2>1. q[2] # 0
    BY <1>2 DEF SysInv, TypeInv, Waiting
  <2>2. ~ (q[2] > link[q[1]].conn)
    BY <1>2 DEF SysInv, FreshInv
  <2>3. q[2] \in 0 .. MaxConns /\ link[q[1]].conn \in 0 .. MaxConns
    BY IdFacts DEF SysInv, TypeInv
  <2>4. \A i \in 1 .. Len(backlog[q]) : backlog[q][i].type \in PeerMsgs
    BY <1>2 DEF SysInv, PipeInv, Waiting
  <2> QED BY <2>1, <2>2, <2>3, <2>4
<1> QED BY <1>1, <1>2 DEF LinkStep

LEMMA ChildLabelParts ==
  ASSUME SysInv, LabelInv, NEW n, ChildGood(n), NEW q \in Ids
  PROVE  LabelParts(q)'
<1>1. TypeInv /\ TypeInv' /\ FreshInv /\ LabelParts(q) /\ LinkStep(q) /\ ChildMain(n)
  BY DEF SysInv, LabelInv, ChildGood
<1>2. Record(q)' = Record(q) /\ (Known(q)' <=> Known(q)) /\ (Out(q)' = Out(q) \/ Rest(Out(q)', Out(q)))
  BY <1>1, ChildRecord, ChildPeer
<1>3. /\ link[q[1]].conn <= link'[q[1]].conn /\ link[q[1]].conn \in 0 .. MaxConns
      /\ link'[q[1]].conn \in 0 .. MaxConns /\ Record(q).conn \in 0 .. MaxConns /\ Owner(q) \in Nodes
      /\ q[2] \in 0 .. MaxConns
  BY <1>1, IdFacts, LinkGrows, RecordFacts DEF TypeInv, PeerSet
<1>4. Record(q).conn <= link[q[1]].conn
  BY <1>1 DEF LabelParts
<1>5. Within(Out(q)', OutSet(q, Record(q).conn))
  BY <1>1, <1>2, WithinRest DEF LabelParts
<1>6. PICK c : c = link'[q[1]].conn
  OBVIOUS
<1>7. Inq(q)' \in Seq(Msgs) /\ Inq(q) \in Seq(Msgs) /\ Len(Inq(q)) \in Nat
  BY <1>1, <1>3 DEF TypeInv, Inq
<1>8. \/ Unheard(q)
      \/ More(Inq(q)', Inq(q), Msg(q, "CLOSE", 0))
      \/ /\ More(Inq(q)', Inq(q), Msg(q, "CONNECTED", c)) /\ q[2] = 0
         /\ c = link[q[1]].conn + 1
      \/ \E e \in DataOf(q) : More(Inq(q)', Inq(q), e)
      \/ /\ \E u : More(u, Inq(q), Msg(q, "CONNECTED", q[2])) /\ Joined(Inq(q)', u, backlog[q])
         /\ Unused(q) /\ q[2] # 0 /\ q[2] <= c
         /\ \A i \in 1 .. Len(backlog[q]) : backlog[q][i].type \in PeerMsgs
  BY <1>1, <1>3, <1>6, LinkKinds
<1>9. Within(Inq(q)', ConnSet(q, c))
  <2>1. ASSUME NEW i \in 1 .. Len(Inq(q)') PROVE Inq(q)'[i] \in ConnSet(q, c)
    <3>1. PICK e : e = Inq(q)'[i]
      OBVIOUS
    <3>2. e \in Msgs
      BY <1>7, <2>1, <3>1
    <3>3. e.conn \in 0 .. MaxConns
      BY <3>2 DEF Msgs
    <3>4. ASSUME NEW j \in 1 .. Len(Inq(q)), e = Inq(q)[j] PROVE e \in ConnSet(q, c)
      <4>1. e \in ConnSet(q, link[q[1]].conn)
        BY <1>1, <3>4 DEF LabelParts, Within
      <4> QED BY <1>3, <1>6, <3>2, <3>3, <4>1 DEF ConnSet
    <3>5. ASSUME e.id # q \/ e.type # "CONNECTED" PROVE e \in ConnSet(q, c)
      BY <3>2, <3>5 DEF ConnSet, ConnOf
    <3>6. CASE Unheard(q)
      <4>1. CASE Inq(q)' = Inq(q)
        BY <2>1, <3>1, <3>4, <4>1
      <4>2. ASSUME NEW x, Joined(Inq(q)', Inq(q), x), \A j \in 1 .. Len(x) : x[j].id # q
            PROVE  e \in ConnSet(q, c)
        <5>1. \/ i \in 1 .. Len(Inq(q)) /\ Inq(q)'[i] = Inq(q)[i]
              \/ \E j \in 1 .. Len(x) : i = Len(Inq(q)) + j /\ Inq(q)'[i] = x[j]
          BY <2>1, <4>2, JoinedElement
        <5> QED BY <3>1, <3>4, <3>5, <4>2, <5>1
      <4> QED BY <3>1, <3>6, <4>1, <4>2 DEF Unheard
    <3>7. CASE More(Inq(q)', Inq(q), Msg(q, "CLOSE", 0))
      <4>1. (i \in 1 .. Len(Inq(q)) /\ Inq(q)'[i] = Inq(q)[i]) \/ Inq(q)'[i] = Msg(q, "CLOSE", 0)
        BY <2>1, <3>7, MoreElement
      <4>2. Msg(q, "CLOSE", 0).type # "CONNECTED"
        BY DEF Msg
      <4> QED BY <3>1, <3>4, <3>5, <4>1, <4>2
    <3>8. CASE More(Inq(q)', Inq(q), Msg(q, "CONNECTED", c)) /\ q[2] = 0 /\ c = link[q[1]].conn + 1
      <4>1. (i \in 1 .. Len(Inq(q)) /\ Inq(q)'[i] = Inq(q)[i]) \/ Inq(q)'[i] = Msg(q, "CONNECTED", c)
        BY <2>1, <3>8, MoreElement
      <4>2. ASSUME e = Msg(q, "CONNECTED", c) PROVE e \in ConnSet(q, c)
        <5>1. e.conn = c
          BY <4>2 DEF Msg
        <5> QED BY <1>3, <1>6, <3>2, <3>8, <5>1 DEF ConnSet
      <4> QED BY <3>1, <3>4, <4>1, <4>2
    <3>9. ASSUME NEW d \in DataOf(q), More(Inq(q)', Inq(q), d) PROVE e \in ConnSet(q, c)
      <4>1. (i \in 1 .. Len(Inq(q)) /\ Inq(q)'[i] = Inq(q)[i]) \/ Inq(q)'[i] = d
        BY <2>1, <3>9, MoreElement
      <4>2. d.type # "CONNECTED"
        BY <3>9 DEF DataOf, PeerMsgs
      <4> QED BY <3>1, <3>4, <3>5, <4>1, <4>2
    <3>10. ASSUME NEW u, More(u, Inq(q), Msg(q, "CONNECTED", q[2])), Joined(Inq(q)', u, backlog[q]),
                  q[2] # 0, q[2] <= c, \A j \in 1 .. Len(backlog[q]) : backlog[q][j].type \in PeerMsgs
           PROVE  e \in ConnSet(q, c)
      <4>1. \/ i \in 1 .. Len(Inq(q)) /\ Inq(q)'[i] = Inq(q)[i]
            \/ Inq(q)'[i] = Msg(q, "CONNECTED", q[2])
            \/ \E j \in 1 .. Len(backlog[q]) : Inq(q)'[i] = backlog[q][j]
        BY <2>1, <3>10, AcceptElement
      <4>2. ASSUME e = Msg(q, "CONNECTED", q[2]) PROVE e \in ConnSet(q, c)
        <5>1. e.conn = q[2]
          BY <4>2 DEF Msg
        <5> QED BY <1>3, <3>2, <3>10, <5>1 DEF ConnSet
      <4>3. "CONNECTED" \notin PeerMsgs
        BY DEF PeerMsgs
      <4>4. ASSUME NEW j \in 1 .. Len(backlog[q]), e = backlog[q][j] PROVE e \in ConnSet(q, c)
        BY <3>5, <3>10, <4>3, <4>4
      <4> QED BY <3>1, <3>4, <4>1, <4>2, <4>4
    <3> QED BY <1>8, <3>1, <3>6, <3>7, <3>8, <3>9, <3>10
  <2> QED BY <2>1 DEF Within
<1>10. ASSUME NEW k \in 1 .. MaxConns PROVE InOK(Inq(q)', Rising(q, k), Reached(Record(q), k))
  <2>1. InOK(Inq(q), Rising(q, k), Reached(Record(q), k))
    BY <1>1 DEF LabelParts
  <2>2. PICK hot \in BOOLEAN : hot = Reached(Record(q), k)
    BY LabelTypes
  <2>3. PICK R : R = Rising(q, k)
    OBVIOUS
  <2>12. SUFFICES InOK(Inq(q)', R, hot)
    BY <2>2, <2>3
  <2>13. InOK(Inq(q), R, hot)
    BY <2>1, <2>2, <2>3
  <2>4. /\ OwnRule(R, q) /\ R[1] = {m \in ConnOf(q) : m.conn >= k} /\ R[2] = {}
        /\ R[3] = {m \in ConnOf(q) : m.conn <= k} /\ InOK(Inq(q), R, hot)
    <3>1. /\ OwnRule(Rising(q, k), q) /\ Rising(q, k)[1] = {m \in ConnOf(q) : m.conn >= k}
          /\ Rising(q, k)[2] = {} /\ Rising(q, k)[3] = {m \in ConnOf(q) : m.conn <= k}
      <4>1. OwnRule(Rising(q, k), q)
        BY LabelRules
      <4> QED BY <4>1 DEF Rising
    <3> QED BY <2>3, <2>13, <3>1
  <2>5. hot <=> Record(q).conn >= k
    BY <2>2 DEF Reached
  <2>6. ASSUME NEW e, More(Inq(q)', Inq(q), e), e.type # "CONNECTED" PROVE InOK(Inq(q)', R, hot)
    <3>1. e \notin R[3]
      BY <2>4, <2>6 DEF ConnOf
    <3> QED BY <2>4, <2>6, <3>1, AppendIn
  <2>7. CASE Unheard(q)
    BY <2>4, <2>7, UnheardIn
  <2>8. CASE More(Inq(q)', Inq(q), Msg(q, "CLOSE", 0))
    <3>1. Msg(q, "CLOSE", 0).type # "CONNECTED"
      BY DEF Msg
    <3> QED BY <2>6, <2>8, <3>1
  <2>9. CASE More(Inq(q)', Inq(q), Msg(q, "CONNECTED", c)) /\ c = link[q[1]].conn + 1
    <3>1. PICK e : e = Msg(q, "CONNECTED", c)
      OBVIOUS
    <3>2. ASSUME e \in R[3] PROVE Settled(Inq(q), R, hot)
      <4>1. c <= k
        BY <2>4, <3>1, <3>2 DEF Msg
      <4>2. ~ hot
        BY <1>3, <1>4, <1>6, <2>5, <2>9, <4>1
      <4>3. ASSUME NEW i \in 1 .. Len(Inq(q)) PROVE Inq(q)[i] \notin R[1]
        <5>1. Inq(q)[i] \in ConnSet(q, link[q[1]].conn)
          BY <1>1, <4>3 DEF LabelParts, Within
        <5>2. Inq(q)[i] \in ConnOf(q) => Inq(q)[i].conn <= link[q[1]].conn /\ Inq(q)[i].conn \in 0 .. MaxConns
          BY <5>1 DEF ConnSet, Msgs
        <5> QED BY <1>3, <1>6, <2>4, <2>9, <4>1, <5>2
      <4>4. \A i \in 0 .. Len(Inq(q)) : ~ HotAt(Inq(q), R, hot, i)
        BY <4>2, <4>3 DEF HotAt
      <4> QED BY <4>4, SettledElement
    <3> QED BY <2>4, <2>9, <3>1, <3>2, AppendIn
  <2>10. ASSUME NEW e \in DataOf(q), More(Inq(q)', Inq(q), e) PROVE InOK(Inq(q)', R, hot)
    <3>1. e.type # "CONNECTED"
      BY <2>10 DEF DataOf, PeerMsgs
    <3> QED BY <2>6, <2>10, <3>1
  <2>11. ASSUME NEW u, More(u, Inq(q), Msg(q, "CONNECTED", q[2])), Joined(Inq(q)', u, backlog[q]), Unused(q),
                \A j \in 1 .. Len(backlog[q]) : backlog[q][j].type \in PeerMsgs
         PROVE  InOK(Inq(q)', R, hot)
    <3>1. ~ hot
      <4>1. Record(q) = NewPeer
        BY <2>11 DEF Unused, Record
      <4>2. NewPeer.conn = 0
        BY DEF NewPeer
      <4> QED BY <1>10, <2>5, <4>1, <4>2
    <3>2. ASSUME NEW i \in 1 .. Len(Inq(q)'), Inq(q)'[i] \in ConnOf(q) PROVE i = Len(Inq(q)) + 1
      <4>1. \/ i \in 1 .. Len(Inq(q)) /\ Inq(q)'[i] = Inq(q)[i]
            \/ i = Len(Inq(q)) + 1
            \/ \E j \in 1 .. Len(backlog[q]) : Inq(q)'[i] = backlog[q][j]
        <5>1. PICK V : V = Inq(q)'
          OBVIOUS
        <5>2. PICK e : e = Msg(q, "CONNECTED", q[2])
          OBVIOUS
        <5>3. i \in 1 .. Len(V) /\ More(u, Inq(q), e) /\ Joined(V, u, backlog[q])
          BY <2>11, <3>2, <5>1, <5>2
        <5>4. \/ i \in 1 .. Len(Inq(q)) /\ V[i] = Inq(q)[i]
              \/ i = Len(Inq(q)) + 1 /\ V[i] = e
              \/ i > Len(Inq(q)) + 1 /\ \E j \in 1 .. Len(backlog[q]) : V[i] = backlog[q][j]
          BY <5>3, AcceptElement
        <5> QED BY <5>1, <5>4
      <4>2. ASSUME NEW j \in 1 .. Len(Inq(q)) PROVE Inq(q)[j] \notin ConnOf(q)
        BY <2>11, <4>2 DEF Unused, ConnOf
      <4>3. ASSUME NEW j \in 1 .. Len(backlog[q]) PROVE backlog[q][j] \notin ConnOf(q)
        BY <2>11, <4>3 DEF ConnOf, PeerMsgs
      <4> QED BY <3>2, <4>1, <4>2, <4>3
    <3>3. ASSUME NEW i \in 0 .. Len(Inq(q)'), NEW j \in 1 .. Len(Inq(q)'), HotAt(Inq(q)', R, hot, i),
                 Inq(q)'[j] \in R[3], i < j
          PROVE  FALSE
      <4>1. i \in 1 .. Len(Inq(q)') /\ Inq(q)'[i] \in R[1]
        BY <3>1, <3>3 DEF HotAt
      <4>2. Inq(q)'[i] \in ConnOf(q) /\ Inq(q)'[j] \in ConnOf(q)
        BY <2>4, <3>3, <4>1
      <4>3. i = Len(Inq(q)) + 1 /\ j = Len(Inq(q)) + 1
        BY <3>2, <3>3, <4>1, <4>2
      <4> QED BY <1>7, <3>3, <4>3
    <3> QED BY <3>3 DEF InOK
  <2> QED BY <1>8, <2>7, <2>8, <2>9, <2>10, <2>11
<1>11. /\ Known(q)' /\ q[2] # 0 => Record(q)'.conn = q[2]
       /\ Record(q)'.state \in {"INIT", "PENDING"} => Record(q)'.conn = 0
  BY <1>1, <1>2 DEF LabelParts
<1>12. Record(q)'.conn <= link'[q[1]].conn
  BY <1>2, <1>3, <1>4
<1>13. Within(Out(q)', OutSet(q, Record(q)'.conn)) /\ Within(Inq(q)', ConnSet(q, link'[q[1]].conn))
  BY <1>2, <1>5, <1>6, <1>9
<1>14. Within(In(q)', InSet(q, IF q[2] = 0 THEN link'[q[1]].conn ELSE q[2]))
  BY ChildLabelIn
<1>15. \A k \in 1 .. MaxConns : InOK(Inq(q)', Rising(q, k), Reached(Record(q)', k))
  BY <1>2, <1>10
<1> QED BY <1>11, <1>12, <1>13, <1>14, <1>15 DEF LabelParts

\* After an attempt to connect there is no CONNECT_TO for the link, and the last
\* connection was closed.
LEMMA TriedFacts ==
  ASSUME TypeInv, NEW q \in Ids, q[2] = 0, TurnParts(q), Tried(q[1])
  PROVE  /\ link[q[1]].entry # "up"
         /\ Out(q)' = Out(q) \/ Rest(Out(q)', Out(q)) =>
                \A i \in 1 .. Len(Out(q)') : ~ (Out(q)'[i].id = q /\ Out(q)'[i].type = "CONNECT_TO")
<1>1. q = <<q[1], 0>>
  BY IdFacts
<1>2. \A i, j \in 1 .. Len(Out(q)) :
          /\ Out(q)[i].id = q /\ Out(q)[i].type = "CONNECT_TO"
          /\ Out(q)[j].id = q /\ Out(q)[j].type = "CONNECT_TO"
          => i = j /\ link[q[1]].entry = "none"
  BY DEF TurnParts
<1>3. CASE link[q[1]].entry = "wait"
  <2>1. \A i \in 1 .. Len(Out(q)) : ~ (Out(q)[i].id = q /\ Out(q)[i].type = "CONNECT_TO")
    BY <1>2, <1>3
  <2>2. ASSUME Rest(Out(q)', Out(q)), NEW i \in 1 .. Len(Out(q)')
        PROVE  ~ (Out(q)'[i].id = q /\ Out(q)'[i].type = "CONNECT_TO")
    BY <2>1, <2>2, RestElement
  <2> QED BY <1>3, <2>1, <2>2
<1>4. CASE Rest(Out(q)', Out(q)) /\ Out(q)[1].id = q /\ Out(q)[1].type = "CONNECT_TO"
  <2>1. 1 \in 1 .. Len(Out(q))
    BY <1>4 DEF Rest
  <2>2. link[q[1]].entry = "none"
    BY <1>2, <1>4, <2>1
  <2>3. ASSUME NEW i \in 1 .. Len(Out(q)'), Out(q)'[i].id = q, Out(q)'[i].type = "CONNECT_TO"
        PROVE  FALSE
    <3>1. i + 1 \in 1 .. Len(Out(q)) /\ Out(q)'[i] = Out(q)[i + 1]
      BY <1>4, <2>3, RestElement
    <3>2. i + 1 = 1
      BY <1>2, <1>4, <2>1, <2>3, <3>1
    <3> QED BY <2>3, <3>2
  <2>4. Out(q)' # Out(q)
    BY <1>4 DEF Rest
  <2> QED BY <2>2, <2>3
<1> QED BY <1>1, <1>3, <1>4 DEF Tried

LEMMA ChildTurnParts ==
  ASSUME SysInv, LabelInv, NEW n, ChildGood(n), NEW q \in Ids, q[2] = 0
  PROVE  TurnParts(q)'
<1>1. TypeInv /\ TypeInv' /\ FreshInv /\ TurnParts(q) /\ LinkStep(q) /\ ChildMain(n)
  BY DEF SysInv, LabelInv, ChildGood
<1>2. Record(q)' = Record(q) /\ (Out(q)' = Out(q) \/ Rest(Out(q)', Out(q)))
  BY <1>1, ChildRecord, ChildPeer
<1>3. PICK r : r = Record(q)
  OBVIOUS
<1>4. PICK l : l = link[q[1]]
  OBVIOUS
<1>5. PICK l1 : l1 = link'[q[1]]
  OBVIOUS
<1>6. IsUp(r) \in BOOLEAN /\ \A k : Behind(r, k) \in BOOLEAN
  BY LabelTypes
<1>7. ~ Waiting(q)
  BY <1>1 DEF TypeInv, Waiting
<1>8. \/ Unheard(q)
      \/ More(Inq(q)', Inq(q), Msg(q, "CLOSE", 0))
      \/ More(Inq(q)', Inq(q), Msg(q, "CONNECTED", l1.conn)) /\ Tried(q[1]) /\ l1.entry = "up"
      \/ \E e \in DataOf(q) : More(Inq(q)', Inq(q), e) /\ l1 = l /\ e.conn = l.conn
  BY <1>1, <1>4, <1>5, <1>7, LinkKinds
<1>9. /\ InOK(Inq(q), Turns(q), IsUp(r)) /\ (l.entry # "up" => Settled(Inq(q), Turns(q), IsUp(r)))
      /\ r.conn = l.conn \/ \E i \in 1 .. Len(Inq(q)) : Inq(q)[i] = Msg(q, "CONNECTED", l.conn)
      /\ \A k \in 1 .. MaxConns : InOK(Inq(q), Announced(q, k), Behind(r, k))
  BY <1>1, <1>3, <1>4 DEF TurnParts
\* The states of the link.
<1>10. \/ l1 = l
       \/ Tried(q[1]) /\ l.entry # "up" /\ l1.conn = l.conn /\ l1.entry # "up" /\ Unheard(q)
       \/ More(Inq(q)', Inq(q), Msg(q, "CLOSE", 0)) /\ l1.conn = l.conn /\ l1.entry # "up" /\ (l.entry = "up" \/ Tried(q[1]))
       \/ More(Inq(q)', Inq(q), Msg(q, "CONNECTED", l1.conn)) /\ Tried(q[1]) /\ l1.entry = "up"
  BY <1>1, <1>4, <1>5, <1>7, TriedFacts DEF LinkStep
<1>11. Turns(q)[1] = ConnOf(q) /\ Turns(q)[2] = CloseOf(q) /\ Turns(q)[3] = ConnOf(q) /\ OwnRule(Turns(q), q)
  BY LabelRules
<1>12. ASSUME NEW e \in DataOf(q) PROVE e \notin ConnOf(q)
  BY <1>12 DEF DataOf, ConnOf, PeerMsgs
<1>13. Msg(q, "CLOSE", 0) \in CloseOf(q) /\ Msg(q, "CLOSE", 0) \notin ConnOf(q) /\ Msg(q, "CLOSE", 0) \notin DataOf(q)
  BY ConstantsAssumption DEF Msg, CloseOf, ConnOf, DataOf, Msgs, MsgTypes, PeerMsgs
<1>14. Msg(q, "CONNECTED", l1.conn) \notin DataOf(q)
  BY DEF Msg, DataOf, PeerMsgs
<1>15. Tried(q[1]) => Settled(Inq(q), Turns(q), IsUp(r))
  BY <1>1, <1>4, <1>9, TriedFacts
<1>16. InOK(Inq(q)', Turns(q), IsUp(r))
  <2>1. CASE Unheard(q)
    BY <1>6, <1>9, <1>11, <2>1, UnheardIn
  <2>2. ASSUME NEW e, More(Inq(q)', Inq(q), e), e \in ConnOf(q) => Settled(Inq(q), Turns(q), IsUp(r))
        PROVE  InOK(Inq(q)', Turns(q), IsUp(r))
    BY <1>6, <1>9, <1>11, <2>2, AppendIn
  <2> QED BY <1>8, <1>12, <1>13, <1>15, <2>1, <2>2
<1>17. l1.entry # "up" => Settled(Inq(q)', Turns(q), IsUp(r))
  <2>1. CASE Unheard(q) /\ l.entry # "up"
    BY <1>6, <1>9, <1>11, <2>1, UnheardIn
  <2>2. CASE More(Inq(q)', Inq(q), Msg(q, "CLOSE", 0))
    <3>1. Msg(q, "CLOSE", 0) \in Turns(q)[2] /\ Msg(q, "CLOSE", 0) \notin Turns(q)[1]
      BY <1>11, <1>13
    <3> QED BY <1>6, <2>2, <3>1, AppendSettled
  <2>3. ASSUME NEW e \in DataOf(q), More(Inq(q)', Inq(q), e), l.entry # "up" PROVE Settled(Inq(q)', Turns(q), IsUp(r))
    <3>1. e \notin Turns(q)[1]
      BY <1>11, <1>12, <2>3
    <3> QED BY <1>6, <1>9, <2>3, <3>1, AppendSettled
  <2> QED BY <1>8, <1>10, <2>1, <2>2, <2>3
<1>18. ASSUME NEW k \in 1 .. MaxConns PROVE InOK(Inq(q)', Announced(q, k), Behind(r, k))
  <2>1. PICK hot \in BOOLEAN : hot = Behind(r, k)
    BY <1>6
  <2>2. PICK R : R = Announced(q, k)
    OBVIOUS
  <2>3. InOK(Inq(q), R, hot)
    BY <1>9, <2>1, <2>2
  <2>4. OwnRule(R, q) /\ R[1] = {} /\ R[2] = {m \in ConnOf(q) : m.conn = k} /\ R[3] = {m \in DataOf(q) : m.conn = k}
    <3>1. OwnRule(Announced(q, k), q)
      BY LabelRules
    <3> QED BY <2>2, <3>1 DEF Announced
  <2>5. SUFFICES InOK(Inq(q)', R, hot)
    BY <2>1, <2>2
  <2>6. CASE Unheard(q)
    BY <2>3, <2>4, <2>6, UnheardIn
  <2>7. ASSUME NEW e, More(Inq(q)', Inq(q), e), e \notin DataOf(q) PROVE InOK(Inq(q)', R, hot)
    BY <2>3, <2>4, <2>7, KnownIn
  <2>8. ASSUME NEW e \in DataOf(q), More(Inq(q)', Inq(q), e), e.conn = l.conn PROVE InOK(Inq(q)', R, hot)
    <3>1. ASSUME hot, e \in R[3] PROVE \E i \in 1 .. Len(Inq(q)) : Inq(q)[i] \in R[2]
      <4>1. r.conn < k /\ l.conn = k
        BY <2>1, <2>4, <2>8, <3>1 DEF Behind
      <4>2. r.conn \in 0 .. MaxConns
        BY <1>1, <1>3, RecordFacts DEF PeerSet
      <4>3. PICK i \in 1 .. Len(Inq(q)) : Inq(q)[i] = Msg(q, "CONNECTED", k)
        BY <1>9, <4>1, <4>2
      <4>4. Msg(q, "CONNECTED", k) \in ConnOf(q) /\ Msg(q, "CONNECTED", k).conn = k
        BY ConstantsAssumption DEF Msg, ConnOf, Msgs, MsgTypes
      <4> QED BY <2>4, <4>3, <4>4
    <3> QED BY <2>3, <2>4, <2>8, <3>1, KnownIn
  <2> QED BY <1>8, <1>13, <1>14, <2>6, <2>7, <2>8
<1>19. r.conn = l1.conn \/ \E i \in 1 .. Len(Inq(q)') : Inq(q)'[i] = Msg(q, "CONNECTED", l1.conn)
  <2>1. CASE More(Inq(q)', Inq(q), Msg(q, "CONNECTED", l1.conn))
    <3>1. Len(Inq(q)) + 1 \in 1 .. Len(Inq(q)')
      BY <2>1 DEF More
    <3> QED BY <2>1, <3>1 DEF More
  <2>2. CASE l1.conn = l.conn /\ (Unheard(q) \/ \E e : More(Inq(q)', Inq(q), e))
    <3>1. ASSUME NEW i \in 1 .. Len(Inq(q)) PROVE i \in 1 .. Len(Inq(q)') /\ Inq(q)'[i] = Inq(q)[i]
      <4>1. CASE Inq(q)' = Inq(q)
        BY <3>1, <4>1
      <4>2. ASSUME NEW x, Joined(Inq(q)', Inq(q), x) PROVE i \in 1 .. Len(Inq(q)') /\ Inq(q)'[i] = Inq(q)[i]
        BY <3>1, <4>2 DEF Joined
      <4>3. ASSUME NEW e, More(Inq(q)', Inq(q), e) PROVE i \in 1 .. Len(Inq(q)') /\ Inq(q)'[i] = Inq(q)[i]
        BY <3>1, <4>3 DEF More
      <4> QED BY <2>2, <4>1, <4>2, <4>3 DEF Unheard
    <3> QED BY <1>9, <2>2, <3>1
  <2> QED BY <1>8, <1>10, <2>1, <2>2
<1>20. ASSUME NEW i \in 1 .. Len(Out(q)'), NEW j \in 1 .. Len(Out(q)'),
              Out(q)'[i].id = q, Out(q)'[i].type = "CONNECT_TO", Out(q)'[j].id = q, Out(q)'[j].type = "CONNECT_TO"
       PROVE  i = j /\ l1.entry = "none"
  <2>1. PICK a \in 1 .. Len(Out(q)), b \in 1 .. Len(Out(q)) :
            Out(q)'[i] = Out(q)[a] /\ Out(q)'[j] = Out(q)[b] /\ (a = b => i = j)
    <3>1. CASE Out(q)' = Out(q)
      BY <1>20, <3>1
    <3>2. CASE Rest(Out(q)', Out(q))
      <4>1. i + 1 \in 1 .. Len(Out(q)) /\ Out(q)'[i] = Out(q)[i + 1]
        BY <1>20, <3>2, RestElement
      <4>2. j + 1 \in 1 .. Len(Out(q)) /\ Out(q)'[j] = Out(q)[j + 1]
        BY <1>20, <3>2, RestElement
      <4>3. i + 1 = j + 1 => i = j
        BY <1>20
      <4> QED BY <4>1, <4>2, <4>3
    <3> QED BY <1>2, <3>1, <3>2
  <2>2. i = j /\ l.entry = "none"
    BY <1>1, <1>4, <1>20, <2>1 DEF TurnParts
  <2>3. ~ Tried(q[1])
    BY <1>1, <1>2, <1>20, TriedFacts
  <2> QED BY <1>10, <2>2, <2>3
<1>21. \A k \in 1 .. MaxConns : InOK(Inq(q)', Announced(q, k), Behind(Record(q)', k))
  BY <1>2, <1>3, <1>18
<1>22. /\ InOK(Inq(q)', Turns(q), IsUp(Record(q)'))
       /\ link'[q[1]].entry # "up" => Settled(Inq(q)', Turns(q), IsUp(Record(q)'))
  BY <1>2, <1>3, <1>5, <1>16, <1>17
<1>23. \/ Record(q)'.conn = link'[q[1]].conn
       \/ \E i \in 1 .. Len(Inq(q)') : Inq(q)'[i] = Msg(q, "CONNECTED", link'[q[1]].conn)
  BY <1>2, <1>3, <1>5, <1>19
<1> QED BY <1>5, <1>20, <1>21, <1>22, <1>23 DEF TurnParts

LEMMA ChildLabels ==
  ASSUME SysInv, LabelInv, NEW n, ChildGood(n)
  PROVE  LabelInv'
<1>1. ASSUME NEW q \in Ids PROVE LabelParts(q)' /\ (q[2] = 0 => TurnParts(q)')
  BY <1>1, ChildLabelParts, ChildTurnParts
<1> QED BY <1>1 DEF LabelInv

\* Who waits has been connected, and goes on having been.
LEMMA MoveWait ==
  ASSUME SysInv, LabelInv, WaitInv, NEW n, NEW t, NEW p, NEW r1, NEW w, NEW ts,
         MainMove(n, t, p, r1, w, ts), Does(n, p, r1, w, ts)
  PROVE  WaitInv'
<1>1. SysInv /\ TypeInv /\ p \in Ids /\ Owner(p) = n /\ n \in Nodes
  BY MoveRecord DEF SysInv
<1>2. PICK r : r = Record(p)
  OBVIOUS
<1>3. r \in PeerSet /\ r.conn \in Nat
  BY <1>1, <1>2, RecordFacts DEF PeerSet
<1>4. r.conn # 0 => r1.conn # 0
  <2>1. NewConn(n, p, r, r1, ts) \/ SameConn(n, p, r, r1, ts)
    BY <1>2, ConnStep
  <2>2. CASE NewConn(n, p, r, r1, ts)
    <3>1. PICK m : m = inq[n][1]
      OBVIOUS
    <3>2. r.conn < m.conn /\ r1 = Fresh(p, r, m.conn) /\ m \in ConnOf(p)
      BY <2>2, <3>1 DEF NewConn
    <3>3. m.conn \in Nat
      BY <3>2 DEF ConnOf, Msgs
    <3>4. r1.conn = m.conn
      BY <1>3, <3>2 DEF Fresh, PeerSet
    <3> QED BY <1>3, <3>2, <3>3, <3>4
  <2> QED BY <2>1, <2>2 DEF SameConn
<1>5. SUFFICES ASSUME NEW q \in Ids, InPending(main[Owner(q)], q)' PROVE (Record(q).conn # 0)'
  BY DEF WaitInv
<1>6. Record(q)' = IF q = p THEN r1 ELSE Record(q)
  BY <1>1, MoveRecordOf
<1>7. PICK i \in 1 .. Len(main'[Owner(q)].sync_pending) : main'[Owner(q)].sync_pending[i] = q
  BY <1>5 DEF InPending
<1>8. CASE InPending(main[Owner(q)], q)
  <2>1. Record(q).conn # 0
    BY <1>8 DEF WaitInv
  <2> QED BY <1>2, <1>4, <1>6, <2>1
<1>9. CASE ~ InPending(main[Owner(q)], q)
  <2>1. Owner(q) = n /\ main'[n].sync_pending = w
    <3>1. main' = [main EXCEPT ![n] = t] /\ t.sync_pending = w
      BY DEF MainMove, Effect
    <3>2. main'[n] = t /\ \A k \in Nodes : k # n => main'[k] = main[k]
      BY <1>1, <3>1 DEF TypeInv
    <3>3. Owner(q) \in Nodes
      BY IdFacts
    <3> QED BY <1>7, <1>9, <3>1, <3>2, <3>3 DEF InPending
  <2>2. ~ \E j \in 1 .. Len(main[n].sync_pending) : w[i] = main[n].sync_pending[j]
    BY <1>7, <1>9, <2>1 DEF InPending
  <2>3. w[i] = p /\ q = p /\ i \in 1 .. Len(w)
    BY <1>7, <2>1, <2>2, WhoWaits
  <2>4. Takes(n, p, r1, w, ts) /\ inq[n][1].type \in {"VERSION", "PHASE_DONE"} /\ Known(p)
    <3>1. w # main[n].sync_pending /\ ~ Rest(w, main[n].sync_pending)
      BY <2>2, <2>3, RestElement
    <3> QED BY <3>1 DEF Does, Connects, Disconnects, Resumes, Takes, Waits
  <2>5. Took(n, p) /\ inq[n][1] \in DataOf(p)
    BY <2>4 DEF Takes, DataOf, PeerMsgs
  <2>6. r.conn # 0
    BY <1>1, <1>2, <2>4, <2>5, Abreast
  <2> QED BY <1>4, <1>6, <2>3, <2>6
<1> QED BY <1>8, <1>9

LEMMA ChildWait ==
  ASSUME SysInv, WaitInv, NEW n, ChildGood(n)
  PROVE  WaitInv'
<1>1. SUFFICES ASSUME NEW q \in Ids, InPending(main[Owner(q)], q)' PROVE (Record(q).conn # 0)'
  BY DEF WaitInv
<1>2. ChildMain(n) /\ TypeInv /\ Owner(q) \in Nodes
  BY IdFacts DEF ChildGood, SysInv
<1>3. Record(q)' = Record(q)
  BY <1>2, ChildRecord
<1>4. main'[Owner(q)].sync_pending = main[Owner(q)].sync_pending
  BY <1>2, ChildState
<1>5. InPending(main[Owner(q)], q)
  BY <1>1, <1>4 DEF InPending
<1> QED BY <1>3, <1>5 DEF WaitInv

-----------------------------------------------------------------------------
(* The order of the messages on a connection that is not mixed up.         *)

LEMMA SendsOrGets ==
  ASSUME cf \in Configs, NEW p \in Ids, NEW k \in 0 .. MaxConns
  PROVE  /\ ~ (Sends(p, k) /\ Gets(p, k)) /\ (Gets(p, k) => Wants(p)) /\ (Sends(p, k) => Asked(p))
         /\ (Wants(p) \/ Asked(p)) /\ ~ (Auth(p) /\ AskedAuth(p)) => Sends(p, k) \/ Gets(p, k)
         /\ Sends(p, k) \in BOOLEAN /\ Gets(p, k) \in BOOLEAN
<1>1. (Auth(p) => Wants(p)) /\ (AskedAuth(p) => Asked(p))
  BY AuthWants
<1>2. PICK a \in Nat : a = OurTime(p, k)
  BY TimeType
<1>3. PICK b \in Nat : b = TheirTime(p, k)
  BY TimeType
<1> QED BY <1>1, <1>2, <1>3 DEF Sends, Gets, Wants, Asked, Auth, AskedAuth

\* What SendState says, when it has both requests.
LEMMA DecidesSends ==
  ASSUME cf \in Configs, NEW p \in Ids, NEW k \in 0 .. MaxConns, NEW r, r.sync_requested = Full(p),
         r.our_runtime = OurTime(p, k), r.runtime = TheirTime(p, k), Full(p) # {}, ~ (Auth(p) /\ AskedAuth(p))
  PROVE  /\ SendState(r, p) <=> Sends(p, k)
         /\ ~ SendState(r, p) => Gets(p, k)
<1>1. (Auth(p) => Wants(p)) /\ (AskedAuth(p) => Asked(p)) /\ (Wants(p) \/ Asked(p))
  BY AuthWants, FullEmpty
<1>2. SendState(r, p) =
          IF ~ (Wants(p) /\ Asked(p)) THEN Asked(p)
          ELSE IF Auth(p) THEN TRUE
          ELSE IF AskedAuth(p) THEN FALSE
          ELSE IF OurTime(p, k) = TheirTime(p, k) THEN p[2] = 0
          ELSE OurTime(p, k) > TheirTime(p, k)
  BY SendValue
<1>3. SendState(r, p) <=> Sends(p, k)
  BY <1>1, <1>2 DEF Sends
<1> QED BY <1>1, <1>3, SendsOrGets

LEMMA MateGets ==
  ASSUME NEW q, NEW p, NEW k, Mates(q, p, k), TypeInv
  PROVE  /\ Gets(p, k) = Sends(q, k) /\ q # p /\ q \in Ids /\ p \in Ids /\ k \in 1 .. MaxConns /\ q[1] = p[1]
         /\ Wants(q) = Asked(p) /\ k \in 0 .. MaxConns /\ cf \in Configs
<1>1. /\ q \in Ids /\ p \in Ids /\ k \in 1 .. MaxConns /\ q[1] = p[1] /\ k # 0 /\ k \in 0 .. MaxConns
      /\ (q[2] = 0 /\ p[2] = k) \/ (q[2] = k /\ p[2] = 0)
  BY ConstantsAssumption DEF Mates
<1>2. Owner(q) = Other(p) /\ Other(q) = Owner(p) /\ (q[2] = 0 <=> p[2] # 0)
  BY <1>1 DEF Owner, Other
<1>3. /\ Wants(q) = Asked(p) /\ Asked(q) = Wants(p) /\ Auth(q) = AskedAuth(p) /\ AskedAuth(q) = Auth(p)
      /\ OurTime(q, k) = TheirTime(p, k) /\ TheirTime(q, k) = OurTime(p, k)
  BY <1>1, <1>2 DEF Wants, Asked, Auth, AskedAuth, OurTime, TheirTime
<1>4. cf \in Configs
  BY DEF TypeInv
<1>5. PICK a \in Nat : a = OurTime(p, k)
  BY <1>1, <1>4, TimeType
<1>6. PICK b \in Nat : b = TheirTime(p, k)
  BY <1>1, <1>4, TimeType
<1>7. Gets(p, k) <=> Sends(q, k)
  BY <1>2, <1>3, <1>5, <1>6 DEF Sends, Gets
<1>8. Gets(p, k) \in BOOLEAN /\ Sends(q, k) \in BOOLEAN
  BY <1>1, <1>4, SendsOrGets
<1> QED BY <1>1, <1>2, <1>3, <1>4, <1>7, <1>8

LEMMA OrderTypes ==
  ASSUME NEW b, NEW r \in PeerSet, NEW k
  PROVE  /\ HelloHot(r, k) \in BOOLEAN /\ HelloDue(r, k) \in BOOLEAN /\ OnceHot(r, k) \in BOOLEAN
         /\ OnceDue(r, k) \in BOOLEAN /\ SyncHot(r, k) \in BOOLEAN /\ SyncDue(r, k) \in BOOLEAN
         /\ StateHot(b, r, k) \in BOOLEAN /\ StateDue(b, r, k) \in BOOLEAN
         /\ AskHot(r, k) \in BOOLEAN /\ AskDue(r, k) \in BOOLEAN
BY DEF HelloHot, HelloDue, OnceHot, OnceDue, SyncHot, SyncDue, StateHot, StateDue, AskHot, AskDue

LEMMA OrderRules ==
  ASSUME NEW k \in 1 .. MaxConns
  PROVE  /\ HelloRule(k) \in RuleSet /\ OnceRule(k) \in RuleSet /\ SyncRule(k) \in RuleSet /\ StateRule(k) \in RuleSet
         /\ HelloRule(k).k = {k} /\ OnceRule(k).k = {k} /\ SyncRule(k).k = {k} /\ StateRule(k).k = {k}
         /\ HelloRule(k).a = {} /\ HelloRule(k).b = {"VERSION"} /\ HelloRule(k).z = PeerMsgs \ {"VERSION"}
         /\ OnceRule(k).a = {"VERSION"} /\ OnceRule(k).b = {} /\ OnceRule(k).z = {"VERSION"}
         /\ SyncRule(k).a = {"PHASE_DONE"} /\ SyncRule(k).b = {"SERIAL"} /\ SyncRule(k).z = {"PHASE_DONE"}
         /\ StateRule(k).a = {"SERIAL"} /\ StateRule(k).b = {} /\ StateRule(k).z = {"SERIAL"}
         /\ AskRule(k) \in RuleSet /\ AskRule(k).k = {k}
         /\ AskRule(k).a = {"VERSION"} /\ AskRule(k).b = Requests /\ AskRule(k).z = {"PHASE_DONE"}
BY ConstantsAssumption DEF HelloRule, OnceRule, SyncRule, StateRule, AskRule, RuleSet, PeerMsgs, Requests

\* A step of the main process.
LEMMA MoveOrder ==
  ASSUME SysInv, NEW n, NEW t, NEW x, NEW r1, NEW w, NEW ts, AreTypes(ts), MainMove(n, t, x, r1, w, ts),
         NEW q, NEW p, NEW k, Mates(q, p, k), NEW g \in RuleSet, NEW hot \in BOOLEAN, NEW due \in BOOLEAN,
         NEW hot1 \in BOOLEAN, NEW due1 \in BOOLEAN, OrderOK(g, q, p, k, hot, due),
         IF p = x THEN Warms(g, n, x, hot, hot1) ELSE hot1 = hot,
         IF q = x THEN Follows(g, r1.conn, ts, due, due1) ELSE due1 = due
  PROVE  OrderAfter(g, q, p, k, hot1, due1)
<1>1. TypeInv /\ q \in Ids /\ p \in Ids /\ p # q /\ r1.conn \in 0 .. MaxConns
  BY MateGets, MoveRecord DEF SysInv
<1>2. Joint(q[1], k)' => Joint(q[1], k)
  BY DEF MainMove, Joint
<1>3. OutOK(Out(q)', Sets(g, q), due1)
  BY <1>1, MainOut DEF OrderOK
<1>4. InOK(In(p)', Sets(g, p), hot1)
  BY <1>1, MainIn DEF OrderOK
<1>5. ASSUME Joint(q[1], k) PROVE CrossOK(In(p)', Sets(g, p), hot1, Out(q)', Sets(g, q), due1)
  <2>1. CrossOK(In(p), Sets(g, p), hot, Out(q), Sets(g, q), due)
    BY <1>5 DEF OrderOK
  <2> QED BY <1>1, <2>1, MainCross
<1> QED BY <1>2, <1>3, <1>4, <1>5 DEF OrderAfter

\* Where a rule for connection k says nothing of the messages.
LEMMA LabelForeign ==
  ASSUME NEW g \in RuleSet, NEW k, g.k = {k}, NEW q, NEW m, m \in DataOf(q) => m.conn # k
  PROVE  m \notin Sets(g, q)[1] /\ m \notin Sets(g, q)[2] /\ m \notin Sets(g, q)[3]
<1>1. ASSUME NEW a \in SUBSET PeerMsgs, m \in Kind(q, a, {k}) PROVE FALSE
  BY <1>1 DEF Kind, DataOf
<1>2. g.a \in SUBSET PeerMsgs /\ g.b \in SUBSET PeerMsgs /\ g.z \in SUBSET PeerMsgs
  BY DEF RuleSet
<1> QED BY <1>1, <1>2, SetsFacts

\* The pipe of a peer that is not at connection k.
LEMMA OutForeign ==
  ASSUME TypeInv, LabelInv, NEW q \in Ids, NEW k \in 1 .. MaxConns, Record(q).conn < k \/ q[2] \notin {0, k},
         NEW g \in RuleSet, g.k = {k}, NEW i \in 1 .. Len(Out(q))
  PROVE  Out(q)[i] \notin Sets(g, q)[1] /\ Out(q)[i] \notin Sets(g, q)[2] /\ Out(q)[i] \notin Sets(g, q)[3]
<1>1. Out(q)[i] \in OutSet(q, Record(q).conn)
  BY DEF LabelInv, LabelParts, Within
<1>2. PICK m : m = Out(q)[i]
  OBVIOUS
<1>3. Record(q).conn \in 0 .. MaxConns
  BY RecordFacts DEF PeerSet
<1>4. m \in DataOf(q) => m.conn <= Record(q).conn /\ (q[2] # 0 => m.conn = q[2]) /\ m.conn \in 0 .. MaxConns
  BY <1>1, <1>2 DEF OutSet, Msgs
<1>5. m \in DataOf(q) => m.conn # k
  BY <1>3, <1>4
<1> QED BY <1>2, <1>5, LabelForeign

\* Who else may send to p is not at connection k.
LEMMA MateOrNot ==
  ASSUME TypeInv, FreshInv, NEW q, NEW p, NEW k, Mates(q, p, k), NEW v \in Ids, Linked(v), Far(v) = p
  PROVE  (v = q /\ Joint(q[1], k)) \/ v[2] \notin {0, k}
<1>1. /\ q \in Ids /\ p \in Ids /\ q[1] = p[1] /\ k # 0
      /\ (q[2] = 0 /\ p[2] = k) \/ (q[2] = k /\ p[2] = 0)
  BY ConstantsAssumption DEF Mates
<1>2. q = <<q[1], q[2]>> /\ p = <<p[1], p[2]>> /\ v = <<v[1], v[2]>>
  BY <1>1, IdFacts
<1>3. Open(v) /\ Far(p) = v /\ (Open(p) \/ Waiting(p))
  BY DEF Linked
<1>4. CASE v[2] = 0
  <2>1. p = <<v[1], link[v[1]].conn>> /\ link[v[1]].entry = "up"
    BY <1>3, <1>4 DEF Far, Open
  <2>2. link[v[1]].conn # 0
    BY <2>1, IdFacts DEF FreshInv
  <2>3. p[2] = k /\ v[1] = q[1] /\ q[2] = 0 /\ link[q[1]].conn = k /\ p = <<q[1], k>>
    BY <1>1, <1>2, <2>1, <2>2
  <2>4. p \in acc \/ p \in DOMAIN backlog
    BY <1>1, <1>3, <2>3 DEF Open, Waiting
  <2> QED BY <1>2, <1>4, <2>1, <2>3, <2>4 DEF Joint
<1>5. CASE v[2] # 0 /\ v[2] = k
  <2>1. p = <<v[1], 0>>
    BY <1>5 DEF Far
  <2>2. q[2] = k /\ q[1] = v[1] /\ p[2] = 0
    BY <1>1, <1>2, <2>1
  <2>3. v = q
    BY <1>2, <1>5, <2>2
  <2>4. ~ Waiting(p)
    BY <2>2 DEF TypeInv, Waiting
  <2>5. link[q[1]].entry = "up"
    BY <1>1, <1>3, <2>2, <2>4 DEF Open
  <2>6. link[q[1]].conn = k
    BY <1>1, <1>2, <1>3, <1>5, <2>2 DEF Far
  <2>7. <<q[1], k>> \in acc
    BY <1>2, <1>3, <1>5, <2>2, <2>3 DEF Open
  <2> QED BY <2>3, <2>5, <2>6, <2>7 DEF Joint
<1> QED BY <1>4, <1>5

LEMMA ChildOrder ==
  ASSUME SysInv, LabelInv, NEW n, ChildGood(n), NEW q, NEW p, NEW k, Mates(q, p, k),
         NEW g \in RuleSet, g.k = {k}, NEW hot \in BOOLEAN, NEW due \in BOOLEAN, OrderOK(g, q, p, k, hot, due),
         link[q[1]].conn < k => ~ (hot /\ due)
  PROVE  OrderAfter(g, q, p, k, hot, due)
<1>1. /\ TypeInv /\ FreshInv /\ TypeInv' /\ q \in Ids /\ p \in Ids /\ p # q /\ k \in 1 .. MaxConns /\ q[1] = p[1]
      /\ ChildMain(n) /\ InStep(p)
  BY MateGets DEF SysInv, ChildGood
<1>2. OutOK(Out(q), Sets(g, q), due) /\ InOK(In(p), Sets(g, p), hot)
  BY DEF OrderOK
<1>3. Out(q)' = Out(q) \/ Rest(Out(q)', Out(q))
  BY <1>1, ChildPeer
<1>4. OutOK(Out(q)', Sets(g, q), due)
  <2>1. CASE Rest(Out(q)', Out(q))
    BY <1>2, <2>1, LeaveOut
  <2> QED BY <1>2, <1>3, <2>1
<1>5. InOK(In(p)', Sets(g, p), hot)
  <2>1. ASSUME NEW v \in Ids, Linked(v), Far(v) = p
        PROVE  \E d \in BOOLEAN : CrossOK(In(p), Sets(g, p), hot, Out(v), Sets(g, v), d)
    <3>1. CASE v = q /\ Joint(q[1], k)
      <4>1. CrossOK(In(p), Sets(g, p), hot, Out(v), Sets(g, v), due)
        BY <3>1 DEF OrderOK
      <4> QED BY <4>1
    <3>2. CASE v[2] \notin {0, k}
      <4>1. PICK d \in BOOLEAN : d = FALSE
        OBVIOUS
      <4>2. ASSUME NEW j \in 1 .. Len(Out(v)) PROVE Out(v)[j] \notin Sets(g, v)[3]
        BY <1>1, <2>1, <3>2, <4>2, OutForeign
      <4>3. \A j : ~ DueAt(Out(v), Sets(g, v), d, j)
        BY <4>1, <4>2 DEF DueAt
      <4>4. CrossOK(In(p), Sets(g, p), hot, Out(v), Sets(g, v), d)
        BY <4>3 DEF CrossOK
      <4> QED BY <4>4
    <3> QED BY <1>1, <2>1, <3>1, <3>2, MateOrNot
  <2> QED BY <1>1, <1>2, <2>1, ChildIn
<1>6. ASSUME Joint(q[1], k)' PROVE CrossOK(In(p)', Sets(g, p), hot, Out(q)', Sets(g, q), due)
  <2>1. JointStep(q, p, k)
    BY <1>6 DEF ChildGood
  <2>2. CASE Joint(q[1], k) /\ (QuietIn(p) \/ AcceptsIn(p)) /\ QuietOut(q)
    <3>1. CrossOK(In(p), Sets(g, p), hot, Out(q), Sets(g, q), due)
      BY <2>2 DEF OrderOK
    <3> QED BY <1>1, <2>2, <3>1, QuietCross
  <2>3. CASE Joint(q[1], k) /\ Passes(q, p)
    <3>1. CrossOK(In(p), Sets(g, p), hot, Out(q), Sets(g, q), due)
      BY <2>3 DEF OrderOK
    <3>2. PICK m : m = Out(q)[1]
      OBVIOUS
    <3>3. PICK e : e = Msg(p, m.type, m.conn)
      OBVIOUS
    <3>4. m \in Msgs /\ m.id = q /\ More(In(p)', In(p), e) /\ Rest(Out(q)', Out(q))
      BY <2>3, <3>2, <3>3 DEF Passes
    <3>5. (e \in Sets(g, p)[1] => m \in Sets(g, q)[1]) /\ (m \in Sets(g, q)[2] => e \in Sets(g, p)[2])
      BY <1>1, <3>3, <3>4, PassKinds
    <3> QED BY <1>2, <3>1, <3>2, <3>4, <3>5, ForwardCross
  <2>4. CASE link[q[1]].conn < k /\ (QuietIn(p) \/ Len(In(p)') = 0)
    <3>1. ~ (hot /\ due)
      BY <2>4
    <3>2. Record(q).conn < k
      <4>1. Record(q).conn <= link[q[1]].conn
        BY <1>1 DEF LabelInv, LabelParts
      <4>2. Record(q).conn \in 0 .. MaxConns /\ link[q[1]].conn \in 0 .. MaxConns
        BY <1>1, IdFacts, RecordFacts DEF TypeInv, PeerSet
      <4> QED BY <1>1, <2>4, <4>1, <4>2
    <3>3. ASSUME NEW j \in 1 .. Len(Out(q)') PROVE Out(q)'[j] \notin Sets(g, q)[3]
      <4>1. \A i \in 1 .. Len(Out(q)) : Out(q)[i] \notin Sets(g, q)[3]
        BY <1>1, <3>2, OutForeign
      <4> QED BY <1>3, <3>3, <4>1, RestElement
    <3>4. ASSUME NEW i \in 1 .. Len(In(p)') PROVE In(p)'[i] \notin Sets(g, p)[1]
      <4>1. ASSUME NEW j \in 1 .. Len(In(p)) PROVE In(p)[j] \notin Sets(g, p)[1]
        <5>1. In(p)[j] \in InSet(p, IF p[2] = 0 THEN link[p[1]].conn ELSE p[2])
          BY <1>1, <4>1 DEF LabelInv, LabelParts, Within
        <5>2. CASE p[2] = 0
          <6>1. link[p[1]].conn \in 0 .. MaxConns
            BY <1>1, IdFacts DEF TypeInv
          <6>2. In(p)[j] \in DataOf(p) => In(p)[j].conn <= link[p[1]].conn /\ In(p)[j].conn \in 0 .. MaxConns
            BY <5>1, <5>2 DEF InSet, Msgs
          <6>3. In(p)[j] \in DataOf(p) => In(p)[j].conn # k
            BY <1>1, <2>4, <6>1, <6>2
          <6> QED BY <6>3, LabelForeign
        <5>3. CASE p[2] # 0
          <6>1. p[2] = k /\ k # 0
            BY <1>1, <5>3, ConstantsAssumption DEF Mates
          <6>2. p[2] > link[p[1]].conn
            BY <1>1, <2>4, <6>1, IdFacts DEF TypeInv
          <6>3. Unused(p) /\ ~ Waiting(p)
            BY <1>1, <6>2 DEF FreshInv
          <6>4. In(p)[j].id # p
            BY <4>1, <6>3 DEF Unused, In
          <6> QED BY <6>4, ForeignFacts
        <5> QED BY <5>2, <5>3
      <4>2. CASE In(p)' = In(p)
        BY <3>4, <4>1, <4>2
      <4>3. ASSUME NEW x, Joined(In(p)', In(p), x), Alien(x, p) PROVE In(p)'[i] \notin Sets(g, p)[1]
        <5>1. \/ i \in 1 .. Len(In(p)) /\ In(p)'[i] = In(p)[i]
              \/ \E j \in 1 .. Len(x) : i = Len(In(p)) + j /\ In(p)'[i] = x[j]
          BY <3>4, <4>3, JoinedElement
        <5>2. \A j \in 1 .. Len(x) : x[j] \notin Sets(g, p)[1]
          BY <4>3, AlienForeign
        <5> QED BY <4>1, <5>1, <5>2
      <4> QED BY <2>4, <3>4, <4>2, <4>3 DEF QuietIn
    <3>5. ASSUME NEW i, NEW j, HotAt(In(p)', Sets(g, p), hot, i), DueAt(Out(q)', Sets(g, q), due, j) PROVE FALSE
      <4>1. hot
        BY <3>4, <3>5 DEF HotAt
      <4>2. due
        BY <3>3, <3>5 DEF DueAt
      <4> QED BY <3>1, <4>1, <4>2
    <3> QED BY <3>5 DEF CrossOK
  <2> QED BY <2>1, <2>2, <2>3, <2>4 DEF JointStep
<1> QED BY <1>4, <1>5, <1>6 DEF OrderAfter

\* The configuration stays.
LEMMA SameSides ==
  ASSUME cf' = cf, NEW p, NEW k
  PROVE  Sends(p, k)' = Sends(p, k) /\ Gets(p, k)' = Gets(p, k) /\ Wants(p)' = Wants(p)
BY DEF Sends, Gets, Wants, Asked, Auth, AskedAuth, OurTime, TheirTime, RunTime

\* The parts of the order after a step.
LEMMA OrderNext ==
  ASSUME NEW q, NEW p, NEW k, NEW rq, NEW rp, Record(q)' = rq, Record(p)' = rp, cf' = cf,
         OrderAfter(HelloRule(k), q, p, k, HelloHot(rp, k), HelloDue(rq, k)),
         OrderAfter(OnceRule(k), q, p, k, OnceHot(rp, k), OnceDue(rq, k)),
         OrderAfter(SyncRule(k), q, p, k, SyncHot(rp, k), SyncDue(rq, k)),
         OrderAfter(StateRule(k), q, p, k, StateHot(Gets(p, k), rp, k), StateDue(Sends(q, k), rq, k)),
         Wants(q) => OrderAfter(AskRule(k), q, p, k, AskHot(rp, k), AskDue(rq, k))
  PROVE  Ordered(q, p, k)'
<1>1. Gets(p, k)' = Gets(p, k) /\ Sends(q, k)' = Sends(q, k) /\ Wants(q)' = Wants(q)
  BY SameSides
<1> QED BY <1>1 DEF Ordered, OrderOK, OrderAfter

\* A step of a child.
LEMMA ChildOrdered ==
  ASSUME SysInv, LabelInv, NEW n, ChildGood(n), NEW q, NEW p, NEW k, Mates(q, p, k), Ordered(q, p, k)
  PROVE  Ordered(q, p, k)'
<1>1. /\ TypeInv /\ q \in Ids /\ p \in Ids /\ k \in 1 .. MaxConns /\ q[1] = p[1] /\ ChildMain(n) /\ cf' = cf
      /\ Gets(p, k) = Sends(q, k)
  BY MateGets DEF SysInv, ChildGood, ChildMain
<1>2. Record(q)' = Record(q) /\ Record(p)' = Record(p)
  BY <1>1, ChildRecord
<1>3. PICK rq : rq = Record(q)
  OBVIOUS
<1>4. PICK rp : rp = Record(p)
  OBVIOUS
<1>5. rq \in PeerSet /\ rp \in PeerSet
  BY <1>1, <1>3, <1>4, RecordFacts
<1>6. link[q[1]].conn < k => rq.conn < k /\ rp.conn < k
  <2>1. rq.conn <= link[q[1]].conn /\ rp.conn <= link[q[1]].conn
    BY <1>1, <1>3, <1>4 DEF LabelInv, LabelParts
  <2>2. rq.conn \in 0 .. MaxConns /\ rp.conn \in 0 .. MaxConns /\ link[q[1]].conn \in 0 .. MaxConns
    BY <1>1, <1>5, IdFacts DEF TypeInv, PeerSet
  <2> QED BY <1>1, <2>1, <2>2
<1>7. rq.conn \in Nat /\ rp.conn \in Nat /\ k \in Nat
  BY <1>1, <1>5, ConstantsAssumption DEF PeerSet
<1>8. OrderAfter(HelloRule(k), q, p, k, HelloHot(rp, k), HelloDue(rq, k))
  <2>1. PICK hot \in BOOLEAN : hot = HelloHot(rp, k)
    BY <1>5, OrderTypes
  <2>2. PICK due \in BOOLEAN : due = HelloDue(rq, k)
    BY <1>5, OrderTypes
  <2>3. OrderOK(HelloRule(k), q, p, k, hot, due)
    BY <1>3, <1>4, <2>1, <2>2 DEF Ordered
  <2>4. link[q[1]].conn < k => ~ (hot /\ due)
    <3>1. SUFFICES ASSUME link[q[1]].conn < k, hot, due PROVE FALSE
      OBVIOUS
    <3>2. HelloDue(rq, k)
      BY <2>2, <3>1
    <3> QED BY <1>1, <1>6, <1>7, <3>1, <3>2 DEF HelloDue
  <2>5. OrderAfter(HelloRule(k), q, p, k, hot, due)
    BY <1>1, <2>3, <2>4, OrderRules, ChildOrder
  <2> QED BY <2>1, <2>2, <2>5
<1>9. OrderAfter(OnceRule(k), q, p, k, OnceHot(rp, k), OnceDue(rq, k))
  <2>1. PICK hot \in BOOLEAN : hot = OnceHot(rp, k)
    BY <1>5, OrderTypes
  <2>2. PICK due \in BOOLEAN : due = OnceDue(rq, k)
    BY <1>5, OrderTypes
  <2>3. OrderOK(OnceRule(k), q, p, k, hot, due)
    BY <1>3, <1>4, <2>1, <2>2 DEF Ordered
  <2>4. link[q[1]].conn < k => ~ (hot /\ due)
    <3>1. SUFFICES ASSUME link[q[1]].conn < k, hot, due PROVE FALSE
      OBVIOUS
    <3>2. OnceHot(rp, k)
      BY <2>1, <3>1
    <3> QED BY <1>1, <1>6, <1>7, <3>1, <3>2 DEF OnceHot, Live
  <2>5. OrderAfter(OnceRule(k), q, p, k, hot, due)
    BY <1>1, <2>3, <2>4, OrderRules, ChildOrder
  <2> QED BY <2>1, <2>2, <2>5
<1>10. OrderAfter(SyncRule(k), q, p, k, SyncHot(rp, k), SyncDue(rq, k))
  <2>1. PICK hot \in BOOLEAN : hot = SyncHot(rp, k)
    BY <1>5, OrderTypes
  <2>2. PICK due \in BOOLEAN : due = SyncDue(rq, k)
    BY <1>5, OrderTypes
  <2>3. OrderOK(SyncRule(k), q, p, k, hot, due)
    BY <1>3, <1>4, <2>1, <2>2 DEF Ordered
  <2>4. link[q[1]].conn < k => ~ (hot /\ due)
    <3>1. SUFFICES ASSUME link[q[1]].conn < k, hot, due PROVE FALSE
      OBVIOUS
    <3>2. SyncHot(rp, k)
      BY <2>1, <3>1
    <3> QED BY <1>1, <1>6, <1>7, <3>1, <3>2 DEF SyncHot, Live
  <2>5. OrderAfter(SyncRule(k), q, p, k, hot, due)
    BY <1>1, <2>3, <2>4, OrderRules, ChildOrder
  <2> QED BY <2>1, <2>2, <2>5
<1>11. OrderAfter(StateRule(k), q, p, k, StateHot(Gets(p, k), rp, k), StateDue(Sends(q, k), rq, k))
  <2>1. PICK hot \in BOOLEAN : hot = StateHot(Gets(p, k), rp, k)
    BY <1>5, OrderTypes
  <2>2. PICK due \in BOOLEAN : due = StateDue(Sends(q, k), rq, k)
    BY <1>5, OrderTypes
  <2>3. OrderOK(StateRule(k), q, p, k, hot, due)
    BY <1>3, <1>4, <2>1, <2>2 DEF Ordered
  <2>4. link[q[1]].conn < k => ~ (hot /\ due)
    <3>1. SUFFICES ASSUME link[q[1]].conn < k, hot, due PROVE FALSE
      OBVIOUS
    <3>2. StateHot(Gets(p, k), rp, k) /\ StateDue(Sends(q, k), rq, k)
      BY <2>1, <2>2, <3>1
    <3> QED BY <1>1, <1>6, <1>7, <3>1, <3>2 DEF StateHot, StateDue, Live
  <2>5. OrderAfter(StateRule(k), q, p, k, hot, due)
    BY <1>1, <2>3, <2>4, OrderRules, ChildOrder
  <2> QED BY <2>1, <2>2, <2>5
<1>12. Wants(q) => OrderAfter(AskRule(k), q, p, k, AskHot(rp, k), AskDue(rq, k))
  <2>0. SUFFICES ASSUME Wants(q) PROVE OrderAfter(AskRule(k), q, p, k, AskHot(rp, k), AskDue(rq, k))
    OBVIOUS
  <2>1. PICK hot \in BOOLEAN : hot = AskHot(rp, k)
    BY <1>5, OrderTypes
  <2>2. PICK due \in BOOLEAN : due = AskDue(rq, k)
    BY <1>5, OrderTypes
  <2>3. OrderOK(AskRule(k), q, p, k, hot, due)
    BY <1>3, <1>4, <2>0, <2>1, <2>2 DEF Ordered
  <2>4. link[q[1]].conn < k => ~ (hot /\ due)
    <3>1. SUFFICES ASSUME link[q[1]].conn < k, hot, due PROVE FALSE
      OBVIOUS
    <3>2. AskHot(rp, k)
      BY <2>1, <3>1
    <3> QED BY <1>1, <1>6, <1>7, <3>1, <3>2 DEF AskHot
  <2>5. OrderAfter(AskRule(k), q, p, k, hot, due)
    BY <1>1, <2>3, <2>4, OrderRules, ChildOrder
  <2> QED BY <2>1, <2>2, <2>5
<1>13. Record(q)' = rq /\ Record(p)' = rp
  BY <1>2, <1>3, <1>4
<1> QED BY <1>1, <1>8, <1>9, <1>10, <1>11, <1>12, <1>13, OrderNext

\* The first message of the queue is not one that a rule says is to come later.
LEMMA NotYet ==
  ASSUME NEW n, NEW p, NEW k, Took(n, p), inq[n][1] \in Msgs, inq[n][1].conn = k, In(p) = inq[n],
         NEW g \in RuleSet, g.k = {k}, NEW hot, InOK(In(p), Sets(g, p), hot), hot
  PROVE  inq[n][1].type \notin g.z
<1>1. SUFFICES ASSUME inq[n][1].type \in g.z PROVE FALSE
  OBVIOUS
<1>2. Len(inq[n]) \in Nat /\ 1 \in 1 .. Len(inq[n]) /\ inq[n][1].id = p
  BY DEF Took, Rest
<1>3. inq[n][1] \in Sets(g, p)[3]
  BY <1>1, <1>2, SetsFacts DEF Kind
<1>4. HotAt(inq[n], Sets(g, p), hot, 0)
  BY DEF HotAt
<1> QED BY <1>2, <1>3, <1>4, NotFirst

\* The other end of the connection of a peer.
LEMMA MateOf ==
  ASSUME TypeInv, LabelInv, NEW p \in Ids, Known(p), NEW k \in 1 .. MaxConns, k = Record(p).conn
  PROVE  \E q \in Ids : Mates(q, p, k)
<1>1. p[1] \in Links /\ p[2] \in 0 .. MaxConns /\ p = <<p[1], p[2]>> /\ k \in 0 .. MaxConns /\ 0 \in 0 .. MaxConns
  BY IdFacts, ConstantsAssumption
<1>2. <<p[1], 0>> \in Ids /\ <<p[1], k>> \in Ids
  BY <1>1 DEF Ids
<1>3. p[2] # 0 => p[2] = k
  BY DEF LabelInv, LabelParts
<1>4. CASE p[2] = 0
  BY <1>2, <1>4 DEF Mates
<1>5. CASE p[2] # 0
  BY <1>2, <1>3, <1>5 DEF Mates
<1> QED BY <1>4, <1>5

\* What a peer finds first on a connection that is not mixed up.
LEMMA FirstInOrder ==
  ASSUME SyncInv, NEW n, NEW t, NEW p, NEW r1, NEW w, NEW ts, MainMove(n, t, p, r1, w, ts), Took(n, p),
         NEW m, m = inq[n][1], m \in DataOf(p), Known(p), NEW r, r = Record(p), m.conn = r.conn, IsUp(r), Clean(p)
  PROVE  /\ r.phase = "SETUP" <=> m.type = "VERSION"
         /\ m.type = "PHASE_DONE" => "PEER" \notin r.handshake_done \/ (r.got /\ r.phase # "RUNNING")
         /\ m.type = "SERIAL" => Gets(p, r.conn) /\ ~ r.got
         /\ m.type = "PHASE_DONE" /\ Asked(p) => ~ Lacks(r)
<1>1. SysInv /\ TypeInv /\ LabelInv /\ OrderInv /\ p \in Ids /\ Owner(p) = n
  BY MoveRecord DEF SyncInv, SysInv
<1>2. PICK k : k = r.conn
  OBVIOUS
<1>3. r \in PeerSet /\ r.conn \in 0 .. MaxConns /\ m \in Msgs /\ m.type \in PeerMsgs
  BY <1>1, RecordFacts DEF PeerSet, DataOf
<1>4. k \in 1 .. MaxConns
  <2>1. 0 < m.conn
    BY <1>1, Abreast
  <2> QED BY <1>2, <1>3, <2>1, ConstantsAssumption
<1>5. PICK q \in Ids : Mates(q, p, k)
  BY <1>1, <1>2, <1>4, MateOf
<1>6. Ordered(q, p, k)
  BY <1>1, <1>2, <1>4, <1>5 DEF OrderInv, Clean
<1>7. In(p) = inq[n]
  BY <1>1, MoveIn
<1>8. Live(r, k)
  BY <1>2 DEF Live, IsUp
<1>9. r.phase = "SETUP" => m.type = "VERSION"
  <2>1. SUFFICES ASSUME r.phase = "SETUP" PROVE m.type = "VERSION"
    OBVIOUS
  <2>2. HelloHot(r, k)
    BY <1>8, <2>1 DEF HelloHot
  <2>3. InOK(In(p), Sets(HelloRule(k), p), HelloHot(r, k))
    BY <1>6 DEF Ordered, OrderOK
  <2>4. m.type \notin HelloRule(k).z
    BY <1>2, <1>3, <1>4, <1>7, <2>2, <2>3, OrderRules, NotYet
  <2> QED BY <1>3, <1>4, <2>4, OrderRules
<1>10. r.phase # "SETUP" => m.type # "VERSION"
  <2>1. SUFFICES ASSUME r.phase # "SETUP" PROVE m.type # "VERSION"
    OBVIOUS
  <2>2. OnceHot(r, k)
    BY <1>8, <2>1 DEF OnceHot
  <2>3. InOK(In(p), Sets(OnceRule(k), p), OnceHot(r, k))
    BY <1>6 DEF Ordered, OrderOK
  <2>4. m.type \notin OnceRule(k).z
    BY <1>2, <1>3, <1>4, <1>7, <2>2, <2>3, OrderRules, NotYet
  <2> QED BY <1>4, <2>4, OrderRules
<1>11. m.type = "PHASE_DONE" => "PEER" \notin r.handshake_done \/ (r.got /\ r.phase # "RUNNING")
  <2>1. SUFFICES ASSUME "PEER" \in r.handshake_done, ~ r.got \/ r.phase = "RUNNING" PROVE m.type # "PHASE_DONE"
    OBVIOUS
  <2>2. SyncHot(r, k)
    BY <1>8, <2>1 DEF SyncHot
  <2>3. InOK(In(p), Sets(SyncRule(k), p), SyncHot(r, k))
    BY <1>6 DEF Ordered, OrderOK
  <2>4. m.type \notin SyncRule(k).z
    BY <1>2, <1>3, <1>4, <1>7, <2>2, <2>3, OrderRules, NotYet
  <2> QED BY <1>4, <2>4, OrderRules
<1>12. m.type = "SERIAL" => Gets(p, k) /\ ~ r.got
  <2>1. SUFFICES ASSUME ~ Gets(p, k) \/ r.got PROVE m.type # "SERIAL"
    OBVIOUS
  <2>2. StateHot(Gets(p, k), r, k)
    BY <1>8, <2>1 DEF StateHot
  <2>3. InOK(In(p), Sets(StateRule(k), p), StateHot(Gets(p, k), r, k))
    BY <1>6 DEF Ordered, OrderOK
  <2>4. m.type \notin StateRule(k).z
    BY <1>2, <1>3, <1>4, <1>7, <2>2, <2>3, OrderRules, NotYet
  <2> QED BY <1>4, <2>4, OrderRules
<1>13. m.type = "PHASE_DONE" /\ Asked(p) => ~ Lacks(r)
  <2>1. SUFFICES ASSUME Lacks(r), Asked(p) PROVE m.type # "PHASE_DONE"
    OBVIOUS
  <2>2. AskHot(r, k) /\ Wants(q)
    BY <1>1, <1>2, <1>5, <2>1, MateGets DEF AskHot
  <2>3. InOK(In(p), Sets(AskRule(k), p), AskHot(r, k))
    BY <1>6, <2>2 DEF Ordered, OrderOK
  <2>4. m.type \notin AskRule(k).z
    BY <1>2, <1>3, <1>4, <1>7, <2>2, <2>3, OrderRules, NotYet
  <2> QED BY <1>4, <2>4, OrderRules
<1> QED BY <1>2, <1>9, <1>10, <1>11, <1>12, <1>13

-----------------------------------------------------------------------------
(* The steps of a peer whose connection is not mixed up.                   *)

LEMMA DecidedDecides ==
  ASSUME cf \in Configs, NEW p \in Ids, NEW r \in PeerSet, NEW r1, NEW ts, PeerOK(p, r), IsUp(r), Past(r),
         r.handshake_done = {"WE", "PEER"}, Decided(p, r, r1, ts), Sends(p, r.conn) => r.phase = "HANDSHAKE"
  PROVE  Decides(p, r, r1, ts) /\ r1.conn = r.conn /\ r1.error = r.error /\ r1.handshake_done = r.handshake_done
<1>1. Keeps(r, r1)
  BY DEF Decided
<1>2. r.sync_requested = Full(p) /\ r.runtime = TheirTime(p, r.conn) /\ r.phase # "SETUP"
      /\ r.our_runtime = OurTime(p, r.conn) /\ r.conn \in 0 .. MaxConns
  BY DEF PeerSet, PeerOK, Past, IsUp
<1>3. r1.got = r.got /\ r1.conn = r.conn /\ r1.error = r.error /\ r1.handshake_done = r.handshake_done
  BY <1>1 DEF Keeps
<1>4. CASE r.sync_requested = {} /\ r1.state = r.state /\ r1.phase = "RUNNING" /\ ts = << >>
  <2>1. ~ Gets(p, r.conn)
    BY <1>2, <1>4, FullEmpty, SendsOrGets
  <2> QED BY <1>3, <1>4, <2>1 DEF Decides
<1>5. CASE r1 = r /\ ts = << >>
  BY <1>5 DEF Decides
<1>6. CASE r1.phase = r.phase /\ ts \in {<< >>, <<"CLOSE">>}
  BY <1>3, <1>6 DEF Decides
<1>7. CASE /\ ~ ({"AUTH_WE", "AUTH_PEER"} \subseteq r.sync_requested) /\ r.sync_requested # {}
           /\ SendState(r, p) /\ r1.phase = "RUNNING" /\ ts = <<"SERIAL", "PHASE_DONE">>
  <2>1. ~ (Auth(p) /\ AskedAuth(p)) /\ Full(p) # {}
    BY <1>2, <1>7, PartFacts
  <2>2. Sends(p, r.conn)
    BY <1>2, <1>7, <2>1, DecidesSends
  <2>3. ~ Gets(p, r.conn)
    BY <1>2, <2>2, SendsOrGets
  <2> QED BY <1>3, <1>7, <2>2, <2>3 DEF Decides
<1>8. CASE r1.phase = "SYNC" /\ ts = << >>
  BY <1>3, <1>8 DEF Decides
<1> QED BY <1>3, <1>4, <1>5, <1>6, <1>7, <1>8 DEF Decided

\* VERSION, when it comes first.
LEMMA OpensKind ==
  ASSUME cf \in Configs, NEW n, NEW p \in Ids, NEW r \in PeerSet, NEW r1 \in PeerSet, NEW w, NEW ts, NEW m, m = inq[n][1],
         Hears(n, p, r, r1, "VERSION"), r.phase = "SETUP", PeerOK(p, r), Treated(p, m, r, r1, ts),
         Waits(main[n], w, m, r1)
  PROVE  Opens(n, p, r, r1, w, ts)
<1>1. m.type = "VERSION" /\ IsUp(r) /\ r.handshake_done = {}
  BY DEF Hears, PeerOK, IsUp
<1>2. PICK us : Shaken(p, Opened(p, m.conn, r), r1, us) /\ Joined(ts, Opening(p), us)
  BY <1>1 DEF Treated, Deaf, IsUp, Requests
<1>3. Opened(p, m.conn, r).handshake_done = {"WE"} /\ Opened(p, m.conn, r).phase = "HANDSHAKE" /\ Opened(p, m.conn, r).got = r.got
  <2>1. m.conn \in 0 .. MaxConns
    BY DEF Hears, Msgs
  <2> QED BY <1>1, <2>1, OpenedType
<1>4. r1 = Opened(p, m.conn, r) /\ us = << >>
  <2>1. "PEER" \notin Opened(p, m.conn, r).handshake_done
    BY <1>3
  <2> QED BY <1>2, <2>1 DEF Shaken
<1>5. w = main[n].sync_pending
  <2>1. r1.handshake_done # {"WE", "PEER"}
    <3>1. "PEER" \notin r1.handshake_done
      BY <1>3, <1>4
    <3> QED BY <3>1
  <2> QED BY <2>1 DEF Waits
<1>6. Len(ts) = Len(Opening(p)) /\ \A i \in 1 .. Len(ts) : ts[i] = Opening(p)[i]
  <2>1. Len(us) = 0
    BY <1>4
  <2> QED BY <1>2, <2>1 DEF Joined
<1>7. /\ Len(Opening(p)) \in Nat
      /\ IF Wants(p) THEN Len(Opening(p)) = 2 /\ Opening(p)[1] = RequestType(p) /\ Opening(p)[2] = "PHASE_DONE"
                     ELSE Len(Opening(p)) = 1 /\ Opening(p)[1] = "PHASE_DONE"
      /\ RequestType(p) \in Requests
  BY OpeningFacts
<1>8. ASSUME NEW i \in 1 .. Len(ts) PROVE ts[i] \notin {"VERSION", "SERIAL"} /\ (ts[i] = "PHASE_DONE" => i = Len(ts))
  <2>1. CASE Wants(p)
    <3>1. i = 1 \/ i = 2
      BY <1>6, <1>7, <1>8, <2>1
    <3> QED BY <1>6, <1>7, <1>8, <2>1, <3>1 DEF Requests
  <2>2. CASE ~ Wants(p)
    <3>1. i = 1
      BY <1>6, <1>7, <1>8, <2>2
    <3> QED BY <1>6, <1>7, <1>8, <2>2, <3>1
  <2> QED BY <2>1, <2>2
<1>9. Wants(p) => Len(ts) >= 2 /\ ts[1] \in Requests
  BY <1>6, <1>7
<1> QED BY <1>3, <1>4, <1>5, <1>6, <1>7, <1>8, <1>9 DEF Opens

\* PHASE_DONE, when it comes in order.
LEMMA DoneKind ==
  ASSUME cf \in Configs, NEW n, NEW p \in Ids, NEW r \in PeerSet, NEW r1 \in PeerSet, NEW w, NEW ts, NEW m, m = inq[n][1],
         Hears(n, p, r, r1, "PHASE_DONE"), r.phase # "SETUP", PeerOK(p, r), Treated(p, m, r, r1, ts),
         Waits(main[n], w, m, r1), Asked(p) => ~ Lacks(r),
         "PEER" \notin r.handshake_done \/ (r.got /\ r.phase # "RUNNING")
  PROVE  Concludes(n, p, r, r1, w, ts) \/ Finishes(n, p, r, r1, w, ts)
<1>1. m.type = "PHASE_DONE" /\ m.id = p /\ IsUp(r) /\ r.phase # "UNKNOWN" /\ "WE" \in r.handshake_done
  BY DEF Hears, PeerOK, IsUp
<1>2. PhaseEnds(p, r, r1, ts)
  BY <1>1 DEF Treated, Deaf, IsUp, Requests
<1>3. CASE r.phase = "HANDSHAKE"
  <2>1. PICK r2 \in PeerSet : r2 = Shook(r, "PEER")
    <3>1. r.conn \in 0 .. MaxConns
      BY DEF PeerSet
    <3> QED BY <3>1, OpenedType
  <2>2. Shaken(p, r2, r1, ts)
    BY <1>2, <1>3, <2>1 DEF PhaseEnds
  <2>3. /\ r2.handshake_done = {"WE", "PEER"} /\ r2.got = r.got /\ r2.phase = "HANDSHAKE"
        /\ r2.state = r.state /\ r2.conn = r.conn
    BY <1>1, <1>3, <2>1 DEF Shook, PeerSet
  <2>4. PeerOK(p, r2) /\ Past(r2)
    BY <1>3, <2>1, ShookPeer
  <2>5. Decided(p, r2, r1, ts) /\ IsUp(r2)
    BY <1>1, <2>2, <2>3 DEF Shaken, IsUp
  <2>6. Decides(p, r2, r1, ts)
    BY <2>3, <2>4, <2>5, DecidedDecides
  <2>7. Decides(p, r, r1, ts)
    BY <1>3, <2>3, <2>6 DEF Decides
  <2>8. w = main[n].sync_pending \/ (More(w, main[n].sync_pending, p) /\ r1.phase = "HANDSHAKE")
    BY <1>1 DEF Waits
  <2> QED BY <1>3, <2>7, <2>8 DEF Concludes
<1>4. CASE r.phase # "HANDSHAKE"
  <2>1. "PEER" \in r.handshake_done
    BY <1>1, <1>4 DEF PeerOK, IsUp, PeerSet, Phases
  <2>2. r.got /\ r.phase = "SYNC"
    BY <1>1, <1>4, <2>1 DEF PeerSet, Phases
  <2>3. ~ r.send_state
    BY <1>1, <2>2 DEF PeerOK, IsUp
  <2>4. r1 = [r EXCEPT !.phase = "RUNNING", !.suspended = FALSE] /\ ts = << >>
    BY <1>2, <2>2, <2>3 DEF PhaseEnds
  <2>5. r1.phase = "RUNNING" /\ r1.got
    BY <2>2, <2>4 DEF PeerSet
  <2>6. w = main[n].sync_pending
    BY <2>5 DEF Waits
  <2> QED BY <2>2, <2>4, <2>5, <2>6 DEF Finishes
<1> QED BY <1>3, <1>4

\* A message of the other side.
LEMMA DataKinds ==
  ASSUME SyncInv, NEW n, NEW t, NEW p, NEW r1, NEW w, NEW ts, MainMove(n, t, p, r1, w, ts),
         Takes(n, p, r1, w, ts), NEW m, m = inq[n][1], m.type \in PeerMsgs, NEW r, r = Record(p),
         upset \subseteq upset', <<p[1], r1.conn>> \notin upset'
  PROVE  Kinds(n, p, r, r1, w, ts)
<1>1. /\ SysInv /\ TypeInv /\ LabelInv /\ CleanInv /\ cf \in Configs
      /\ p \in Ids /\ Owner(p) = n /\ r1 \in PeerSet
  BY MoveRecord DEF SyncInv, SysInv, TypeInv
<1>2. /\ Took(n, p) /\ m \in Msgs /\ m.id = p /\ InGood(m) /\ Known(p) /\ Treated(p, m, Record(p), r1, ts)
      /\ Waits(main[n], w, m, r1) /\ (m.conn # Peer(p).conn => <<p[1], Peer(p).conn>> \in upset')
  BY DEF Takes, PeerMsgs
<1>3. r \in PeerSet /\ r = Peer(p) /\ Treated(p, m, r, r1, ts) /\ m.type # "CONNECTED"
  BY <1>1, <1>2, RecordFacts DEF PeerMsgs
<1>4. r1.conn = r.conn /\ m.conn = r.conn
  BY <1>1, <1>2, <1>3, TreatedState
<1>5. Clean(p) /\ CleanParts(p) /\ PeerOK(p, r) /\ m \in DataOf(p)
  <2>1. Clean(p)
    BY <1>4 DEF Clean
  <2> QED BY <1>1, <1>2, <1>3, <2>1 DEF CleanInv, DataOf
<1>6. r.state \notin {"INIT", "PENDING"}
  BY <1>1, <1>2, <1>5, Abreast
<1>7. m.conn \in 0 .. MaxConns /\ r.conn \in 0 .. MaxConns
  BY <1>2, <1>3 DEF Msgs, PeerSet
<1>8. CASE Deaf(r)
  <2>1. r1 = r /\ ts = << >>
    BY <1>3, <1>8 DEF Treated, PeerMsgs, Requests
  <2>2. ~ IsUp(r1)
    BY <1>8, <2>1 DEF Deaf, IsUp
  <2> QED BY <2>1, <2>2 DEF Idles, Kinds
<1>9. CASE ~ Deaf(r)
  <2>1. IsUp(r)
    BY <1>3, <1>6, <1>9 DEF Deaf, IsUp, PeerSet, States
  <2>2. /\ r.phase = "SETUP" <=> m.type = "VERSION"
        /\ m.type = "PHASE_DONE" => "PEER" \notin r.handshake_done \/ (r.got /\ r.phase # "RUNNING")
        /\ m.type = "SERIAL" => Gets(p, r.conn) /\ ~ r.got
        /\ m.type = "PHASE_DONE" /\ Asked(p) => ~ Lacks(r)
    BY <1>2, <1>4, <1>5, <2>1, FirstInOrder
  <2>3. r1.error = r.error
    <3>1. CASE m.type = "VERSION"
      <4>1. PICK us : Shaken(p, Opened(p, m.conn, r), r1, us)
        BY <1>3, <1>9, <3>1 DEF Treated, Requests
      <4>2. Opened(p, m.conn, r) \in PeerSet /\ Opened(p, m.conn, r).error = r.error
        BY SMTT(30), <1>1, <1>3, <1>7, OpenedType
      <4>3. Keeps(Opened(p, m.conn, r), r1)
        BY <4>1, <4>2, ShakenKeeps
      <4> QED BY <4>2, <4>3 DEF Keeps
    <3>2. CASE m.type = "PHASE_DONE"
      <4>1. PhaseEnds(p, r, r1, ts) /\ r.phase # "SETUP"
        BY <1>3, <1>9, <2>2, <3>2 DEF Treated, Requests
      <4>2. CASE r.phase = "HANDSHAKE"
        <5>1. Shaken(p, Shook(r, "PEER"), r1, ts) /\ Shook(r, "PEER") \in PeerSet
          BY <1>1, <1>3, <4>1, <4>2, <1>7, OpenedType DEF PhaseEnds
        <5>2. Keeps(Shook(r, "PEER"), r1)
          BY <5>1, ShakenKeeps
        <5>3. Shook(r, "PEER").error = r.error
          BY <1>3 DEF Shook, PeerSet
        <5> QED BY <5>2, <5>3 DEF Keeps
      <4>3. CASE r.phase # "HANDSHAKE"
        <5>1. "PEER" \in r.handshake_done /\ r.phase # "UNKNOWN"
          BY <1>3, <1>5, <2>1, <4>1, <4>3 DEF PeerOK, IsUp, PeerSet, Phases
        <5>2. r.phase = "SYNC" /\ ~ r.send_state
          BY <1>3, <1>5, <2>1, <2>2, <3>2, <4>1, <4>3, <5>1 DEF PeerOK, IsUp, PeerSet, Phases
        <5>3. r1 = [r EXCEPT !.phase = "RUNNING", !.suspended = FALSE]
          BY <4>1, <5>2 DEF PhaseEnds
        <5> QED BY <1>3, <5>3 DEF PeerSet
      <4> QED BY <4>2, <4>3
    <3>3. CASE m.type \in Requests
      BY <1>3, <1>9, <2>2, <3>3 DEF Treated, Requests, PeerMsgs, PeerSet
    <3>4. CASE m.type = "SERIAL"
      BY <1>3, <1>9, <2>2, <3>4 DEF Treated, Requests, PeerMsgs, PeerSet
    <3> QED BY <3>1, <3>2, <3>3, <3>4 DEF PeerMsgs, Requests
  <2>4. Hears(n, p, r, r1, m.type)
    BY <1>2, <1>4, <2>1, <2>3 DEF Hears
  <2>5. CASE m.type = "VERSION"
    <3>1. Opens(n, p, r, r1, w, ts)
      BY <1>1, <1>2, <1>3, <1>5, <2>2, <2>4, <2>5, OpensKind
    <3> QED BY <3>1 DEF Kinds
  <2>6. CASE m.type = "PHASE_DONE"
    <3>1. Asked(p) => ~ Lacks(r)
      BY <2>2, <2>6
    <3>2. Concludes(n, p, r, r1, w, ts) \/ Finishes(n, p, r, r1, w, ts)
      BY <1>1, <1>2, <1>3, <1>5, <2>2, <2>4, <2>6, <3>1, DoneKind
    <3> QED BY <3>2 DEF Kinds
  <2>7. CASE m.type \in Requests
    <3>1. r.phase # "SETUP" /\ m.type \notin {"VERSION", "SERIAL", "PHASE_DONE"}
      BY <2>2, <2>7 DEF Requests
    <3>2. ts = << >> /\ r1 = [r EXCEPT !.sync_requested =
              @ \cup {"PEER"} \cup (IF m.type = "REQUEST_SYNC_AUTH" THEN {"AUTH_PEER"} ELSE {})]
      BY <1>3, <1>9, <2>7, <3>1 DEF Treated, Requests, PeerMsgs
    <3>3. r1.phase = r.phase /\ r1.handshake_done = r.handshake_done /\ r1.got = r.got
      BY <1>3, <3>2 DEF PeerSet
    <3>4. w = main[n].sync_pending
      BY <1>2, <3>1 DEF Waits
    <3>5. Idles(n, r, r1, w, ts)
      BY <1>4, <2>1, <2>3, <3>1, <3>2, <3>3, <3>4 DEF Idles
    <3> QED BY <3>5 DEF Kinds
  <2>8. CASE m.type = "SERIAL"
    <3>1. r.phase # "SETUP" /\ Gets(p, r.conn) /\ ~ r.got
      BY <2>2, <2>8
    <3>2. r.phase # "RUNNING"
      BY <1>5, <2>1, <3>1 DEF CleanParts, IsUp
    <3>3. ts = << >> /\ r1 = [r EXCEPT !.got = @ \/ "WE" \in r.sync_requested]
      BY <1>3, <1>9, <2>8, <3>1 DEF Treated, Requests, PeerMsgs
    <3>4. "WE" \in r.sync_requested
      <4>1. r.sync_requested \in {Ours(p), Full(p)}
        BY <1>5, <2>1, <3>1 DEF PeerOK, IsUp
      <4>2. Wants(p)
        BY <1>1, <1>7, <3>1, SendsOrGets
      <4> QED BY <4>1, <4>2 DEF Full, Ours, WePart
    <3>5. r1.phase = r.phase /\ r1.handshake_done = r.handshake_done /\ r1.got
      BY <1>3, <3>3, <3>4 DEF PeerSet
    <3>6. w = main[n].sync_pending
      BY <1>2, <2>8 DEF Waits
    <3>7. Gains(n, p, r, r1, w, ts)
      BY <2>4, <2>8, <3>1, <3>2, <3>3, <3>5, <3>6 DEF Gains
    <3> QED BY <3>7 DEF Kinds
  <2> QED BY <2>5, <2>6, <2>7, <2>8 DEF PeerMsgs, Requests
<1> QED BY <1>8, <1>9

LEMMA NotPeerMsgs ==
  ASSUME NEW ts \in {<< >>, <<"CLOSE">>, <<"CONNECT_TO">>}
  PROVE  \A i \in 1 .. Len(ts) : ts[i] \notin PeerMsgs
<1>1. CASE ts = << >>
  BY <1>1
<1>2. CASE ts = <<"CLOSE">>
  BY <1>2 DEF PeerMsgs
<1>3. CASE ts = <<"CONNECT_TO">>
  BY <1>3 DEF PeerMsgs
<1> QED BY <1>1, <1>2, <1>3

\* Every step of a main process for such a peer is of one of these kinds.
LEMMA DoesKinds ==
  ASSUME SyncInv, NEW n, NEW t, NEW p, NEW r1, NEW w, NEW ts, MainMove(n, t, p, r1, w, ts),
         Does(n, p, r1, w, ts), NEW r, r = Record(p), upset \subseteq upset', <<p[1], r1.conn>> \notin upset'
  PROVE  Kinds(n, p, r, r1, w, ts)
<1>1. /\ SysInv /\ TypeInv /\ LabelInv /\ WaitInv /\ CleanInv /\ cf \in Configs
      /\ p \in Ids /\ Owner(p) = n /\ n \in Nodes /\ r1 \in PeerSet
  BY MoveRecord DEF SyncInv, SysInv, TypeInv
<1>2. r \in PeerSet /\ (Known(p) => r = Peer(p)) /\ (~ Known(p) => r = NewPeer)
  BY <1>1, RecordFacts DEF Record
<1>3. CASE Connects(n, p, r1, w, ts)
  <2>1. r1.conn = 0 /\ ~ r1.error /\ r1.phase = "UNKNOWN" /\ r1.state = "PENDING" /\ ts = <<"CONNECT_TO">> /\ r = NewPeer
    BY <1>2, <1>3 DEF Connects
  <2>2. r.conn = 0 /\ r.error = FALSE /\ r1.error = FALSE
    BY <1>1, <2>1 DEF NewPeer, PeerSet
  <2>3. Idles(n, r, r1, w, ts)
    BY <2>1, <2>2, NotPeerMsgs DEF Idles, IsUp
  <2> QED BY <2>3 DEF Kinds
<1>4. CASE Disconnects(n, p, r1, w, ts)
  <2>1. r1 = Closed(r) /\ ts \in {<< >>, <<"CLOSE">>}
    BY <1>2, <1>4 DEF Disconnects, CloseMsgs
  <2>2. r1.conn = r.conn /\ r1.error = r.error /\ r1.phase = r.phase /\ r1.state = "CLOSING"
    BY <1>2, <2>1 DEF Closed, PeerSet
  <2>3. Idles(n, r, r1, w, ts)
    BY <2>1, <2>2, NotPeerMsgs DEF Idles, IsUp
  <2> QED BY <2>3 DEF Kinds
<1>5. CASE Resumes(n, p, r1, w, ts)
  <2>1. /\ Known(p) /\ IsUp(r) /\ r.handshake_done = {"WE", "PEER"} /\ PeerOK(p, r) /\ Past(r)
    BY <1>1, <1>2, <1>5, Turn DEF IsUp
  <2>2. /\ inq' = inq /\ Decided(p, r, r1, ts) /\ p = main[n].sync_pending[1] /\ Rest(w, main[n].sync_pending)
    BY <1>2, <1>5 DEF Resumes
  <2>3. r1.conn = r.conn
    BY <2>2 DEF Decided, Keeps
  <2>4. WaitsOnce(p, r, main[n].sync_pending)
    <3>1. Clean(p)
      BY <2>3 DEF Clean
    <3> QED BY <1>1, <3>1 DEF CleanInv, Queue
  <2>5. Sends(p, r.conn) => r.phase = "HANDSHAKE"
    <3>1. 1 \in 1 .. Len(main[n].sync_pending)
      BY <2>2 DEF Rest
    <3> QED BY <2>1, <2>2, <2>4, <3>1 DEF WaitsOnce
  <2>6. Decides(p, r, r1, ts) /\ r1.error = r.error /\ r1.handshake_done = r.handshake_done
    BY <1>1, <1>2, <2>1, <2>2, <2>5, DecidedDecides
  <2>7. Resumed(n, p, r, r1, w, ts)
    BY <2>1, <2>2, <2>3, <2>6 DEF Resumed
  <2> QED BY <2>7 DEF Kinds
<1>6. CASE Takes(n, p, r1, w, ts)
  <2>1. PICK m : m = inq[n][1]
    OBVIOUS
  <2>2. /\ Took(n, p) /\ m \in Msgs /\ m.id = p /\ m.type # "CONNECT_TO" /\ Treated(p, m, r, r1, ts)
        /\ Waits(main[n], w, m, r1)
    BY <1>6, <2>1 DEF Takes
  <2>3. CASE m.type \in PeerMsgs
    BY <1>6, <2>1, <2>3, DataKinds
  <2>4. CASE m.type = "CLOSE"
    <3>1. Gone(r, r1) /\ ts = << >>
      BY <2>2, <2>4 DEF Treated, PeerMsgs, Requests
    <3>2. ~ IsUp(r1) /\ r1.conn = r.conn /\ r1.error = r.error /\ r1.phase \in {r.phase, "UNKNOWN"}
      BY <3>1 DEF Gone, IsUp
    <3>3. Idles(n, r, r1, w, ts)
      BY <3>1, <3>2 DEF Idles
    <3> QED BY <3>3 DEF Kinds
  <2>5. CASE m.type = "CONNECTED" /\ IsUp(r)
    <3>1. r1 = r /\ ts = << >>
      BY <2>2, <2>5 DEF Treated, PeerMsgs, Requests, IsUp
    <3>2. w = main[n].sync_pending
      BY <2>2, <2>5 DEF Waits
    <3>3. Idles(n, r, r1, w, ts)
      BY <2>1, <2>5, <3>1, <3>2 DEF Idles
    <3> QED BY <3>3 DEF Kinds
  <2>6. CASE m.type = "CONNECTED" /\ ~ IsUp(r)
    <3>1. ~ SameConn(n, p, r, r1, ts)
      BY <2>1, <2>2, <2>6 DEF SameConn, ConnOf, IsUp
    <3>2. NewConn(n, p, r, r1, ts)
      BY <1>1, <3>1, ConnStep
    <3>3. r1 = Fresh(p, r, m.conn) /\ ts = <<"VERSION">> /\ r.conn < m.conn /\ m.conn \in 0 .. MaxConns
      BY <2>1, <2>2, <3>2 DEF NewConn, Msgs
    <3>4. r1.conn = m.conn /\ IsUp(r1) /\ r1.phase = "SETUP" /\ r1.handshake_done = {} /\ ~ r1.got /\ ~ r1.error
      BY <1>1, <1>2, <3>3, FreshFacts DEF IsUp
    <3>5. w = main[n].sync_pending
      BY <2>2, <2>6 DEF Waits
    <3>6. \A i \in 1 .. Len(w) : w[i] # p
      <4>1. m.type = "CONNECTED" /\ r.state # "CONNECTED" /\ InPending(main[n], p) => <<p[1], m.conn>> \in upset'
        BY <1>6, <2>1 DEF Takes
      <4>2. ~ InPending(main[n], p)
        BY <2>6, <3>4, <4>1 DEF IsUp
      <4> QED BY <3>5, <4>2 DEF InPending
    <3>7. Begins(n, p, r, r1, w, ts)
      BY <2>1, <2>2, <2>6, <3>3, <3>4, <3>5, <3>6 DEF Begins
    <3> QED BY <3>7 DEF Kinds
  <2> QED BY <2>2, <2>3, <2>4, <2>5, <2>6 DEF Msgs, MsgTypes
<1> QED BY <1>3, <1>4, <1>5, <1>6 DEF Does

\* What may be sent: nothing that a rule is about; anything but its first, when the last
\* may be sent; VERSION; what opens the handshake; the state.
LEMMA FollowNone ==
  ASSUME NEW T, NEW ts, Len(ts) \in Nat, NEW due, NEW due1, due1 => due,
         \A i \in 1 .. Len(ts) : ts[i] \notin T[1] /\ ts[i] \notin T[3]
  PROVE  OutOK(ts, T, due1) /\ Led(ts, T, due, due1)
BY DEF OutOK, Led, DueAt

LEMMA FollowDue ==
  ASSUME NEW T, NEW ts, Len(ts) \in Nat, NEW due, NEW due1, due,
         \A i \in 1 .. Len(ts) : ts[i] \notin T[1]
  PROVE  OutOK(ts, T, due1) /\ Led(ts, T, due, due1)
BY DEF OutOK, Led, DueAt

\* The last of what is sent.
LEMMA FollowLast ==
  ASSUME NEW T, NEW ts, Len(ts) \in Nat, NEW due, NEW due1, ~ due1,
         \A i \in 1 .. Len(ts) : ts[i] \in T[1] => \A j \in 1 .. Len(ts) : i < j => ts[j] \notin T[3],
         due \/ \A i \in 1 .. Len(ts) : ts[i] \in T[3] => \E m \in 1 .. Len(ts) : m < i /\ ts[m] \in T[2]
  PROVE  OutOK(ts, T, due1) /\ Led(ts, T, due, due1)
<1>1. OutOK(ts, T, due1)
  BY DEF OutOK, DueAt
<1>2. Led(ts, T, due, due1)
  BY DEF Led, DueAt
<1> QED BY <1>1, <1>2

\* What a peer sends on connection k follows the rules, where it is at it.
LEMMA DecidesTypes ==
  ASSUME NEW p, NEW r, NEW r1, NEW ts, Decides(p, r, r1, ts)
  PROVE  \/ \A i \in 1 .. Len(ts) : ts[i] \notin PeerMsgs
         \/ /\ Len(ts) = 2 /\ ts[1] = "SERIAL" /\ ts[2] = "PHASE_DONE"
            /\ Sends(p, r.conn) /\ r1.phase = "RUNNING" /\ r.phase = "HANDSHAKE"
<1>1. CASE ts \in {<< >>, <<"CLOSE">>}
  BY <1>1, NotPeerMsgs
<1>2. CASE ts = <<"SERIAL", "PHASE_DONE">>
  BY <1>2 DEF Decides
<1> QED BY <1>1, <1>2 DEF Decides

LEMMA KindsSend ==
  ASSUME NEW n, NEW p, NEW r, NEW r1, NEW w, NEW ts, Kinds(n, p, r, r1, w, ts)
  PROVE  SendKinds(p, r, r1, ts)
<1>1. CASE Idles(n, r, r1, w, ts)
  BY <1>1 DEF Idles, SendKinds, Quiet, Past
<1>2. CASE Begins(n, p, r, r1, w, ts)
  BY <1>2 DEF Begins, SendKinds
<1>3. CASE Opens(n, p, r, r1, w, ts)
  BY <1>3 DEF Opens, Hears, SendKinds
<1>4. CASE Gains(n, p, r, r1, w, ts) \/ Finishes(n, p, r, r1, w, ts)
  <2>1. r1.conn = r.conn /\ r1.phase \in {r.phase, "RUNNING"} /\ ts = << >>
    BY <1>4 DEF Gains, Finishes, Hears
  <2>2. Past(r1) => Past(r)
    BY <1>4 DEF Gains, Finishes, Past
  <2> QED BY <2>1, <2>2 DEF SendKinds, Quiet
<1>5. CASE Concludes(n, p, r, r1, w, ts) \/ Resumed(n, p, r, r1, w, ts)
  <2>1. r1.conn = r.conn /\ Decides(p, r, r1, ts) /\ r1.phase \in {r.phase, "SYNC", "RUNNING"}
    BY <1>5 DEF Concludes, Resumed, Hears, Decides
  <2>2. Past(r)
    BY <1>5 DEF Concludes, Resumed, Past
  <2> QED BY <2>1, <2>2, DecidesTypes DEF SendKinds, Quiet
<1> QED BY <1>1, <1>2, <1>3, <1>4, <1>5 DEF Kinds

LEMMA KindsFollow ==
  ASSUME NEW p, NEW r \in PeerSet, NEW r1 \in PeerSet, NEW ts, AreTypes(ts),
         NEW k \in 1 .. MaxConns, r1.conn = k, SendKinds(p, r, r1, ts)
  PROVE  /\ Follows(HelloRule(k), r1.conn, ts, HelloDue(r, k), HelloDue(r1, k))
         /\ Follows(OnceRule(k), r1.conn, ts, OnceDue(r, k), OnceDue(r1, k))
         /\ Follows(SyncRule(k), r1.conn, ts, SyncDue(r, k), SyncDue(r1, k))
         /\ Follows(StateRule(k), r1.conn, ts, StateDue(Sends(p, k), r, k), StateDue(Sends(p, k), r1, k))
         /\ Wants(p) => Follows(AskRule(k), r1.conn, ts, AskDue(r, k), AskDue(r1, k))
<1>1. r.conn \in Nat /\ r1.conn \in Nat /\ k \in Nat /\ k # 0 /\ Len(ts) \in Nat
  BY ConstantsAssumption DEF PeerSet, AreTypes
<1>3. OutOK(ts, Types(HelloRule(k)), HelloDue(r1, k)) /\ Led(ts, Types(HelloRule(k)), HelloDue(r, k), HelloDue(r1, k))
  <2>1. PICK T : T = Types(HelloRule(k))
    OBVIOUS
  <2>2. T[1] = {} /\ T[2] = {"VERSION"} /\ T[3] = PeerMsgs \ {"VERSION"}
    <3>1. HelloRule(k).a = {} /\ HelloRule(k).b = {"VERSION"} /\ HelloRule(k).z = PeerMsgs \ {"VERSION"}
      BY OrderRules
    <3>2. T[1] = HelloRule(k).a /\ T[2] = HelloRule(k).b /\ T[3] = HelloRule(k).z
      BY <2>1, SetsFacts
    <3> QED BY <3>1, <3>2
  <2>3. CASE r1.conn = r.conn
    <3>1. HelloDue(r, k)
      BY <2>3 DEF HelloDue
    <3> QED BY <1>1, <2>1, <2>2, <3>1, FollowDue
  <2>4. CASE r1.conn # r.conn
    <3>1. Len(ts) = 1 /\ ts[1] = "VERSION"
      BY <2>4 DEF SendKinds
    <3>2. OutOK(ts, T, HelloDue(r1, k))
      BY <2>2 DEF OutOK
    <3>3. ASSUME NEW j \in 1 .. Len(ts) + 1, DueAt(ts, T, HelloDue(r1, k), j)
          PROVE  \E m \in 1 .. Len(ts) : m < j /\ ts[m] \in T[2]
      <4>1. j = 1 \/ j = 2
        BY <3>1, <3>3
      <4>2. j # 1
        BY <2>2, <3>1, <3>3 DEF DueAt
      <4>3. j = 2 /\ 1 \in 1 .. Len(ts)
        BY <3>1, <4>1, <4>2
      <4> QED BY <2>2, <3>1, <4>3
    <3>4. Led(ts, T, HelloDue(r, k), HelloDue(r1, k))
      BY <3>3 DEF Led
    <3> QED BY <2>1, <3>2, <3>4
  <2> QED BY <2>3, <2>4
<1>4. OutOK(ts, Types(OnceRule(k)), OnceDue(r1, k)) /\ Led(ts, Types(OnceRule(k)), OnceDue(r, k), OnceDue(r1, k))
  <2>1. PICK T : T = Types(OnceRule(k))
    OBVIOUS
  <2>2. T[1] = {"VERSION"} /\ T[2] = {} /\ T[3] = {"VERSION"}
    <3>1. OnceRule(k).a = {"VERSION"} /\ OnceRule(k).b = {} /\ OnceRule(k).z = {"VERSION"}
      BY OrderRules
    <3>2. T[1] = OnceRule(k).a /\ T[2] = OnceRule(k).b /\ T[3] = OnceRule(k).z
      BY <2>1, SetsFacts
    <3> QED BY <3>1, <3>2
  <2>3. ~ OnceDue(r1, k)
    BY <1>1 DEF OnceDue
  <2>4. CASE \A i \in 1 .. Len(ts) : ts[i] # "VERSION"
    BY <1>1, <2>1, <2>2, <2>3, <2>4, FollowNone
  <2>5. CASE r.conn < r1.conn /\ Len(ts) = 1
    <3>1. OnceDue(r, k)
      BY <2>5 DEF OnceDue
    <3>2. \A i \in 1 .. Len(ts) : ts[i] \in T[1] => \A j \in 1 .. Len(ts) : i < j => ts[j] \notin T[3]
      BY <2>5
    <3> QED BY <1>1, <2>1, <2>3, <3>1, <3>2, FollowLast
  <2> QED BY <2>4, <2>5 DEF SendKinds, Quiet, PeerMsgs
<1>5. OutOK(ts, Types(SyncRule(k)), SyncDue(r1, k)) /\ Led(ts, Types(SyncRule(k)), SyncDue(r, k), SyncDue(r1, k))
  <2>1. PICK T : T = Types(SyncRule(k))
    OBVIOUS
  <2>2. T[1] = {"PHASE_DONE"} /\ T[2] = {"SERIAL"} /\ T[3] = {"PHASE_DONE"}
    <3>1. SyncRule(k).a = {"PHASE_DONE"} /\ SyncRule(k).b = {"SERIAL"} /\ SyncRule(k).z = {"PHASE_DONE"}
      BY OrderRules
    <3>2. T[1] = SyncRule(k).a /\ T[2] = SyncRule(k).b /\ T[3] = SyncRule(k).z
      BY <2>1, SetsFacts
    <3> QED BY <3>1, <3>2
  <2>3. CASE r.conn < r1.conn /\ Len(ts) = 1 /\ ts[1] = "VERSION"
    <3>1. SyncDue(r, k)
      BY <2>3 DEF SyncDue
    <3>2. \A i \in 1 .. Len(ts) : ts[i] \notin T[1]
      BY <2>2, <2>3
    <3> QED BY <1>1, <2>1, <3>1, <3>2, FollowDue
  <2>4. CASE r1.conn = r.conn /\ r1.phase \in {r.phase, "UNKNOWN", "SYNC", "RUNNING"} /\ Quiet(ts)
    <3>1. SyncDue(r1, k) => SyncDue(r, k)
      BY <1>1, <2>4 DEF SyncDue
    <3>2. \A i \in 1 .. Len(ts) : ts[i] \notin T[1] /\ ts[i] \notin T[3]
      BY <2>2, <2>4 DEF Quiet, PeerMsgs
    <3> QED BY <1>1, <2>1, <3>1, <3>2, FollowNone
  <2>5. CASE /\ r1.conn = r.conn /\ r.phase = "SETUP" /\ r1.phase = "HANDSHAKE"
             /\ \A i \in 1 .. Len(ts) : ts[i] \notin {"VERSION", "SERIAL"} /\ (ts[i] = "PHASE_DONE" => i = Len(ts))
    <3>1. SyncDue(r, k) /\ ~ SyncDue(r1, k)
      BY <1>1, <2>5 DEF SyncDue
    <3>2. \A i \in 1 .. Len(ts) : ts[i] \in T[1] => \A j \in 1 .. Len(ts) : i < j => ts[j] \notin T[3]
      BY <1>1, <2>2, <2>5
    <3> QED BY <1>1, <2>1, <3>1, <3>2, FollowLast
  <2>6. CASE /\ r1.conn = r.conn /\ Len(ts) = 2 /\ ts[1] = "SERIAL" /\ ts[2] = "PHASE_DONE"
             /\ Sends(p, r.conn) /\ r1.phase = "RUNNING" /\ r.phase = "HANDSHAKE"
    <3>1. ~ SyncDue(r1, k)
      BY <1>1, <2>6 DEF SyncDue
    <3>2. \A i \in 1 .. Len(ts) : i = 1 \/ i = 2
      BY <2>6
    <3>3. \A i \in 1 .. Len(ts) : ts[i] \in T[1] => \A j \in 1 .. Len(ts) : i < j => ts[j] \notin T[3]
      BY <2>2, <2>6, <3>2
    <3>4. \A i \in 1 .. Len(ts) : ts[i] \in T[3] => \E m \in 1 .. Len(ts) : m < i /\ ts[m] \in T[2]
      BY <2>2, <2>6, <3>2
    <3> QED BY <1>1, <2>1, <3>1, <3>3, <3>4, FollowLast
  <2> QED BY <2>3, <2>4, <2>5, <2>6 DEF SendKinds
<1>6. /\ OutOK(ts, Types(StateRule(k)), StateDue(Sends(p, k), r1, k))
      /\ Led(ts, Types(StateRule(k)), StateDue(Sends(p, k), r, k), StateDue(Sends(p, k), r1, k))
  <2>1. PICK T : T = Types(StateRule(k))
    OBVIOUS
  <2>2. T[1] = {"SERIAL"} /\ T[2] = {} /\ T[3] = {"SERIAL"}
    <3>1. StateRule(k).a = {"SERIAL"} /\ StateRule(k).b = {} /\ StateRule(k).z = {"SERIAL"}
      BY OrderRules
    <3>2. T[1] = StateRule(k).a /\ T[2] = StateRule(k).b /\ T[3] = StateRule(k).z
      BY <2>1, SetsFacts
    <3> QED BY <3>1, <3>2
  <2>3. CASE \A i \in 1 .. Len(ts) : ts[i] # "SERIAL"
    <3>1. StateDue(Sends(p, k), r1, k) => StateDue(Sends(p, k), r, k)
      <4>1. SUFFICES ASSUME StateDue(Sends(p, k), r1, k) PROVE StateDue(Sends(p, k), r, k)
        OBVIOUS
      <4>2. r.conn < r1.conn \/ (r1.conn = r.conn /\ (r1.phase = r.phase \/ r.phase = "SETUP" \/ r1.phase \notin {"SETUP", "HANDSHAKE"}))
        BY DEF SendKinds
      <4> QED BY <1>1, <4>1, <4>2 DEF StateDue
    <3> QED BY <1>1, <2>1, <2>2, <2>3, <3>1, FollowNone
  <2>4. CASE /\ r1.conn = r.conn /\ Len(ts) = 2 /\ ts[1] = "SERIAL" /\ ts[2] = "PHASE_DONE"
             /\ Sends(p, r.conn) /\ r1.phase = "RUNNING" /\ r.phase = "HANDSHAKE"
    <3>1. StateDue(Sends(p, k), r, k) /\ ~ StateDue(Sends(p, k), r1, k)
      BY <1>1, <2>4 DEF StateDue
    <3>2. \A i \in 1 .. Len(ts) : i = 1 \/ i = 2
      BY <2>4
    <3>3. \A i \in 1 .. Len(ts) : ts[i] \in T[1] => \A j \in 1 .. Len(ts) : i < j => ts[j] \notin T[3]
      BY <2>2, <2>4, <3>2
    <3> QED BY <1>1, <2>1, <3>1, <3>3, FollowLast
  <2>5. \/ \A i \in 1 .. Len(ts) : ts[i] # "SERIAL"
        \/ /\ r1.conn = r.conn /\ Len(ts) = 2 /\ ts[1] = "SERIAL" /\ ts[2] = "PHASE_DONE"
           /\ Sends(p, r.conn) /\ r1.phase = "RUNNING" /\ r.phase = "HANDSHAKE"
    <3>1. CASE Len(ts) = 1 /\ ts[1] = "VERSION"
      BY <3>1
    <3>2. CASE Quiet(ts)
      BY <3>2 DEF Quiet, PeerMsgs
    <3> QED BY <3>1, <3>2 DEF SendKinds
  <2> QED BY <2>3, <2>4, <2>5
<1>7. ASSUME Wants(p)
      PROVE  OutOK(ts, Types(AskRule(k)), AskDue(r1, k)) /\ Led(ts, Types(AskRule(k)), AskDue(r, k), AskDue(r1, k))
  <2>1. PICK T : T = Types(AskRule(k))
    OBVIOUS
  <2>2. T[1] = {"VERSION"} /\ T[2] = Requests /\ T[3] = {"PHASE_DONE"}
    <3>1. AskRule(k).a = {"VERSION"} /\ AskRule(k).b = Requests /\ AskRule(k).z = {"PHASE_DONE"}
      BY OrderRules
    <3>2. T[1] = AskRule(k).a /\ T[2] = AskRule(k).b /\ T[3] = AskRule(k).z
      BY <2>1, SetsFacts
    <3> QED BY <3>1, <3>2
  <2>3. CASE r.conn < r1.conn /\ r1.phase = "SETUP" /\ Len(ts) = 1 /\ ts[1] = "VERSION"
    <3>1. ~ AskDue(r1, k)
      BY <2>3 DEF AskDue, Past
    <3>2. \A i \in 1 .. Len(ts) : i = 1
      BY <2>3
    <3>3. \A i \in 1 .. Len(ts) : ts[i] \notin T[3]
      BY <2>2, <2>3, <3>2
    <3> QED BY <1>1, <2>1, <3>1, <3>3, FollowLast
  <2>4. CASE r1.conn = r.conn /\ Quiet(ts) /\ (Past(r1) => Past(r))
    <3>1. AskDue(r1, k) => AskDue(r, k)
      BY <2>4 DEF AskDue
    <3>2. \A i \in 1 .. Len(ts) : ts[i] \notin T[1] /\ ts[i] \notin T[3]
      BY <2>2, <2>4 DEF Quiet, PeerMsgs
    <3> QED BY <1>1, <2>1, <3>1, <3>2, FollowNone
  <2>5. CASE /\ Len(ts) >= 2 /\ ts[1] \in Requests
             /\ \A i \in 1 .. Len(ts) : ts[i] \notin {"VERSION", "SERIAL"} /\ (ts[i] = "PHASE_DONE" => i = Len(ts))
    <3>1. OutOK(ts, T, AskDue(r1, k))
      BY <2>2, <2>5 DEF OutOK
    <3>2. ASSUME NEW j \in 1 .. Len(ts) + 1, DueAt(ts, T, AskDue(r1, k), j)
          PROVE  \E m \in 1 .. Len(ts) : m < j /\ ts[m] \in T[2]
      <4>1. j >= Len(ts)
        BY <1>1, <2>2, <2>5, <3>2 DEF DueAt
      <4>2. 1 \in 1 .. Len(ts) /\ 1 < j
        BY <1>1, <2>5, <4>1
      <4> QED BY <2>2, <2>5, <4>2
    <3>3. Led(ts, T, AskDue(r, k), AskDue(r1, k))
      BY <3>2 DEF Led
    <3> QED BY <2>1, <3>1, <3>3
  <2>6. CASE /\ r1.conn = r.conn /\ Len(ts) = 2 /\ ts[1] = "SERIAL" /\ ts[2] = "PHASE_DONE" /\ r.phase = "HANDSHAKE"
    <3>1. AskDue(r, k)
      BY <2>6 DEF AskDue, Past
    <3>2. \A i \in 1 .. Len(ts) : i = 1 \/ i = 2
      BY <2>6
    <3>3. \A i \in 1 .. Len(ts) : ts[i] \notin T[1]
      BY <2>2, <2>6, <3>2
    <3> QED BY <1>1, <2>1, <3>1, <3>3, FollowDue
  <2> QED BY <1>7, <2>3, <2>4, <2>5, <2>6 DEF SendKinds
<1>8. k \in HelloRule(k).k /\ k \in OnceRule(k).k /\ k \in SyncRule(k).k /\ k \in StateRule(k).k
      /\ k \in AskRule(k).k
  BY OrderRules
<1> QED BY <1>3, <1>4, <1>5, <1>6, <1>7, <1>8 DEF Follows

\* Where it is not.
LEMMA OtherFollows ==
  ASSUME NEW p, NEW r \in PeerSet, NEW r1 \in PeerSet, NEW ts, NEW k \in 1 .. MaxConns, r1.conn # k,
         r.conn <= r1.conn
  PROVE  /\ Follows(HelloRule(k), r1.conn, ts, HelloDue(r, k), HelloDue(r1, k))
         /\ Follows(OnceRule(k), r1.conn, ts, OnceDue(r, k), OnceDue(r1, k))
         /\ Follows(SyncRule(k), r1.conn, ts, SyncDue(r, k), SyncDue(r1, k))
         /\ Follows(StateRule(k), r1.conn, ts, StateDue(Sends(p, k), r, k), StateDue(Sends(p, k), r1, k))
         /\ Follows(AskRule(k), r1.conn, ts, AskDue(r, k), AskDue(r1, k))
<1>1. r.conn \in Nat /\ r1.conn \in Nat /\ k \in Nat
  BY ConstantsAssumption DEF PeerSet
<1>2. r1.conn \notin HelloRule(k).k /\ r1.conn \notin OnceRule(k).k /\ r1.conn \notin SyncRule(k).k /\ r1.conn \notin StateRule(k).k
      /\ r1.conn \notin AskRule(k).k
  BY OrderRules
<1>3. HelloDue(r1, k) => HelloDue(r, k)
  BY DEF HelloDue
<1>4. OnceDue(r1, k) => OnceDue(r, k)
  BY <1>1 DEF OnceDue
<1>5. SyncDue(r1, k) => SyncDue(r, k)
  BY <1>1 DEF SyncDue
<1>6. StateDue(Sends(p, k), r1, k) => StateDue(Sends(p, k), r, k)
  BY <1>1 DEF StateDue
<1>7. AskDue(r1, k) => AskDue(r, k)
  BY DEF AskDue
<1> QED BY <1>2, <1>3, <1>4, <1>5, <1>6, <1>7 DEF Follows

LEMMA WarmRule ==
  ASSUME NEW g \in RuleSet, NEW k, g.k = {k}, NEW n, NEW p, NEW hot, NEW hot1,
         hot1 => hot \/ Heads(n, p, k, g.a), hot1 => ~ (Took(n, p) /\ inq[n][1].type \in g.b /\ inq[n][1].conn = k)
  PROVE  Warms(g, n, p, hot, hot1)
<1>1. Sets(g, p)[1] = Kind(p, g.a, {k}) /\ Sets(g, p)[2] = Kind(p, g.b, {k})
  BY SetsFacts
<1>2. CASE Took(n, p)
  BY <1>1, <1>2 DEF Warms, Heads, Kind
<1>3. CASE ~ Took(n, p)
  BY <1>3 DEF Warms, Heads
<1> QED BY <1>2, <1>3

LEMMA KindsWarm ==
  ASSUME NEW n, NEW p, NEW r \in PeerSet, NEW r1 \in PeerSet, NEW w, NEW ts, Len(inq[n]) \in Nat,
         NEW k \in 1 .. MaxConns, r1.conn = k, Kinds(n, p, r, r1, w, ts), IsUp(r) /\ ~ Gets(p, k) => ~ r.got
  PROVE  /\ Warms(HelloRule(k), n, p, HelloHot(r, k), HelloHot(r1, k))
         /\ Warms(OnceRule(k), n, p, OnceHot(r, k), OnceHot(r1, k))
         /\ Warms(SyncRule(k), n, p, SyncHot(r, k), SyncHot(r1, k))
         /\ Warms(StateRule(k), n, p, StateHot(Gets(p, k), r, k), StateHot(Gets(p, k), r1, k))
<1>1. r.conn \in Nat /\ r1.conn \in Nat /\ k \in Nat /\ k # 0
  BY ConstantsAssumption DEF PeerSet
<1>2. Took(n, p) => inq'[n] # inq[n]
  BY DEF Took, Rest
<1>3. Live(r1, k) <=> IsUp(r1)
  BY DEF Live, IsUp
<1>4. r1.conn = r.conn => (Live(r, k) <=> IsUp(r))
  BY DEF Live, IsUp
<1>5. /\ HelloHot(r1, k) => HelloHot(r, k)
      /\ HelloHot(r1, k) /\ Took(n, p) => inq[n][1].type # "VERSION"
  <2>1. SUFFICES ASSUME HelloHot(r1, k) PROVE HelloHot(r, k) /\ (Took(n, p) => inq[n][1].type # "VERSION")
    OBVIOUS
  <2>2. IsUp(r1) /\ r1.phase = "SETUP"
    BY <1>1, <1>3, <2>1 DEF HelloHot
  <2>3. CASE Idles(n, r, r1, w, ts)
    BY <1>2, <1>4, <2>2, <2>3 DEF Idles, HelloHot
  <2>4. CASE Begins(n, p, r, r1, w, ts)
    BY <2>4 DEF Begins, HelloHot
  <2>5. ~ Opens(n, p, r, r1, w, ts) /\ ~ Gains(n, p, r, r1, w, ts) /\ ~ Finishes(n, p, r, r1, w, ts)
    BY <2>2 DEF Opens, Gains, Finishes
  <2>6. ~ Concludes(n, p, r, r1, w, ts) /\ ~ Resumed(n, p, r, r1, w, ts)
    BY <2>2 DEF Concludes, Resumed, Decides, Past
  <2> QED BY <2>3, <2>4, <2>5, <2>6 DEF Kinds
<1>6. OnceHot(r1, k) => OnceHot(r, k) \/ Heads(n, p, k, {"VERSION"})
  <2>1. SUFFICES ASSUME OnceHot(r1, k) PROVE OnceHot(r, k) \/ Heads(n, p, k, {"VERSION"})
    OBVIOUS
  <2>2. IsUp(r1) /\ r1.phase # "SETUP"
    BY <1>3, <2>1 DEF OnceHot
  <2>3. CASE Idles(n, r, r1, w, ts)
    BY <1>4, <2>2, <2>3 DEF Idles, OnceHot
  <2>4. ~ Begins(n, p, r, r1, w, ts)
    BY <2>2 DEF Begins
  <2>5. CASE Opens(n, p, r, r1, w, ts)
    BY <2>5 DEF Opens, Hears, Heads
  <2>6. CASE Gains(n, p, r, r1, w, ts) \/ Finishes(n, p, r, r1, w, ts)
    BY <1>4, <2>6 DEF Gains, Finishes, Hears, OnceHot
  <2>7. CASE Concludes(n, p, r, r1, w, ts) \/ Resumed(n, p, r, r1, w, ts)
    BY <1>4, <2>7 DEF Concludes, Resumed, Hears, Past, OnceHot
  <2> QED BY <2>3, <2>4, <2>5, <2>6, <2>7 DEF Kinds
<1>7. /\ SyncHot(r1, k) => SyncHot(r, k) \/ Heads(n, p, k, {"PHASE_DONE"})
      /\ SyncHot(r1, k) /\ Took(n, p) => inq[n][1].type # "SERIAL"
  <2>1. SUFFICES ASSUME SyncHot(r1, k)
                 PROVE  (SyncHot(r, k) \/ Heads(n, p, k, {"PHASE_DONE"})) /\ (Took(n, p) => inq[n][1].type # "SERIAL")
    OBVIOUS
  <2>2. IsUp(r1) /\ "PEER" \in r1.handshake_done /\ (~ r1.got \/ r1.phase = "RUNNING")
    BY <1>3, <2>1 DEF SyncHot
  <2>3. CASE Idles(n, r, r1, w, ts)
    BY <1>2, <1>4, <2>2, <2>3 DEF Idles, SyncHot
  <2>4. ~ Begins(n, p, r, r1, w, ts) /\ ~ Opens(n, p, r, r1, w, ts) /\ ~ Gains(n, p, r, r1, w, ts)
    BY <2>2 DEF Begins, Opens, Gains
  <2>5. CASE Finishes(n, p, r, r1, w, ts) \/ Concludes(n, p, r, r1, w, ts)
    BY <2>5 DEF Finishes, Concludes, Hears, Heads
  <2>6. CASE Resumed(n, p, r, r1, w, ts)
    <3>1. ~ Took(n, p) /\ r1.conn = r.conn /\ IsUp(r) /\ r1.handshake_done = r.handshake_done /\ r1.got = r.got
      BY <1>2, <2>6 DEF Resumed, Decides
    <3>2. ~ r.got \/ r.phase = "RUNNING"
      BY <2>2, <2>6, <3>1 DEF Resumed, Decides
    <3> QED BY <1>4, <2>2, <3>1, <3>2 DEF SyncHot
  <2> QED BY <2>3, <2>4, <2>5, <2>6 DEF Kinds
<1>8. StateHot(Gets(p, k), r1, k) => StateHot(Gets(p, k), r, k) \/ Heads(n, p, k, {"SERIAL"})
  <2>1. SUFFICES ASSUME Gets(p, k), StateHot(Gets(p, k), r1, k)
                 PROVE  StateHot(Gets(p, k), r, k) \/ Heads(n, p, k, {"SERIAL"})
    BY DEF StateHot
  <2>2. IsUp(r1) /\ r1.got
    BY <1>3, <2>1 DEF StateHot
  <2>3. CASE Idles(n, r, r1, w, ts)
    BY <1>4, <2>2, <2>3 DEF Idles, StateHot
  <2>4. ~ Begins(n, p, r, r1, w, ts)
    BY <2>2 DEF Begins
  <2>5. CASE Gains(n, p, r, r1, w, ts)
    BY <2>5 DEF Gains, Hears, Heads
  <2>6. CASE Opens(n, p, r, r1, w, ts) \/ Finishes(n, p, r, r1, w, ts)
    BY <1>4, <2>2, <2>6 DEF Opens, Finishes, Hears, StateHot
  <2>7. CASE Concludes(n, p, r, r1, w, ts) \/ Resumed(n, p, r, r1, w, ts)
    BY <1>4, <2>2, <2>7 DEF Concludes, Resumed, Hears, Decides, StateHot
  <2> QED BY <2>3, <2>4, <2>5, <2>6, <2>7 DEF Kinds
<1>9. Warms(HelloRule(k), n, p, HelloHot(r, k), HelloHot(r1, k))
  <2>1. HelloRule(k) \in RuleSet /\ HelloRule(k).k = {k} /\ HelloRule(k).a = {} /\ HelloRule(k).b = {"VERSION"}
    BY OrderRules
  <2>2. HelloHot(r1, k) => HelloHot(r, k) \/ Heads(n, p, k, HelloRule(k).a)
    BY <1>5, <2>1
  <2>3. HelloHot(r1, k) => ~ (Took(n, p) /\ inq[n][1].type \in HelloRule(k).b /\ inq[n][1].conn = k)
    BY <1>5, <2>1
  <2> QED BY <2>1, <2>2, <2>3, WarmRule
<1>10. Warms(OnceRule(k), n, p, OnceHot(r, k), OnceHot(r1, k))
  <2>1. OnceRule(k) \in RuleSet /\ OnceRule(k).k = {k} /\ OnceRule(k).a = {"VERSION"} /\ OnceRule(k).b = {}
    BY OrderRules
  <2>2. OnceHot(r1, k) => OnceHot(r, k) \/ Heads(n, p, k, OnceRule(k).a)
    BY <1>6, <2>1
  <2>3. OnceHot(r1, k) => ~ (Took(n, p) /\ inq[n][1].type \in OnceRule(k).b /\ inq[n][1].conn = k)
    BY <1>6, <2>1
  <2> QED BY <2>1, <2>2, <2>3, WarmRule
<1>11. Warms(SyncRule(k), n, p, SyncHot(r, k), SyncHot(r1, k))
  <2>1. SyncRule(k) \in RuleSet /\ SyncRule(k).k = {k} /\ SyncRule(k).a = {"PHASE_DONE"} /\ SyncRule(k).b = {"SERIAL"}
    BY OrderRules
  <2>2. SyncHot(r1, k) => SyncHot(r, k) \/ Heads(n, p, k, SyncRule(k).a)
    BY <1>7, <2>1
  <2>3. SyncHot(r1, k) => ~ (Took(n, p) /\ inq[n][1].type \in SyncRule(k).b /\ inq[n][1].conn = k)
    BY <1>7, <2>1
  <2> QED BY <2>1, <2>2, <2>3, WarmRule
<1>12. Warms(StateRule(k), n, p, StateHot(Gets(p, k), r, k), StateHot(Gets(p, k), r1, k))
  <2>1. StateRule(k) \in RuleSet /\ StateRule(k).k = {k} /\ StateRule(k).a = {"SERIAL"} /\ StateRule(k).b = {}
    BY OrderRules
  <2>2. StateHot(Gets(p, k), r1, k) => StateHot(Gets(p, k), r, k) \/ Heads(n, p, k, StateRule(k).a)
    BY <1>8, <2>1
  <2>3. StateHot(Gets(p, k), r1, k) => ~ (Took(n, p) /\ inq[n][1].type \in StateRule(k).b /\ inq[n][1].conn = k)
    BY <1>8, <2>1
  <2> QED BY <2>1, <2>2, <2>3, WarmRule
<1> QED BY <1>9, <1>10, <1>11, <1>12

\* On another connection than the one the peer is at.
LEMMA OtherWarms ==
  ASSUME NEW n, NEW p, NEW r \in PeerSet, NEW r1 \in PeerSet, NEW k \in 1 .. MaxConns, r1.conn # k, r.conn <= r1.conn,
         Took(n, p) /\ inq[n][1].type \in PeerMsgs => inq[n][1].conn \in Nat /\ inq[n][1].conn <= r.conn
  PROVE  /\ Warms(HelloRule(k), n, p, HelloHot(r, k), HelloHot(r1, k))
         /\ Warms(OnceRule(k), n, p, OnceHot(r, k), OnceHot(r1, k))
         /\ Warms(SyncRule(k), n, p, SyncHot(r, k), SyncHot(r1, k))
         /\ Warms(StateRule(k), n, p, StateHot(Gets(p, k), r, k), StateHot(Gets(p, k), r1, k))
<1>1. r.conn \in Nat /\ r1.conn \in Nat /\ k \in Nat
  BY ConstantsAssumption DEF PeerSet
<1>2. ~ Live(r1, k)
  BY DEF Live
<1>3. ~ OnceHot(r1, k) /\ ~ SyncHot(r1, k)
  BY <1>2 DEF OnceHot, SyncHot
<1>4. StateHot(Gets(p, k), r1, k) => StateHot(Gets(p, k), r, k)
  BY <1>2 DEF StateHot
<1>5. /\ HelloHot(r1, k) => HelloHot(r, k)
      /\ HelloHot(r1, k) => ~ (Took(n, p) /\ inq[n][1].type \in {"VERSION"} /\ inq[n][1].conn = k)
  <2>1. HelloHot(r1, k) => r1.conn < k
    BY <1>2 DEF HelloHot
  <2>2. r1.conn < k => HelloHot(r, k)
    BY <1>1 DEF HelloHot
  <2>3. r1.conn < k => ~ (Took(n, p) /\ inq[n][1].type \in {"VERSION"} /\ inq[n][1].conn = k)
    BY <1>1 DEF PeerMsgs
  <2> QED BY <2>1, <2>2, <2>3
<1>9. Warms(HelloRule(k), n, p, HelloHot(r, k), HelloHot(r1, k))
  <2>1. HelloRule(k) \in RuleSet /\ HelloRule(k).k = {k} /\ HelloRule(k).a = {} /\ HelloRule(k).b = {"VERSION"}
    BY OrderRules
  <2>2. HelloHot(r1, k) => HelloHot(r, k) \/ Heads(n, p, k, HelloRule(k).a)
    BY <1>5, <2>1
  <2>3. HelloHot(r1, k) => ~ (Took(n, p) /\ inq[n][1].type \in HelloRule(k).b /\ inq[n][1].conn = k)
    BY <1>5, <2>1
  <2> QED BY <2>1, <2>2, <2>3, WarmRule
<1>10. Warms(OnceRule(k), n, p, OnceHot(r, k), OnceHot(r1, k))
  <2>1. OnceRule(k) \in RuleSet /\ OnceRule(k).k = {k} /\ OnceRule(k).a = {"VERSION"} /\ OnceRule(k).b = {}
    BY OrderRules
  <2>2. OnceHot(r1, k) => OnceHot(r, k) \/ Heads(n, p, k, OnceRule(k).a)
    BY <1>3, <2>1
  <2>3. OnceHot(r1, k) => ~ (Took(n, p) /\ inq[n][1].type \in OnceRule(k).b /\ inq[n][1].conn = k)
    BY <1>3, <2>1
  <2> QED BY <2>1, <2>2, <2>3, WarmRule
<1>11. Warms(SyncRule(k), n, p, SyncHot(r, k), SyncHot(r1, k))
  <2>1. SyncRule(k) \in RuleSet /\ SyncRule(k).k = {k} /\ SyncRule(k).a = {"PHASE_DONE"} /\ SyncRule(k).b = {"SERIAL"}
    BY OrderRules
  <2>2. SyncHot(r1, k) => SyncHot(r, k) \/ Heads(n, p, k, SyncRule(k).a)
    BY <1>3, <2>1
  <2>3. SyncHot(r1, k) => ~ (Took(n, p) /\ inq[n][1].type \in SyncRule(k).b /\ inq[n][1].conn = k)
    BY <1>3, <2>1
  <2> QED BY <2>1, <2>2, <2>3, WarmRule
<1>12. Warms(StateRule(k), n, p, StateHot(Gets(p, k), r, k), StateHot(Gets(p, k), r1, k))
  <2>1. StateRule(k) \in RuleSet /\ StateRule(k).k = {k} /\ StateRule(k).a = {"SERIAL"} /\ StateRule(k).b = {}
    BY OrderRules
  <2>2. StateHot(Gets(p, k), r1, k) => StateHot(Gets(p, k), r, k) \/ Heads(n, p, k, StateRule(k).a)
    BY <1>4, <2>1
  <2>3. StateHot(Gets(p, k), r1, k) => ~ (Took(n, p) /\ inq[n][1].type \in StateRule(k).b /\ inq[n][1].conn = k)
    BY <1>4, <2>1
  <2> QED BY <2>1, <2>2, <2>3, WarmRule
<1> QED BY <1>9, <1>10, <1>11, <1>12

\* How the receiver begins to lack the request of the other side.
LEMMA AskWarms ==
  ASSUME SyncInv, NEW n, NEW t, NEW p, NEW r1, NEW w, NEW ts, MainMove(n, t, p, r1, w, ts),
         Does(n, p, r1, w, ts), NEW r, r = Record(p), upset \subseteq upset',
         NEW k \in 1 .. MaxConns, <<p[1], k>> \notin upset'
  PROVE  Warms(AskRule(k), n, p, AskHot(r, k), AskHot(r1, k))
<1>1. /\ SysInv /\ TypeInv /\ CleanInv /\ cf \in Configs /\ p \in Ids /\ Owner(p) = n /\ n \in Nodes /\ r1 \in PeerSet
  BY MoveRecord DEF SyncInv, SysInv, TypeInv
<1>2. r \in PeerSet
  BY <1>1, RecordFacts
<1>3. AskRule(k) \in RuleSet /\ AskRule(k).k = {k} /\ AskRule(k).a = {"VERSION"} /\ AskRule(k).b = Requests
  BY OrderRules
<1>4. ASSUME AskHot(r1, k)
      PROVE  /\ AskHot(r, k) \/ Heads(n, p, k, {"VERSION"})
             /\ Took(n, p) => inq[n][1].type \notin Requests
  <2>1. r1.conn = k /\ Lacks(r1) /\ r1.state = "CONNECTED" /\ r1.phase # "SETUP"
    BY <1>4 DEF AskHot, Lacks, Past
  <2>2. ~ Connects(n, p, r1, w, ts)
    BY <2>1 DEF Connects
  <2>3. ~ Disconnects(n, p, r1, w, ts)
    <3>1. SUFFICES ASSUME Disconnects(n, p, r1, w, ts) PROVE FALSE
      OBVIOUS
    <3>2. r1 = Closed(r)
      BY <1>1, <3>1, RecordFacts DEF Disconnects
    <3> QED BY <1>2, <2>1, <3>2, ClosedFacts
  <2>4. CASE Resumes(n, p, r1, w, ts)
    <3>1. Record(p) = Peer(p) /\ Past(r)
      BY <1>1, <2>1, <2>4, Turn
    <3>2. Decided(p, r, r1, ts) /\ inq' = inq
      BY <2>4, <3>1 DEF Resumes
    <3>3. Lacks(r) /\ r.conn = k
      BY <1>2, <2>1, <3>1, <3>2, DecidedFacts DEF Decided, Keeps
    <3> QED BY <1>1, <3>2, <3>3, NotTaken DEF AskHot
  <2>5. CASE Takes(n, p, r1, w, ts)
    <3>1. PICK m : m = inq[n][1]
      OBVIOUS
    <3>2. /\ Treated(p, m, r, r1, ts) /\ m \in Msgs /\ m.id = p /\ Took(n, p)
          /\ m.type = "CONNECTED" \/ Known(p)
          /\ m.type \in PeerMsgs /\ m.conn # Peer(p).conn => <<p[1], Peer(p).conn>> \in upset'
      BY <2>5, <3>1 DEF Takes
    <3>3. (Lacks(r) \/ m.type = "VERSION") /\ m.type \notin Requests
      BY <1>1, <1>2, <2>1, <3>2, TreatedLacks
    <3>4. m.type = "CONNECTED" => r.state = "CONNECTED"
      <4>1. SUFFICES ASSUME m.type = "CONNECTED", r.state # "CONNECTED" PROVE FALSE
        OBVIOUS
      <4>2. r1 = Fresh(p, r, m.conn) /\ m.conn \in 0 .. MaxConns
        BY <3>2, <4>1 DEF Treated, PeerMsgs, Requests, Msgs
      <4> QED BY <1>1, <1>2, <2>1, <4>2, FreshFacts
    <3>5. r.conn = k
      BY <1>1, <1>2, <2>1, <3>2, <3>4, TreatedState
    <3>6. ASSUME m.type = "VERSION" PROVE m.conn = k
      <4>1. r = Peer(p)
        BY <1>1, <3>2, <3>6, RecordFacts
      <4> QED BY <3>2, <3>5, <3>6, <4>1 DEF PeerMsgs
    <3> QED BY <3>1, <3>2, <3>3, <3>5, <3>6 DEF AskHot, Heads
  <2> QED BY <2>2, <2>3, <2>4, <2>5 DEF Does
<1>5. AskHot(r1, k) => AskHot(r, k) \/ Heads(n, p, k, AskRule(k).a)
  BY <1>3, <1>4
<1>6. AskHot(r1, k) => ~ (Took(n, p) /\ inq[n][1].type \in AskRule(k).b /\ inq[n][1].conn = k)
  BY <1>3, <1>4
<1> QED BY <1>3, <1>5, <1>6, WarmRule

LEMMA MoveKept ==
  ASSUME SyncInv, NEW n, NEW t, NEW p, NEW r1, NEW w, NEW ts, MainMove(n, t, p, r1, w, ts),
         Does(n, p, r1, w, ts), NEW r, r = Record(p), upset \subseteq upset',
         NEW k \in 1 .. MaxConns, <<p[1], k>> \notin upset'
  PROVE  Kept(n, p, r, r1, ts, k)
<1>1. /\ SysInv /\ TypeInv /\ LabelInv /\ WaitInv /\ cf \in Configs /\ CleanInv /\ p \in Ids /\ Owner(p) = n /\ n \in Nodes
      /\ r1 \in PeerSet /\ AreTypes(ts)
  BY MoveRecord, DoesTypes DEF SyncInv, SysInv, TypeInv
<1>2. r \in PeerSet /\ r.conn \in Nat /\ r1.conn \in Nat
  BY <1>1, RecordFacts, ConstantsAssumption DEF PeerSet
<1>3. NewConn(n, p, r, r1, ts) \/ SameConn(n, p, r, r1, ts)
  BY <1>1, ConnStep
<1>4. NewConn(n, p, r, r1, ts) => r.conn < r1.conn /\ ~ IsUp(r)
  <2>1. SUFFICES ASSUME NewConn(n, p, r, r1, ts) PROVE r.conn < r1.conn /\ ~ IsUp(r)
    OBVIOUS
  <2>2. inq[n][1] \in Msgs /\ r1 = Fresh(p, r, inq[n][1].conn) /\ r.conn < inq[n][1].conn /\ ~ IsUp(r)
    BY <2>1 DEF NewConn, ConnOf, IsUp
  <2>3. inq[n][1].conn \in 0 .. MaxConns
    BY <2>2 DEF Msgs
  <2> QED BY <1>1, <1>2, <2>2, <2>3, FreshFacts
<1>5. SameConn(n, p, r, r1, ts) => r1.conn = r.conn
  BY DEF SameConn
<1>6. Warms(AskRule(k), n, p, AskHot(r, k), AskHot(r1, k))
  BY AskWarms
<1>7. CASE r1.conn # k
  <2>1. r.conn <= r1.conn
    BY <1>2, <1>3, <1>4, <1>5
  <2>2. ASSUME Took(n, p), inq[n][1].type \in PeerMsgs
        PROVE  inq[n][1].conn \in Nat /\ inq[n][1].conn <= r.conn
    <3>1. inq' # inq
      BY <1>1, <2>2, NotTaken
    <3>2. Takes(n, p, r1, w, ts)
      BY <3>1 DEF Does, Connects, Disconnects, Resumes
    <3>3. inq[n][1] \in DataOf(p) /\ Known(p) /\ inq[n][1].conn \in Nat
      BY <2>2, <3>2, ConstantsAssumption DEF Takes, DataOf, PeerMsgs, Msgs
    <3> QED BY <1>1, <2>2, <3>3, Abreast
  <2>3. /\ Warms(HelloRule(k), n, p, HelloHot(r, k), HelloHot(r1, k))
        /\ Warms(OnceRule(k), n, p, OnceHot(r, k), OnceHot(r1, k))
        /\ Warms(SyncRule(k), n, p, SyncHot(r, k), SyncHot(r1, k))
        /\ Warms(StateRule(k), n, p, StateHot(Gets(p, k), r, k), StateHot(Gets(p, k), r1, k))
    BY <1>1, <1>2, <1>7, <2>1, <2>2, OtherWarms
  <2>4. /\ Follows(HelloRule(k), r1.conn, ts, HelloDue(r, k), HelloDue(r1, k))
        /\ Follows(OnceRule(k), r1.conn, ts, OnceDue(r, k), OnceDue(r1, k))
        /\ Follows(SyncRule(k), r1.conn, ts, SyncDue(r, k), SyncDue(r1, k))
        /\ Follows(StateRule(k), r1.conn, ts, StateDue(Sends(p, k), r, k), StateDue(Sends(p, k), r1, k))
        /\ Follows(AskRule(k), r1.conn, ts, AskDue(r, k), AskDue(r1, k))
    BY <1>1, <1>2, <1>7, <2>1, OtherFollows
  <2> QED BY <1>6, <2>3, <2>4 DEF Kept
<1>8. CASE r1.conn = k
  <2>1. Kinds(n, p, r, r1, w, ts)
    BY <1>8, DoesKinds
  <2>2. IsUp(r) /\ ~ Gets(p, k) => ~ r.got
    <3>1. SUFFICES ASSUME IsUp(r), ~ Gets(p, k) PROVE ~ r.got
      OBVIOUS
    <3>2. r1.conn = r.conn
      BY <1>3, <1>4, <1>5, <3>1
    <3>3. Clean(p)
      BY <1>8, <3>2 DEF Clean
    <3> QED BY <1>1, <1>8, <3>1, <3>2, <3>3 DEF CleanInv, CleanParts
  <2>3. Len(inq[n]) \in Nat
    BY <1>1 DEF TypeInv
  <2>4. /\ Warms(HelloRule(k), n, p, HelloHot(r, k), HelloHot(r1, k))
        /\ Warms(OnceRule(k), n, p, OnceHot(r, k), OnceHot(r1, k))
        /\ Warms(SyncRule(k), n, p, SyncHot(r, k), SyncHot(r1, k))
        /\ Warms(StateRule(k), n, p, StateHot(Gets(p, k), r, k), StateHot(Gets(p, k), r1, k))
    BY <1>1, <1>2, <1>8, <2>1, <2>2, <2>3, KindsWarm
  <2>5. SendKinds(p, r, r1, ts)
    BY <2>1, KindsSend
  <2>6. /\ Follows(HelloRule(k), r1.conn, ts, HelloDue(r, k), HelloDue(r1, k))
        /\ Follows(OnceRule(k), r1.conn, ts, OnceDue(r, k), OnceDue(r1, k))
        /\ Follows(SyncRule(k), r1.conn, ts, SyncDue(r, k), SyncDue(r1, k))
        /\ Follows(StateRule(k), r1.conn, ts, StateDue(Sends(p, k), r, k), StateDue(Sends(p, k), r1, k))
        /\ Wants(p) => Follows(AskRule(k), r1.conn, ts, AskDue(r, k), AskDue(r1, k))
    BY <1>1, <1>2, <1>8, <2>5, KindsFollow
  <2> QED BY <1>6, <2>4, <2>6 DEF Kept
<1> QED BY <1>7, <1>8

LEMMA MoveOrdered ==
  ASSUME SyncInv, NEW n, NEW t, NEW x, NEW r1, NEW w, NEW ts, MainMove(n, t, x, r1, w, ts),
         Does(n, x, r1, w, ts), upset \subseteq upset',
         NEW q, NEW p, NEW k, Mates(q, p, k), <<p[1], k>> \notin upset'
  PROVE  Ordered(q, p, k)'
<1>1. /\ SysInv /\ TypeInv /\ OrderInv /\ x \in Ids /\ r1 \in PeerSet /\ AreTypes(ts) /\ cf' = cf
      /\ q \in Ids /\ p \in Ids /\ k \in 1 .. MaxConns /\ q[1] = p[1] /\ q # p
  BY MoveRecord, DoesTypes, MateGets DEF SyncInv, SysInv, MainMove
<1>2. Ordered(q, p, k)
  BY <1>1 DEF OrderInv
<1>3. PICK rq : rq = Record(q)
  OBVIOUS
<1>4. PICK rp : rp = Record(p)
  OBVIOUS
<1>5. PICK sq : sq = IF q = x THEN r1 ELSE rq
  OBVIOUS
<1>6. PICK sp : sp = IF p = x THEN r1 ELSE rp
  OBVIOUS
<1>7. rq \in PeerSet /\ rp \in PeerSet /\ sq \in PeerSet /\ sp \in PeerSet
  BY <1>1, <1>3, <1>4, <1>5, <1>6, RecordFacts
<1>8. Record(q)' = sq /\ Record(p)' = sp
  BY <1>1, <1>3, <1>4, <1>5, <1>6, MoveRecordOf
<1>9. q = x => Kept(n, x, rq, sq, ts, k) /\ sq = r1
  BY <1>1, <1>3, <1>5, MoveKept
<1>10. p = x => Kept(n, x, rp, sp, ts, k) /\ sp = r1
  BY <1>1, <1>4, <1>6, MoveKept
<1>11. (q # x => sq = rq) /\ (p # x => sp = rp)
  BY <1>5, <1>6
<1>12. OrderAfter(HelloRule(k), q, p, k, HelloHot(sp, k), HelloDue(sq, k))
  <2>1. PICK hot \in BOOLEAN : hot = HelloHot(rp, k)
    BY <1>7, OrderTypes
  <2>2. PICK due \in BOOLEAN : due = HelloDue(rq, k)
    BY <1>7, OrderTypes
  <2>3. PICK hot1 \in BOOLEAN : hot1 = HelloHot(sp, k)
    BY <1>7, OrderTypes
  <2>4. PICK due1 \in BOOLEAN : due1 = HelloDue(sq, k)
    BY <1>7, OrderTypes
  <2>5. OrderOK(HelloRule(k), q, p, k, hot, due)
    BY <1>2, <1>3, <1>4, <2>1, <2>2 DEF Ordered
  <2>6. IF p = x THEN Warms(HelloRule(k), n, x, hot, hot1) ELSE hot1 = hot
    BY <1>10, <1>11, <2>1, <2>3 DEF Kept
  <2>7. IF q = x THEN Follows(HelloRule(k), r1.conn, ts, due, due1) ELSE due1 = due
    BY <1>9, <1>11, <2>2, <2>4 DEF Kept
  <2>8. OrderAfter(HelloRule(k), q, p, k, hot1, due1)
    BY <1>1, <2>5, <2>6, <2>7, OrderRules, MoveOrder
  <2> QED BY <2>3, <2>4, <2>8
<1>13. OrderAfter(OnceRule(k), q, p, k, OnceHot(sp, k), OnceDue(sq, k))
  <2>1. PICK hot \in BOOLEAN : hot = OnceHot(rp, k)
    BY <1>7, OrderTypes
  <2>2. PICK due \in BOOLEAN : due = OnceDue(rq, k)
    BY <1>7, OrderTypes
  <2>3. PICK hot1 \in BOOLEAN : hot1 = OnceHot(sp, k)
    BY <1>7, OrderTypes
  <2>4. PICK due1 \in BOOLEAN : due1 = OnceDue(sq, k)
    BY <1>7, OrderTypes
  <2>5. OrderOK(OnceRule(k), q, p, k, hot, due)
    BY <1>2, <1>3, <1>4, <2>1, <2>2 DEF Ordered
  <2>6. IF p = x THEN Warms(OnceRule(k), n, x, hot, hot1) ELSE hot1 = hot
    BY <1>10, <1>11, <2>1, <2>3 DEF Kept
  <2>7. IF q = x THEN Follows(OnceRule(k), r1.conn, ts, due, due1) ELSE due1 = due
    BY <1>9, <1>11, <2>2, <2>4 DEF Kept
  <2>8. OrderAfter(OnceRule(k), q, p, k, hot1, due1)
    BY <1>1, <2>5, <2>6, <2>7, OrderRules, MoveOrder
  <2> QED BY <2>3, <2>4, <2>8
<1>14. OrderAfter(SyncRule(k), q, p, k, SyncHot(sp, k), SyncDue(sq, k))
  <2>1. PICK hot \in BOOLEAN : hot = SyncHot(rp, k)
    BY <1>7, OrderTypes
  <2>2. PICK due \in BOOLEAN : due = SyncDue(rq, k)
    BY <1>7, OrderTypes
  <2>3. PICK hot1 \in BOOLEAN : hot1 = SyncHot(sp, k)
    BY <1>7, OrderTypes
  <2>4. PICK due1 \in BOOLEAN : due1 = SyncDue(sq, k)
    BY <1>7, OrderTypes
  <2>5. OrderOK(SyncRule(k), q, p, k, hot, due)
    BY <1>2, <1>3, <1>4, <2>1, <2>2 DEF Ordered
  <2>6. IF p = x THEN Warms(SyncRule(k), n, x, hot, hot1) ELSE hot1 = hot
    BY <1>10, <1>11, <2>1, <2>3 DEF Kept
  <2>7. IF q = x THEN Follows(SyncRule(k), r1.conn, ts, due, due1) ELSE due1 = due
    BY <1>9, <1>11, <2>2, <2>4 DEF Kept
  <2>8. OrderAfter(SyncRule(k), q, p, k, hot1, due1)
    BY <1>1, <2>5, <2>6, <2>7, OrderRules, MoveOrder
  <2> QED BY <2>3, <2>4, <2>8
<1>15. OrderAfter(StateRule(k), q, p, k, StateHot(Gets(p, k), sp, k), StateDue(Sends(q, k), sq, k))
  <2>1. PICK hot \in BOOLEAN : hot = StateHot(Gets(p, k), rp, k)
    BY <1>7, OrderTypes
  <2>2. PICK due \in BOOLEAN : due = StateDue(Sends(q, k), rq, k)
    BY <1>7, OrderTypes
  <2>3. PICK hot1 \in BOOLEAN : hot1 = StateHot(Gets(p, k), sp, k)
    BY <1>7, OrderTypes
  <2>4. PICK due1 \in BOOLEAN : due1 = StateDue(Sends(q, k), sq, k)
    BY <1>7, OrderTypes
  <2>5. OrderOK(StateRule(k), q, p, k, hot, due)
    BY <1>2, <1>3, <1>4, <2>1, <2>2 DEF Ordered
  <2>6. IF p = x THEN Warms(StateRule(k), n, x, hot, hot1) ELSE hot1 = hot
    BY <1>10, <1>11, <2>1, <2>3 DEF Kept
  <2>7. IF q = x THEN Follows(StateRule(k), r1.conn, ts, due, due1) ELSE due1 = due
    BY <1>9, <1>11, <2>2, <2>4 DEF Kept
  <2>8. OrderAfter(StateRule(k), q, p, k, hot1, due1)
    BY <1>1, <2>5, <2>6, <2>7, OrderRules, MoveOrder
  <2> QED BY <2>3, <2>4, <2>8
<1>16. ASSUME Wants(q) PROVE OrderAfter(AskRule(k), q, p, k, AskHot(sp, k), AskDue(sq, k))
  <2>1. PICK hot \in BOOLEAN : hot = AskHot(rp, k)
    BY <1>7, OrderTypes
  <2>2. PICK due \in BOOLEAN : due = AskDue(rq, k)
    BY <1>7, OrderTypes
  <2>3. PICK hot1 \in BOOLEAN : hot1 = AskHot(sp, k)
    BY <1>7, OrderTypes
  <2>4. PICK due1 \in BOOLEAN : due1 = AskDue(sq, k)
    BY <1>7, OrderTypes
  <2>5. OrderOK(AskRule(k), q, p, k, hot, due)
    BY <1>2, <1>3, <1>4, <1>16, <2>1, <2>2 DEF Ordered
  <2>6. IF p = x THEN Warms(AskRule(k), n, x, hot, hot1) ELSE hot1 = hot
    BY <1>10, <1>11, <2>1, <2>3 DEF Kept
  <2>7. IF q = x THEN Follows(AskRule(k), r1.conn, ts, due, due1) ELSE due1 = due
    BY <1>9, <1>11, <1>16, <2>2, <2>4 DEF Kept
  <2>8. OrderAfter(AskRule(k), q, p, k, hot1, due1)
    BY <1>1, <2>5, <2>6, <2>7, OrderRules, MoveOrder
  <2> QED BY <2>3, <2>4, <2>8
<1> QED BY <1>1, <1>8, <1>12, <1>13, <1>14, <1>15, <1>16, OrderNext

\* What a record has to be stays so.
LEMMA DoesPeer ==
  ASSUME SyncInv, NEW n, NEW t, NEW p, NEW r1, NEW w, NEW ts, MainMove(n, t, p, r1, w, ts),
         Does(n, p, r1, w, ts), upset \subseteq upset', <<p[1], r1.conn>> \notin upset'
  PROVE  PeerOK(p, r1)
<1>1. /\ SysInv /\ TypeInv /\ CleanInv /\ cf \in Configs /\ p \in Ids /\ Owner(p) = n /\ n \in Nodes /\ r1 \in PeerSet
  BY MoveRecord DEF SyncInv, SysInv, TypeInv
<1>2. PICK r \in PeerSet : r = Record(p)
  BY <1>1, RecordFacts
<1>3. r1.conn = r.conn => Clean(p) /\ PeerOK(p, r)
  <2>1. SUFFICES ASSUME r1.conn = r.conn PROVE Clean(p) /\ PeerOK(p, r)
    OBVIOUS
  <2>2. Clean(p)
    BY <1>2, <2>1 DEF Clean
  <2> QED BY <1>1, <1>2, <2>2 DEF CleanInv
<1>4. CASE Connects(n, p, r1, w, ts)
  BY <1>4 DEF Connects, PeerOK
<1>5. CASE Disconnects(n, p, r1, w, ts)
  <2>1. r1 = Closed(r)
    BY <1>1, <1>2, <1>5, RecordFacts DEF Disconnects
  <2>2. r1.state = "CLOSING"
    BY <2>1, ClosedFacts
  <2> QED BY <2>2 DEF PeerOK
<1>6. CASE Resumes(n, p, r1, w, ts)
  <2>1. /\ Record(p) = Peer(p) /\ PeerOK(p, Peer(p)) /\ Past(Peer(p)) /\ Peer(p).handshake_done = {"WE", "PEER"}
    BY <1>1, <1>6, Turn
  <2>2. Decided(p, r, r1, ts)
    BY <1>2, <1>6, <2>1 DEF Resumes
  <2> QED BY <1>1, <1>2, <2>1, <2>2, DecidedPeer
<1>7. CASE Takes(n, p, r1, w, ts)
  <2>1. PICK m : m = inq[n][1]
    OBVIOUS
  <2>2. /\ Treated(p, m, r, r1, ts) /\ m \in Msgs /\ m.id = p /\ Took(n, p) /\ InGood(m) /\ m.type # "CONNECT_TO"
        /\ m.type = "CONNECTED" \/ Known(p)
        /\ m.type = "CONNECTED" => m.conn # 0
        /\ m.type \in PeerMsgs /\ m.conn # Peer(p).conn => <<p[1], Peer(p).conn>> \in upset'
    BY <1>2, <1>7, <2>1 DEF Takes
  <2>3. CASE m.type \in PeerMsgs
    <3>1. Known(p) /\ r = Peer(p) /\ m.type # "CONNECTED" /\ m \in DataOf(p)
      BY <1>1, <1>2, <2>2, <2>3, RecordFacts DEF PeerMsgs, DataOf
    <3>2. r1.conn = r.conn
      BY <1>1, <2>2, <3>1, TreatedState
    <3>3. Clean(p) /\ PeerOK(p, r) /\ m.conn = r.conn
      BY <1>3, <2>2, <2>3, <3>1, <3>2
    <3>4. m.type = "PHASE_DONE" /\ Asked(p) => ~ Lacks(r)
      <4>1. CASE IsUp(r)
        BY <1>2, <2>1, <2>2, <3>1, <3>3, <4>1, FirstInOrder
      <4>2. CASE ~ IsUp(r)
        BY <4>2 DEF IsUp, Lacks
      <4> QED BY <4>1, <4>2
    <3> QED BY <1>1, <2>2, <3>1, <3>3, <3>4, TreatedPeer
  <2>4. CASE m.type = "CLOSE"
    <3>1. Gone(r, r1)
      BY <2>2, <2>4 DEF Treated, PeerMsgs, Requests
    <3> QED BY <3>1 DEF Gone, PeerOK
  <2>5. CASE m.type = "CONNECTED" /\ r.state = "CONNECTED"
    <3>1. r1 = r
      BY <2>2, <2>5 DEF Treated, PeerMsgs, Requests
    <3> QED BY <1>3, <3>1
  <2>6. CASE m.type = "CONNECTED" /\ r.state # "CONNECTED"
    <3>1. r1 = Fresh(p, r, m.conn) /\ m.conn \in 0 .. MaxConns /\ m.conn # 0
      BY <2>2, <2>6 DEF Treated, PeerMsgs, Requests, Msgs
    <3>2. /\ r1.phase = "SETUP" /\ r1.sync_requested = {} /\ r1.handshake_done = {} /\ r1.conn = m.conn
          /\ r1.our_runtime = OurTime(p, m.conn)
      BY <1>1, <3>1, FreshFacts
    <3> QED BY <3>1, <3>2 DEF PeerOK
  <2> QED BY <2>2, <2>3, <2>4, <2>5, <2>6 DEF Msgs, MsgTypes
<1> QED BY <1>4, <1>5, <1>6, <1>7 DEF Does

\* Who waits is through with the handshake.
LEMMA DoesThrough ==
  ASSUME SyncInv, NEW n, NEW t, NEW p, NEW r1, NEW w, NEW ts, MainMove(n, t, p, r1, w, ts),
         Does(n, p, r1, w, ts), upset \subseteq upset', <<p[1], r1.conn>> \notin upset'
  PROVE  Through(p, r1, w)
<1>1. /\ SysInv /\ TypeInv /\ CleanInv /\ p \in Ids /\ Owner(p) = n /\ n \in Nodes
  BY MoveRecord DEF SyncInv, SysInv
<1>2. PICK r \in PeerSet : r = Record(p)
  BY <1>1, RecordFacts
<1>3. SUFFICES ASSUME IsUp(r1), NEW i \in 1 .. Len(w), w[i] = p PROVE r1.handshake_done = {"WE", "PEER"}
  BY DEF Through
<1>4. SUFFICES ASSUME NEW j \in 1 .. Len(main[n].sync_pending), main[n].sync_pending[j] = p
               PROVE  r1.handshake_done = {"WE", "PEER"}
  BY <1>1, <1>3, WhoWaits
<1>5. Kinds(n, p, r, r1, w, ts)
  BY <1>2, DoesKinds
<1>6. ~ Begins(n, p, r, r1, w, ts)
  BY <1>3 DEF Begins
<1>7. r1.conn = r.conn /\ IsUp(r)
  BY <1>3, <1>5, <1>6 DEF Kinds, Idles, Opens, Gains, Finishes, Concludes, Resumed, Hears
<1>8. Clean(p)
  BY <1>2, <1>7 DEF Clean
<1>9. r.handshake_done = {"WE", "PEER"}
  <2>1. Through(p, r, main[n].sync_pending)
    BY <1>1, <1>2, <1>8 DEF CleanInv, Queue
  <2> QED BY <1>4, <1>7, <2>1 DEF Through
<1>10. Known(p) /\ r = Peer(p)
  <2>1. ~ Known(p) => r.state = "INIT"
    BY <1>1, <1>2, RecordFacts DEF NewPeer
  <2> QED BY <1>1, <1>2, <1>7, <2>1, RecordFacts DEF IsUp
<1> QED BY <1>1, <1>7, <1>9, <1>10, DoneStays DEF IsUp

\* The record of the peer itself.
LEMMA KindsClean ==
  ASSUME cf \in Configs, NEW n, NEW p \in Ids, NEW r \in PeerSet, NEW r1 \in PeerSet, NEW w, NEW ts,
         Kinds(n, p, r, r1, w, ts), NEW v, v = main[n].sync_pending,
         r1.conn = r.conn => CleanRecord(p, r, v), PeerOK(p, r1), Through(p, r1, w)
  PROVE  CleanRecord(p, r1, w)
<1> SUFFICES /\ ~ r1.error
             /\ IsUp(r1) /\ ~ Gets(p, r1.conn) => ~ r1.got
             /\ IsUp(r1) /\ Gets(p, r1.conn) /\ r1.phase = "RUNNING" => r1.got
             /\ WaitsOnce(p, r1, w)
  BY DEF CleanRecord
<1> r1.conn = r.conn => /\ ~ r.error
                        /\ IsUp(r) /\ ~ Gets(p, r.conn) => ~ r.got
                        /\ IsUp(r) /\ Gets(p, r.conn) /\ r.phase = "RUNNING" => r.got
                        /\ WaitsOnce(p, r, v) /\ Through(p, r, v)
  BY DEF CleanRecord
<1>1. ~ (Sends(p, r.conn) /\ Gets(p, r.conn))
  <2>1. r.conn \in 0 .. MaxConns
    BY DEF PeerSet
  <2> QED BY <2>1, SendsOrGets
<1>2. CASE Idles(n, r, r1, w, ts)
  BY <1>2 DEF Idles, WaitsOnce
<1>3. CASE Begins(n, p, r, r1, w, ts)
  BY <1>3 DEF Begins, WaitsOnce
<1>4. CASE Opens(n, p, r, r1, w, ts)
  <2>1. r1.conn = r.conn /\ r1.error = r.error /\ IsUp(r) /\ r1.got = r.got /\ r1.phase = "HANDSHAKE" /\ w = v
    BY <1>4 DEF Opens, Hears
  <2> QED BY <2>1 DEF WaitsOnce
<1>5. CASE Gains(n, p, r, r1, w, ts)
  <2>1. r1.conn = r.conn /\ r1.error = r.error /\ Gets(p, r.conn) /\ r1.got
    BY <1>5 DEF Gains, Hears
  <2> QED BY <1>1, <2>1 DEF WaitsOnce
<1>6. CASE Finishes(n, p, r, r1, w, ts)
  <2>1. r1.conn = r.conn /\ r1.error = r.error /\ IsUp(r) /\ r.got /\ r1.got
    BY <1>6 DEF Finishes, Hears
  <2>2. Gets(p, r.conn)
    BY <2>1
  <2> QED BY <1>1, <2>1, <2>2 DEF WaitsOnce
<1>7. CASE Concludes(n, p, r, r1, w, ts)
  <2>1. /\ r1.conn = r.conn /\ r1.error = r.error /\ IsUp(r) /\ r1.got = r.got /\ r.phase = "HANDSHAKE"
        /\ r.got \/ "PEER" \notin r.handshake_done
        /\ r1.phase = "RUNNING" => ~ Gets(p, r.conn)
        /\ w = v \/ (More(w, v, p) /\ r1.phase = "HANDSHAKE")
    BY <1>7 DEF Concludes, Hears, Decides
  <2>2. WaitsOnce(p, r1, w)
    <3>1. SUFFICES ASSUME Sends(p, r.conn), IsUp(r1) PROVE WaitsOnce(p, r1, w)
      BY <2>1 DEF WaitsOnce
    <3>2. "PEER" \notin r.handshake_done
      BY <1>1, <2>1, <3>1
    <3>3. \A i \in 1 .. Len(v) : v[i] # p
      BY <2>1, <3>2 DEF Through
    <3>4. CASE w = v
      BY <3>3, <3>4 DEF WaitsOnce
    <3>5. CASE More(w, v, p) /\ r1.phase = "HANDSHAKE"
      <4>1. \A i \in 1 .. Len(w) : w[i] = p => i = Len(v) + 1
        BY <3>3, <3>5, MoreElement
      <4> QED BY <3>5, <4>1 DEF WaitsOnce
    <3> QED BY <2>1, <3>4, <3>5
  <2> QED BY <2>1, <2>2
<1>8. CASE Resumed(n, p, r, r1, w, ts)
  <2>1. /\ r1.conn = r.conn /\ r1.error = r.error /\ IsUp(r) /\ r1.got = r.got
        /\ r1.phase = "RUNNING" => r.phase = "RUNNING" \/ ~ Gets(p, r.conn)
        /\ p = v[1] /\ Rest(w, v)
    BY <1>8 DEF Resumed, Decides
  <2>2. WaitsOnce(p, r1, w)
    <3>1. SUFFICES ASSUME Sends(p, r.conn), IsUp(r1) PROVE WaitsOnce(p, r1, w)
      BY <2>1 DEF WaitsOnce
    <3>2. \A i, j \in 1 .. Len(v) : v[i] = p /\ v[j] = p => i = j
      BY <2>1, <3>1 DEF WaitsOnce
    <3>3. 1 \in 1 .. Len(v)
      BY <2>1 DEF Rest
    <3>4. ASSUME NEW i \in 1 .. Len(w), w[i] = p PROVE FALSE
      <4>1. i + 1 \in 1 .. Len(v) /\ v[i + 1] = p
        BY <2>1, <3>4, RestElement
      <4>2. i + 1 = 1
        BY <2>1, <3>2, <3>3, <4>1
      <4> QED BY <3>4, <4>2
    <3> QED BY <3>4 DEF WaitsOnce
  <2> QED BY <2>1, <2>2
<1> QED BY <1>2, <1>3, <1>4, <1>5, <1>6, <1>7, <1>8 DEF Kinds

\* Others wait as before.
LEMMA OthersWait ==
  ASSUME SysInv, NEW n, NEW t, NEW x, NEW r1, NEW w, NEW ts, MainMove(n, t, x, r1, w, ts), Does(n, x, r1, w, ts),
         NEW p, p # x, NEW r, WaitsOnce(p, r, main[n].sync_pending), Through(p, r, main[n].sync_pending)
  PROVE  WaitsOnce(p, r, w) /\ Through(p, r, w)
<1>0. Through(p, r, w)
  BY WhoWaits DEF Through
<1>1. SUFFICES ASSUME IsUp(r), Sends(p, r.conn) PROVE WaitsOnce(p, r, w)
  BY <1>0 DEF WaitsOnce
<1>2. PICK v : v = main[n].sync_pending
  OBVIOUS
<1>3. /\ \A i, j \in 1 .. Len(v) : v[i] = p /\ v[j] = p => i = j
      /\ \A i \in 1 .. Len(v) : v[i] = p => r.phase = "HANDSHAKE"
  BY <1>1, <1>2 DEF WaitsOnce
<1>4. w = v \/ More(w, v, x) \/ Rest(w, v)
  <2>1. Takes(n, x, r1, w, ts) => w = v \/ More(w, v, x)
    BY <1>2 DEF Takes, Waits
  <2> QED BY <1>2, <2>1 DEF Does, Connects, Disconnects, Resumes
<1>5. CASE w = v
  BY <1>3, <1>5 DEF WaitsOnce
<1>6. CASE More(w, v, x)
  <2>1. \A i \in 1 .. Len(w) : w[i] = p => i \in 1 .. Len(v) /\ v[i] = p
    BY <1>6, MoreElement
  <2> QED BY <1>3, <2>1 DEF WaitsOnce
<1>7. CASE Rest(w, v)
  <2>1. \A i \in 1 .. Len(w) : i + 1 \in 1 .. Len(v) /\ v[i + 1] = w[i]
    BY <1>7, RestElement
  <2>2. ASSUME NEW i \in 1 .. Len(w), NEW j \in 1 .. Len(w), w[i] = p, w[j] = p PROVE i = j
    <3>1. i + 1 = j + 1
      BY <1>3, <2>1, <2>2
    <3> QED BY <2>2, <3>1
  <2>3. ASSUME NEW i \in 1 .. Len(w), w[i] = p PROVE r.phase = "HANDSHAKE"
    BY <1>3, <2>1, <2>3
  <2> QED BY <2>2, <2>3 DEF WaitsOnce
<1> QED BY <1>4, <1>5, <1>6, <1>7

\* Who is to send and to get the state on the connection of a peer, after a step.
LEMMA SameSidesOf ==
  ASSUME cf' = cf, NEW p, NEW s, Record(p)' = s
  PROVE  Gets(p, Record(p).conn)' = Gets(p, s.conn) /\ Sends(p, Record(p).conn)' = Sends(p, s.conn)
BY DEF Sends, Gets, Wants, Asked, Auth, AskedAuth, OurTime, TheirTime, RunTime

LEMMA CleanNext ==
  ASSUME cf' = cf, NEW p, NEW s, Record(p)' = s, NEW y, Queue(p)' = y, CleanRecord(p, s, y)
  PROVE  (/\ PeerOK(p, Record(p)) /\ Through(p, Record(p), Queue(p))
          /\ CleanParts(p) /\ WaitsOnce(p, Record(p), Queue(p)))'
<1>1. Gets(p, Record(p).conn)' = Gets(p, s.conn) /\ Sends(p, Record(p).conn)' = Sends(p, s.conn)
  BY SameSidesOf
<1>2. PeerOK(p, Record(p))'
  BY KeepOK DEF CleanRecord
<1>3. Through(p, Record(p), Queue(p))'
  BY DEF CleanRecord, Through, IsUp
<1>4. CleanParts(p)'
  BY <1>1 DEF CleanParts, CleanRecord, IsUp
<1>5. WaitsOnce(p, Record(p), Queue(p))'
  BY <1>1 DEF CleanRecord, WaitsOnce, IsUp
<1> QED BY <1>2, <1>3, <1>4, <1>5

LEMMA CleanNow ==
  ASSUME CleanInv, NEW p \in Ids, Clean(p), NEW r, r = Record(p), NEW v, v = Queue(p)
  PROVE  CleanRecord(p, r, v)
<1>1. /\ PeerOK(p, Record(p)) /\ Through(p, Record(p), Queue(p))
      /\ CleanParts(p) /\ WaitsOnce(p, Record(p), Queue(p))
  BY DEF CleanInv
<1> QED BY <1>1 DEF CleanParts, CleanRecord

LEMMA MoveClean ==
  ASSUME SyncInv, NEW n, NEW t, NEW x, NEW r1, NEW w, NEW ts, MainMove(n, t, x, r1, w, ts),
         Does(n, x, r1, w, ts), upset \subseteq upset'
  PROVE  CleanInv'
<1>1. /\ SysInv /\ TypeInv /\ CleanInv /\ cf \in Configs /\ cf' = cf
      /\ x \in Ids /\ Owner(x) = n /\ n \in Nodes /\ r1 \in PeerSet
  BY MoveRecord DEF SyncInv, SysInv, TypeInv, MainMove
<1>2. main'[n] = t /\ \A k \in Nodes : k # n => main'[k] = main[k]
  BY <1>1, MoveMain
<1>3. main'[n].sync_pending = w
  BY <1>2 DEF MainMove, Effect
<1>4. ASSUME NEW p \in Ids, Clean(p)'
      PROVE  (/\ PeerOK(p, Record(p)) /\ Through(p, Record(p), Queue(p))
              /\ CleanParts(p) /\ WaitsOnce(p, Record(p), Queue(p)))'
  <2>1. PICK s : s = IF p = x THEN r1 ELSE Record(p)
    OBVIOUS
  <2>2. PICK y : y = IF Owner(p) = n THEN w ELSE Queue(p)
    OBVIOUS
  <2>3. Record(p)' = s /\ Queue(p)' = y
    <3>1. Owner(p) \in Nodes
      BY <1>4, IdFacts
    <3> QED BY <1>1, <1>2, <1>3, <1>4, <2>1, <2>2, <3>1, MoveRecordOf DEF Queue
  <2>4. <<p[1], s.conn>> \notin upset'
    BY <1>4, <2>3 DEF Clean
  <2>5. CleanRecord(p, s, y)
    <3>1. CASE p # x
      <4>1. s = Record(p)
        BY <2>1, <3>1
      <4>2. Clean(p)
        BY <2>4, <4>1 DEF Clean
      <4>3. CleanRecord(p, s, Queue(p))
        BY <1>1, <1>4, <4>1, <4>2, CleanNow
      <4>4. WaitsOnce(p, s, y) /\ Through(p, s, y)
        <5>1. CASE Owner(p) = n
          BY <1>1, <2>2, <3>1, <4>3, <5>1, OthersWait DEF Queue, CleanRecord
        <5>2. CASE Owner(p) # n
          BY <2>2, <4>3, <5>2 DEF CleanRecord
        <5> QED BY <5>1, <5>2
      <4> QED BY <4>3, <4>4 DEF CleanRecord
    <3>2. CASE p = x
      <4>1. s = r1 /\ y = w /\ Queue(p) = main[n].sync_pending
        BY <1>1, <2>1, <2>2, <3>2 DEF Queue
      <4>2. PICK r \in PeerSet : r = Record(p)
        BY <1>1, <1>4, RecordFacts
      <4>3. Kinds(n, p, r, r1, w, ts)
        BY <2>4, <3>2, <4>1, <4>2, DoesKinds
      <4>4. PICK v : v = main[n].sync_pending
        OBVIOUS
      <4>5. ASSUME r1.conn = r.conn PROVE CleanRecord(p, r, v)
        <5>1. Clean(p)
          BY <2>4, <4>1, <4>2, <4>5 DEF Clean
        <5> QED BY <1>1, <1>4, <4>1, <4>2, <4>4, <5>1, CleanNow
      <4>6. PeerOK(p, r1) /\ Through(p, r1, w)
        BY <2>4, <3>2, <4>1, DoesPeer, DoesThrough
      <4>7. p \in Ids /\ r1 \in PeerSet /\ cf \in Configs
        BY <1>1, <1>4
      <4>8. CleanRecord(p, r1, w)
        BY <4>3, <4>4, <4>5, <4>6, <4>7, KindsClean
      <4> QED BY <4>1, <4>8
    <3> QED BY <3>1, <3>2
  <2> QED BY <1>1, <2>3, <2>5, CleanNext
<1> QED BY <1>4 DEF CleanInv

LEMMA ChildClean ==
  ASSUME SyncInv, NEW n, ChildGood(n), upset \subseteq upset'
  PROVE  CleanInv'
<1>1. TypeInv /\ CleanInv /\ ChildMain(n) /\ cf' = cf
  BY DEF SyncInv, SysInv, ChildGood, ChildMain
<1>2. ASSUME NEW p \in Ids, Clean(p)'
      PROVE  (/\ PeerOK(p, Record(p)) /\ Through(p, Record(p), Queue(p))
              /\ CleanParts(p) /\ WaitsOnce(p, Record(p), Queue(p)))'
  <2>1. Record(p)' = Record(p)
    BY <1>1, <1>2, ChildRecord
  <2>2. Queue(p)' = Queue(p)
    BY <1>1, <1>2, IdFacts, ChildState DEF Queue
  <2>3. Clean(p)
    BY <1>2, <2>1 DEF Clean
  <2>4. CleanRecord(p, Record(p), Queue(p))
    BY <1>1, <1>2, <2>3, CleanNow
  <2>5. PICK s : s = Record(p)
    OBVIOUS
  <2>6. PICK y : y = Queue(p)
    OBVIOUS
  <2> QED BY <1>1, <2>1, <2>2, <2>4, <2>5, <2>6, CleanNext
<1> QED BY <1>2 DEF CleanInv

-----------------------------------------------------------------------------
(* The synchronization, in every step.                                     *)

\* A connection that is mixed up stays so.
LEMMA NextUpset ==
  ASSUME [Next]_vars
  PROVE  upset \subseteq upset'
<1>1. ASSUME NEW n \in Nodes, MainStep(n) PROVE upset \subseteq upset'
  <2>1. CASE PollSync(n) \/ PollHeader(n)
    BY <2>1 DEF PollSync, PollHeader, TakePending
  <2>2. CASE Poll(n)
    BY <2>2 DEF Poll
  <2>3. CASE Crash(n)
    BY <2>3 DEF Crash
  <2>4. ASSUME NEW l, Connect(l) PROVE upset \subseteq upset'
    BY <2>4 DEF Connect
  <2> QED BY SMTT(30), <1>1, <2>1, <2>2, <2>3, <2>4 DEF MainStep
<1>2. ASSUME NEW p, Lost(p) PROVE upset' = upset
  BY <1>2 DEF Lost
<1>3. ASSUME NEW n \in Nodes, ChildStep(n) PROVE upset' = upset
  <2>1. CASE DoParentMessage(n)
    BY <2>1 DEF DoParentMessage
  <2>2. ASSUME NEW l, Retry(l) PROVE upset' = upset
    BY <2>2 DEF Retry
  <2>3. ASSUME NEW p, AcceptConnection(p) PROVE upset' = upset
    BY <2>3 DEF AcceptConnection
  <2> QED BY <1>2, <1>3, <2>1, <2>2, <2>3 DEF ChildStep
<1>4. ASSUME NEW p, Disconnect(p) PROVE upset' = upset
  BY <1>4 DEF Disconnect
<1>5. CASE UNCHANGED vars
  BY <1>5 DEF vars
<1> QED BY <1>1, <1>2, <1>3, <1>4, <1>5 DEF Next

\* What a step does to poll.
LEMMA CallPoll ==
  ASSUME PollInv, NEW n \in Nodes, NextCall(n)
  PROVE  \E v \in Polls : /\ poll' = [poll EXCEPT ![n] = v] /\ v.msgstate # "dead"
                          /\ v.current_peer = None \/ v.current_peer \in DOMAIN main[n].peer
<1>1. PICK v : v = [poll[n] EXCEPT !.took = FALSE]
  OBVIOUS
<1>2. poll[n] \in Polls /\ poll[n].msgstate # "dead"
      /\ (poll[n].current_peer = None \/ poll[n].current_peer \in DOMAIN main[n].peer)
  BY DEF PollInv, Alive
<1>3. v \in Polls /\ v.msgstate = poll[n].msgstate /\ v.current_peer = poll[n].current_peer
  BY <1>1, <1>2 DEF Polls
<1>4. poll' = [poll EXCEPT ![n] = v]
  BY <1>1 DEF NextCall
<1> QED BY <1>2, <1>3, <1>4

LEMMA TakePoll ==
  ASSUME TypeInv, NEW n \in Nodes, NEW msgstate \in {"TYPE", "ARGS"}, NEW cur, TakePending(n, msgstate, cur),
         cur = None \/ cur \in DOMAIN main[n].peer
  PROVE  \E v \in Polls : /\ poll' = [poll EXCEPT ![n] = v] /\ v.msgstate # "dead"
                          /\ v.current_peer = None \/ v.current_peer \in DOMAIN main[n].peer
<1>1. IsMain(n, main[n]) /\ main[n].sync_pending # << >>
  BY DEF TypeInv, TakePending, ToSync
<1>2. PICK p : p = Head(main[n].sync_pending)
  OBVIOUS
<1>3. p \in DOMAIN main[n].peer
  <2>1. main[n].sync_pending \in Seq(Ids)
    BY <1>1, MainFacts
  <2>2. p = main[n].sync_pending[1] /\ 1 \in 1 .. Len(main[n].sync_pending)
    BY <1>1, <1>2, <2>1, TailRest
  <2> QED BY <1>1, <2>2, MainFacts
<1>4. \E c, b : /\ poll' = [poll EXCEPT ![n] = [msgstate |-> msgstate, current_peer |-> c, took |-> b]]
                /\ c \in {p, cur} /\ b \in BOOLEAN
  BY <1>2 DEF TakePending, ToSync
<1>5. PICK c, b : /\ poll' = [poll EXCEPT ![n] = [msgstate |-> msgstate, current_peer |-> c, took |-> b]]
                  /\ c \in {p, cur} /\ b \in BOOLEAN
  BY <1>4
<1>6. c = None \/ c \in DOMAIN main[n].peer
  BY <1>3, <1>5
<1>7. c \in Ids \cup {None}
  BY <1>1, <1>6, MainFacts
<1>8. PICK v : v = [msgstate |-> msgstate, current_peer |-> c, took |-> b]
  OBVIOUS
<1>9. v \in Polls /\ v.msgstate = msgstate /\ v.current_peer = c
  BY <1>5, <1>7, <1>8 DEF Polls
<1> QED BY <1>5, <1>6, <1>8, <1>9

LEMMA NextPolls ==
  ASSUME SysInv, PollInv, Next
  PROVE  \/ poll' = poll
         \/ \E n \in Nodes : \E v \in Polls :
                /\ poll' = [poll EXCEPT ![n] = v] /\ v.msgstate # "dead"
                /\ v.current_peer = None \/ v.current_peer \in DOMAIN main[n].peer
<1>0. TypeInv
  BY DEF SysInv
<1>1. ASSUME NEW n \in Nodes, MainStep(n)
      PROVE  \E k \in Nodes : \E v \in Polls :
                /\ poll' = [poll EXCEPT ![k] = v] /\ v.msgstate # "dead"
                /\ v.current_peer = None \/ v.current_peer \in DOMAIN main[k].peer
  <2>1. CASE PollSync(n)
    <3>1. /\ poll[n].msgstate \in {"TYPE", "ARGS"}
          /\ poll[n].current_peer = None \/ poll[n].current_peer \in DOMAIN main[n].peer
      BY DEF PollInv, Polls, Alive
    <3> QED BY <1>0, <2>1, <3>1, TakePoll DEF PollSync
  <2>2. CASE PollHeader(n)
    <3>1. PICK c : c = IF Head(inq[n]).id \in DOMAIN main[n].peer THEN Head(inq[n]).id ELSE None
      OBVIOUS
    <3>2. TakePending(n, "ARGS", c)
      BY <2>2, <3>1 DEF PollHeader
    <3> QED BY <1>0, <3>1, <3>2, TakePoll
  <2>3. CASE Poll(n)
    <3>1. PICK v : v = [msgstate |-> "TYPE", current_peer |-> None, took |-> FALSE]
      OBVIOUS
    <3>2. v \in Polls /\ v.msgstate = "TYPE" /\ v.current_peer = None
      BY <3>1 DEF Polls
    <3>3. poll' = [poll EXCEPT ![n] = v]
      BY <2>3, <3>1 DEF Poll
    <3> QED BY <3>2, <3>3
  <2>4. ASSUME NEW l \in Links, l[1] = n, Connect(l) PROVE NextCall(n)
    BY <2>4 DEF Connect
  <2> QED BY <1>1, <2>1, <2>2, <2>3, <2>4, NoCrash, CallPoll DEF MainStep
<1>2. ASSUME NEW p, Lost(p) PROVE poll' = poll
  BY <1>2 DEF Lost
<1>3. ASSUME NEW n \in Nodes, ChildStep(n) PROVE poll' = poll
  <2>1. CASE DoParentMessage(n)
    BY <2>1 DEF DoParentMessage
  <2>2. ASSUME NEW l, Retry(l) PROVE poll' = poll
    BY <2>2 DEF Retry
  <2>3. ASSUME NEW p, AcceptConnection(p) PROVE poll' = poll
    BY <2>3 DEF AcceptConnection
  <2> QED BY <1>2, <1>3, <2>1, <2>2, <2>3 DEF ChildStep
<1>4. ASSUME NEW p \in Ids, Disconnect(p)
      PROVE  \E v \in Polls : /\ poll' = [poll EXCEPT ![Owner(p)] = v] /\ v.msgstate # "dead"
                              /\ v.current_peer = None \/ v.current_peer \in DOMAIN main[Owner(p)].peer
  <2>1. NextCall(Owner(p)) /\ Owner(p) \in Nodes
    BY <1>4, IdFacts DEF Disconnect
  <2> QED BY <2>1, CallPoll
<1>5. \A p \in Ids : Owner(p) \in Nodes
  BY IdFacts
<1> QED BY <1>1, <1>2, <1>3, <1>4, <1>5 DEF Next

\* A peer that the main process knows of stays known.
LEMMA NextKnows ==
  ASSUME SysInv, PollInv, Next, None \notin upset', NEW k \in Nodes
  PROVE  DOMAIN main[k].peer \subseteq DOMAIN main'[k].peer
<1>1. DOMAIN main = Nodes /\ IsMain(k, main[k])
  BY DEF SysInv, TypeInv
<1>2. ASSUME NEW n, NEW t, NEW p, NEW r1, NEW w, NEW ts, MainMove(n, t, p, r1, w, ts)
      PROVE  DOMAIN main[k].peer \subseteq DOMAIN main'[k].peer
  <2>1. main' = [main EXCEPT ![n] = t] /\ DOMAIN t.peer = DOMAIN main[n].peer \cup {p}
    BY <1>2 DEF MainMove, Effect
  <2> QED BY <1>1, <2>1
<1>3. ASSUME NEW n, ChildGood(n) PROVE DOMAIN main[k].peer \subseteq DOMAIN main'[k].peer
  <2>1. \/ main' = main
        \/ main' = [main EXCEPT ![n] = [main[n] EXCEPT !.out = Tail(@)]]
    BY <1>3 DEF ChildGood, ChildMain
  <2>2. main[k] = [peer |-> main[k].peer, in_sync |-> main[k].in_sync,
                   sync_pending |-> main[k].sync_pending, out |-> main[k].out]
    BY <1>1, MainFacts
  <2> QED BY <1>1, <2>1, <2>2
<1> QED BY <1>2, <1>3, NextSteps

LEMMA NextPoll ==
  ASSUME SysInv, PollInv, Next, None \notin upset'
  PROVE  PollInv'
<1>1. poll \in [Nodes -> Polls]
  BY DEF PollInv
<1>2. ASSUME NEW n \in Nodes
      PROVE  /\ poll'[n].msgstate # "dead"
             /\ poll'[n].current_peer = None \/ poll'[n].current_peer \in DOMAIN main[n].peer
  BY <1>1, NextPolls DEF PollInv, Alive
<1>3. poll' \in [Nodes -> Polls]
  BY <1>1, NextPolls
<1> QED BY <1>2, <1>3, NextKnows DEF PollInv, Alive

LEMMA MoveSync ==
  ASSUME SyncInv, PollInv', NEW n, NEW t, NEW x, NEW r1, NEW w, NEW ts, MainMove(n, t, x, r1, w, ts),
         Does(n, x, r1, w, ts), upset \subseteq upset'
  PROVE  SyncInv'
<1>1. SysInv /\ LabelInv /\ WaitInv
  BY DEF SyncInv
<1>2. SysInv' /\ LabelInv' /\ WaitInv' /\ CleanInv'
  BY <1>1, MoveSys, DoesTypes, MoveLabels, MoveWait, MoveClean
<1>3. OrderInv'
  <2> SUFFICES ASSUME NEW q \in Ids, NEW p \in Ids, NEW k \in 1 .. MaxConns, Mates(q, p, k), <<p[1], k>> \notin upset'
               PROVE  Ordered(q, p, k)'
    BY DEF OrderInv, Mates
  <2> QED BY MoveOrdered
<1> QED BY <1>2, <1>3 DEF SyncInv

LEMMA ChildSync ==
  ASSUME SyncInv, PollInv', NEW n, ChildGood(n), upset \subseteq upset'
  PROVE  SyncInv'
<1>1. SysInv /\ LabelInv /\ WaitInv /\ OrderInv
  BY DEF SyncInv
<1>2. SysInv' /\ LabelInv' /\ WaitInv' /\ CleanInv'
  BY <1>1, ChildLabels, ChildWait, ChildClean DEF ChildGood
<1>3. OrderInv'
  <2> SUFFICES ASSUME NEW q \in Ids, NEW p \in Ids, NEW k \in 1 .. MaxConns, Mates(q, p, k), <<p[1], k>> \notin upset'
               PROVE  Ordered(q, p, k)'
    BY DEF OrderInv, Mates
  <2>1. Ordered(q, p, k)
    BY <1>1 DEF OrderInv
  <2> QED BY <1>1, <2>1, ChildOrdered
<1> QED BY <1>2, <1>3 DEF SyncInv

LEMMA StutterSync ==
  ASSUME SyncInv, UNCHANGED vars
  PROVE  SyncInv'
<1>1. SysInv /\ PollInv
  BY DEF SyncInv
<1>2. upset \subseteq upset' /\ PollInv'
  BY <1>1, NextUpset DEF PollInv, Alive, vars
<1>3. CASE Nodes # {}
  BY <1>1, <1>2, <1>3, StutterGood, ChildSync
<1>4. CASE Nodes = {}
  <2>1. Ids = {}
    BY <1>4, IdFacts
  <2>2. LabelInv' /\ WaitInv' /\ OrderInv' /\ CleanInv'
    BY <2>1 DEF LabelInv, WaitInv, OrderInv, CleanInv
  <2> QED BY <1>1, <1>2, <2>2, StutterSys DEF SyncInv
<1> QED BY <1>3, <1>4

\* As long as no argument is handled for the wrong peer.
LEMMA NextSync ==
  ASSUME None \in upset \/ SyncInv, [Next]_vars
  PROVE  (None \in upset \/ SyncInv)'
<1>1. upset \subseteq upset'
  BY NextUpset
<1> SUFFICES ASSUME None \notin upset', SyncInv PROVE SyncInv'
  BY <1>1
<1>2. CASE Next
  <2>1. SysInv /\ PollInv
    BY DEF SyncInv
  <2>2. PollInv'
    BY <1>2, <2>1, NextPoll
  <2> QED BY <1>1, <1>2, <2>1, <2>2, NextSteps, MoveSync, ChildSync
<1>3. CASE UNCHANGED vars
  BY <1>3, StutterSync
<1> QED BY <1>2, <1>3

\* There is no peer and no message at first.
LEMMA InitSide ==
  ASSUME Init, NEW p \in Ids
  PROVE  /\ ~ Known(p) /\ Record(p) = NewPeer
         /\ Inq(p) = << >> /\ In(p) = << >> /\ Out(p) = << >> /\ Queue(p) = << >>
         /\ link[p[1]].entry = "none" /\ link[p[1]].conn = 0
<1>1. Owner(p) \in Nodes /\ p[1] \in Links
  BY IdFacts
<1>2. DOMAIN main[Owner(p)].peer = {} /\ main[Owner(p)].out = << >> /\ main[Owner(p)].sync_pending = << >>
  BY <1>1, InitMain
<1>3. inq[Owner(p)] = << >> /\ DOMAIN backlog = {} /\ link[p[1]] = [entry |-> "none", conn |-> 0]
  BY <1>1 DEF Init
<1>4. ~ Known(p) /\ ~ Waiting(p)
  BY <1>2, <1>3 DEF Known, Waiting
<1> QED BY <1>2, <1>3, <1>4 DEF Record, Inq, In, Out, Queue

LEMMA InitSync ==
  ASSUME Init
  PROVE  SyncInv
<1>1. /\ Len(<< >>) = 0 /\ NewPeer.state = "INIT" /\ NewPeer.conn = 0 /\ NewPeer.error = FALSE /\ NewPeer.got = FALSE
      /\ IsUp(NewPeer) = FALSE
  BY DEF NewPeer, IsUp
<1>2. LabelInv
  <2>1. ASSUME NEW R, NEW h \in BOOLEAN PROVE InOK(<< >>, R, h)
    BY <1>1 DEF InOK
  <2>2. ASSUME NEW S PROVE Within(<< >>, S)
    BY <1>1 DEF Within
  <2>3. ASSUME NEW R PROVE Settled(<< >>, R, FALSE)
    BY <1>1 DEF Settled, CrossOK, HotAt
  <2>4. ASSUME NEW q \in Ids PROVE LabelParts(q) /\ TurnParts(q)
    <3>1. /\ ~ Known(q) /\ Record(q) = NewPeer /\ Inq(q) = << >> /\ In(q) = << >> /\ Out(q) = << >>
          /\ link[q[1]].entry = "none" /\ link[q[1]].conn = 0
      BY InitSide
    <3>2. LabelParts(q)
      <4>1. \A k : Reached(NewPeer, k) \in BOOLEAN
        BY LabelTypes
      <4> QED BY <1>1, <2>1, <2>2, <3>1, <4>1 DEF LabelParts
    <3>3. TurnParts(q)
      <4>1. \A k : Behind(NewPeer, k) \in BOOLEAN
        BY LabelTypes
      <4>2. \A k \in 1 .. MaxConns : InOK(Inq(q), Announced(q, k), Behind(Record(q), k))
        BY <2>1, <3>1, <4>1
      <4>3. InOK(Inq(q), Turns(q), IsUp(Record(q))) /\ Settled(Inq(q), Turns(q), IsUp(Record(q)))
        BY <1>1, <2>1, <2>3, <3>1
      <4>4. Record(q).conn = link[q[1]].conn /\ Len(Out(q)) = 0
        BY <1>1, <3>1
      <4> QED BY <4>2, <4>3, <4>4 DEF TurnParts
    <3> QED BY <3>2, <3>3
  <2> QED BY <2>4 DEF LabelInv
<1>3. OrderInv
  <2> SUFFICES ASSUME NEW q \in Ids, NEW p \in Ids, NEW k \in 1 .. MaxConns PROVE Ordered(q, p, k)
    BY DEF OrderInv
  <2>1. Out(q) = << >> /\ In(p) = << >> /\ ~ Joint(q[1], k)
    BY InitSide DEF Joint
  <2>2. ASSUME NEW g, NEW h, NEW d PROVE OrderOK(g, q, p, k, h, d)
    BY <1>1, <2>1 DEF OrderOK, OutOK, InOK
  <2> QED BY <2>2 DEF Ordered
<1>4. CleanInv
  <2> SUFFICES ASSUME NEW p \in Ids
               PROVE  /\ PeerOK(p, Record(p)) /\ Through(p, Record(p), Queue(p))
                      /\ CleanParts(p) /\ WaitsOnce(p, Record(p), Queue(p))
    BY DEF CleanInv
  <2>1. Record(p) = NewPeer
    BY InitSide
  <2>2. PeerOK(p, NewPeer)
    BY <1>1 DEF PeerOK
  <2> QED BY <1>1, <2>1, <2>2 DEF CleanParts, WaitsOnce, Through
<1>5. WaitInv
  <2> SUFFICES ASSUME NEW p \in Ids PROVE ~ InPending(main[Owner(p)], p)
    BY DEF WaitInv
  <2>1. main[Owner(p)].sync_pending = << >>
    BY InitSide DEF Queue
  <2> QED BY <1>1, <2>1 DEF InPending
<1>6. PollInv
  <2>1. poll = [n \in Nodes |-> [msgstate |-> "TYPE", current_peer |-> None, took |-> FALSE]]
    BY DEF Init
  <2> QED BY <2>1 DEF PollInv, Polls, Alive
<1> QED BY <1>2, <1>3, <1>4, <1>5, <1>6, InitSys DEF SyncInv

-----------------------------------------------------------------------------
(* The theorems.                                                           *)

LEMMA CleanPeer ==
  ASSUME SyncInv, NEW p \in Peers, ~ Upset(p)
  PROVE  /\ p \in Ids /\ Known(p) /\ Record(p) = Peer(p) /\ Peer(p) \in PeerSet
         /\ PeerOK(p, Peer(p)) /\ CleanParts(p)
<1>1. TypeInv /\ CleanInv
  BY DEF SyncInv, SysInv
<1>2. p \in Ids /\ Known(p)
  BY <1>1, PeerKnown
<1>3. Record(p) = Peer(p) /\ Record(p) \in PeerSet
  BY <1>1, <1>2, RecordFacts
<1>4. Clean(p)
  BY <1>3 DEF Upset, Clean
<1>5. PeerOK(p, Record(p)) /\ CleanParts(p)
  BY <1>1, <1>2, <1>4 DEF CleanInv
<1> QED BY <1>2, <1>3, <1>5

\* Who is through with the handshake has asked and heard all that there is to ask.
LEMMA ThroughPeer ==
  ASSUME NEW p, NEW r, PeerOK(p, r), r.state = "CONNECTED", r.phase \in {"SYNC", "RUNNING"}
  PROVE  /\ r.conn # 0 /\ r.sync_requested = Full(p)
         /\ r.our_runtime = OurTime(p, r.conn) /\ r.runtime = TheirTime(p, r.conn)
         /\ r.sync_requested # {} => r.send_state = SendState(r, p) /\ ~ (Auth(p) /\ AskedAuth(p))
<1>1. r.handshake_done = {"WE", "PEER"}
  BY DEF PeerOK
<1> QED BY <1>1 DEF PeerOK

\* Who runs and did not send its state was to get the one of the other side.
LEMMA SyncFollows ==
  ASSUME SyncInv
  PROVE  HasState /\ ErrorOnlyIfUpset
<1>1. ErrorOnlyIfUpset
  BY CleanPeer DEF ErrorOnlyIfUpset, CleanParts
<1>2. HasState
  <2> SUFFICES ASSUME NEW p \in Peers, Peer(p).state = "CONNECTED", Peer(p).phase = "RUNNING",
                      Peer(p).sync_requested # {}, ~ Peer(p).send_state, ~ Upset(p)
               PROVE  Peer(p).got
    BY DEF HasState
  <2>1. PICK r : r = Peer(p)
    OBVIOUS
  <2>2. p \in Ids /\ PeerOK(p, r) /\ CleanParts(p) /\ Record(p) = r /\ r \in PeerSet
    BY <2>1, CleanPeer
  <2>3. /\ r.sync_requested = Full(p) /\ r.our_runtime = OurTime(p, r.conn) /\ r.runtime = TheirTime(p, r.conn)
        /\ Full(p) # {} /\ r.send_state = SendState(r, p) /\ ~ (Auth(p) /\ AskedAuth(p))
    BY <2>1, <2>2, ThroughPeer
  <2>4. cf \in Configs /\ r.conn \in 0 .. MaxConns
    BY <2>2 DEF SyncInv, SysInv, TypeInv, PeerSet
  <2>5. Gets(p, r.conn)
    BY <2>1, <2>2, <2>3, <2>4, DecidesSends
  <2> QED BY <2>1, <2>2, <2>5 DEF CleanParts, IsUp
<1> QED BY <1>1, <1>2

\* What the ends of a connection decide agrees.
LEMMA RolesFollow ==
  ASSUME SyncInv
  PROVE  RolesAgree
<1>0. TypeInv /\ cf \in Configs /\ LabelInv
  BY DEF SyncInv, SysInv, TypeInv
<1> SUFFICES ASSUME NEW a \in Peers, NEW b \in Peers, Ends(a, b), ~ Upset(a)
             PROVE  \/ Peer(a).sync_requested = {} /\ Peer(b).sync_requested = {}
                    \/ /\ Peer(a).sync_requested # {} /\ Peer(b).sync_requested # {}
                       /\ Peer(a).send_state # Peer(b).send_state
  BY DEF RolesAgree
<1>1. PICK k : k = Peer(a).conn
  OBVIOUS
<1>2. /\ Peer(a).state = "CONNECTED" /\ Peer(a).phase \in {"SYNC", "RUNNING"}
      /\ Peer(b).state = "CONNECTED" /\ Peer(b).phase \in {"SYNC", "RUNNING"}
      /\ a[2] = 0 /\ b = <<a[1], k>> /\ b[1] = a[1] /\ b[2] = k
  BY <1>1 DEF Ends
<1>3. a \in Ids /\ PeerOK(a, Peer(a)) /\ Peer(a) \in PeerSet
  BY CleanPeer
<1>4. /\ k # 0 /\ Peer(a).sync_requested = Full(a)
      /\ Peer(a).our_runtime = OurTime(a, k) /\ Peer(a).runtime = TheirTime(a, k)
      /\ Peer(a).sync_requested # {} => Peer(a).send_state = SendState(Peer(a), a) /\ ~ (Auth(a) /\ AskedAuth(a))
  BY <1>1, <1>2, <1>3, ThroughPeer
<1>5. b \in Ids /\ Peer(b).conn = k
  <2>1. b \in Ids /\ Known(b)
    BY <1>0, PeerKnown
  <2>2. LabelParts(b) /\ Record(b) = Peer(b)
    BY <1>0, <2>1, RecordFacts DEF LabelInv
  <2> QED BY <1>2, <1>4, <2>1, <2>2 DEF LabelParts
<1>6. ~ Upset(b)
  BY <1>1, <1>2, <1>5 DEF Upset
<1>7. PeerOK(b, Peer(b))
  BY <1>6, CleanPeer
<1>8. /\ Peer(b).sync_requested = Full(b)
      /\ Peer(b).our_runtime = OurTime(b, k) /\ Peer(b).runtime = TheirTime(b, k)
      /\ Peer(b).sync_requested # {} => Peer(b).send_state = SendState(Peer(b), b)
  BY <1>2, <1>5, <1>7, ThroughPeer
<1>9. Owner(b) = Other(a) /\ Other(b) = Owner(a)
  BY <1>2, <1>4 DEF Owner, Other
<1>10. /\ Wants(b) <=> Asked(a)
       /\ Asked(b) <=> Wants(a)
       /\ Auth(b) <=> AskedAuth(a)
       /\ AskedAuth(b) <=> Auth(a)
       /\ OurTime(b, k) = TheirTime(a, k) /\ TheirTime(b, k) = OurTime(a, k)
  BY <1>2, <1>9 DEF Wants, Asked, Auth, AskedAuth, OurTime, TheirTime
<1>11. /\ Full(a) = {} <=> ~ Wants(a) /\ ~ Asked(a)
       /\ Full(b) = {} <=> ~ Wants(b) /\ ~ Asked(b)
  BY <1>0, <1>3, <1>5, FullEmpty
<1>12. CASE Full(a) = {}
  BY <1>4, <1>8, <1>10, <1>11, <1>12
<1>13. CASE Full(a) # {}
  <2>1. Full(b) # {} /\ (Wants(a) \/ Asked(a)) /\ ~ (Auth(a) /\ AskedAuth(a))
    BY <1>4, <1>10, <1>11, <1>13
  <2>2. PICK u : u = SendState(Peer(a), a)
    OBVIOUS
  <2>3. PICK v : v = SendState(Peer(b), b)
    OBVIOUS
  <2>4. u = IF ~ (Wants(a) /\ Asked(a)) THEN Asked(a)
            ELSE IF Auth(a) THEN TRUE
            ELSE IF AskedAuth(a) THEN FALSE
            ELSE IF OurTime(a, k) = TheirTime(a, k) THEN a[2] = 0
            ELSE OurTime(a, k) > TheirTime(a, k)
    BY <1>0, <1>3, <1>4, <2>2, SendValue
  <2>5. v = IF ~ (Wants(b) /\ Asked(b)) THEN Asked(b)
            ELSE IF Auth(b) THEN TRUE
            ELSE IF AskedAuth(b) THEN FALSE
            ELSE IF OurTime(b, k) = TheirTime(b, k) THEN b[2] = 0
            ELSE OurTime(b, k) > TheirTime(b, k)
    BY <1>0, <1>5, <1>8, <2>3, SendValue
  <2>6. u # v
    <3>1. CASE ~ (Wants(a) /\ Asked(a))
      BY <1>10, <2>1, <2>4, <2>5, <3>1 DEF Wants, Asked
    <3>2. CASE Wants(a) /\ Asked(a) /\ (Auth(a) \/ AskedAuth(a))
      BY <1>10, <2>1, <2>4, <2>5, <3>2
    <3>3. CASE Wants(a) /\ Asked(a) /\ ~ Auth(a) /\ ~ AskedAuth(a)
      <4>1. PICK x \in Nat, y \in Nat : x = OurTime(a, k) /\ y = TheirTime(a, k)
        <5>1. k \in 0 .. MaxConns
          BY <1>1, <1>3 DEF PeerSet
        <5> QED BY <1>0, <1>3, <5>1, TimeType
      <4>2. u = IF x = y THEN a[2] = 0 ELSE x > y
        BY <2>4, <3>3, <4>1
      <4>3. v = IF y = x THEN b[2] = 0 ELSE y > x
        BY <1>10, <2>5, <3>3, <4>1
      <4>4. CASE x = y
        <5>1. u = (a[2] = 0) /\ v = (b[2] = 0)
          BY <4>2, <4>3, <4>4
        <5>2. u = TRUE /\ v = FALSE
          BY <1>2, <1>4, <5>1
        <5> QED BY <5>2
      <4>5. CASE x # y
        <5>1. u = (x > y) /\ v = (y > x)
          BY <4>2, <4>3, <4>5
        <5> QED BY <4>5, <5>1
      <4> QED BY <4>4, <4>5
    <3> QED BY <3>1, <3>2, <3>3
  <2> QED BY <1>4, <1>8, <1>13, <2>1, <2>2, <2>3, <2>6
<1> QED BY <1>12, <1>13

\* Whatever is lost, closed and connected again, as long as no argument was handled
\* for the wrong peer: the main processes, the pipes and the connections are of their
\* types; a request is under way only where the configuration says so; a number of a
\* connection is not used before the connection is made; and a main process hears
\* CONNECTED before anything else of a peer that it does not know, so that DoMessage
\* never goes through a null current_peer and all processes run on (PollInv).
THEOREM SystemCorrect == Spec => [](None \in upset \/ (SysInv /\ PollInv))
<1>1. Init => None \in upset \/ SyncInv
  BY InitSync
<1>2. (None \in upset \/ SyncInv) /\ [Next]_vars => (None \in upset \/ SyncInv)'
  BY NextSync
<1>3. None \in upset \/ SyncInv => None \in upset \/ (SysInv /\ PollInv)
  BY DEF SyncInv
<1> QED BY <1>1, <1>2, <1>3, PTL DEF Spec

\* For any number of nodes and links, any choice of who wants whose state, any run
\* times, losses, retries and calls of disconnect: the two ends of a connection agree
\* on who sends its state, unless the connection was mixed up (HandshakeDone).
THEOREM RolesAgreeCorrect == Spec => []RolesAgree
<1>1. Init => None \in upset \/ SyncInv
  BY InitSync
<1>2. (None \in upset \/ SyncInv) /\ [Next]_vars => (None \in upset \/ SyncInv)'
  BY NextSync
<1>3. None \in upset \/ SyncInv => RolesAgree
  BY RolesFollow DEF RolesAgree, Upset
<1> QED BY <1>1, <1>2, <1>3, PTL DEF Spec

\* For the same systems: a peer that goes on without sending its state, after a
\* synchronization was asked for, has the state of the other side, unless the
\* connection was mixed up (ProcessPhaseDone, ProcessSerialization).
THEOREM HasStateCorrect == Spec => []HasState
<1>1. Init => None \in upset \/ SyncInv
  BY InitSync
<1>2. (None \in upset \/ SyncInv) /\ [Next]_vars => (None \in upset \/ SyncInv)'
  BY NextSync
<1>3. None \in upset \/ SyncInv => HasState
  BY SyncFollows DEF HasState, Upset
<1> QED BY <1>1, <1>2, <1>3, PTL DEF Spec

\* For the same systems: a peer is found in error ("peer did not send version",
\* "unexpected phase_done") only if its connection was mixed up (DoMessage,
\* ProcessPhaseDone).
THEOREM ErrorOnlyIfUpsetCorrect == Spec => []ErrorOnlyIfUpset
<1>1. Init => None \in upset \/ SyncInv
  BY InitSync
<1>2. (None \in upset \/ SyncInv) /\ [Next]_vars => (None \in upset \/ SyncInv)'
  BY NextSync
<1>3. None \in upset \/ SyncInv => ErrorOnlyIfUpset
  BY SyncFollows DEF ErrorOnlyIfUpset, Upset
<1> QED BY <1>1, <1>2, <1>3, PTL DEF Spec
=============================================================================
