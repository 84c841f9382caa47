--------------------------- MODULE MsgQueue_proofs ---------------------------
(***************************************************************************)
(* Proofs about MsgQueue, for any number of sub-queues and any number of   *)
(* messages.                                                               *)
(***************************************************************************)
EXTENDS MsgQueue, TLAPS

\* How far sub-queue i is ahead of sub-queue p, going round.
Dist(i, p) == IF i >= p THEN i - p ELSE i - p + NumQueues

\* The layout of the messages a+1 .. b in the sub-queues m, with the read
\* pointer at p and the write pointer at w.
LayOut(m, p, w, a, b) ==
  /\ a <= b
  /\ \A i \in Slots :
       /\ \A k \in 1 .. Len(m[i]) : m[i][k] = a + Dist(i, p) + (k - 1) * NumQueues + 1
       /\ (Len(m[i]) - 1) * NumQueues + Dist(i, p) < b - a
       /\ b - a <= Len(m[i]) * NumQueues + Dist(i, p)
  /\ b - a = Dist(w, p) + Len(m[w]) * NumQueues

-----------------------------------------------------------------------------
(* Arithmetic of the pointers.                                              *)

LEMMA TimesLess ==
  ASSUME NEW x \in Int, NEW y \in Int, x < y
  PROVE  x * NumQueues <= y * NumQueues - NumQueues
<1>1. NumQueues \in Nat /\ NumQueues > 0
    BY NumQueuesAssumption
<1>2. PICK d \in Nat : y = x + 1 + d
    <2>1. y - x - 1 \in Nat /\ y = x + 1 + (y - x - 1)
        OBVIOUS
    <2> QED BY <2>1
<1>3. y * NumQueues = x * NumQueues + NumQueues + d * NumQueues
    BY <1>1, <1>2
<1>4. d * NumQueues >= 0
    BY <1>1
<1>5. x * NumQueues \in Int /\ y * NumQueues \in Int /\ d * NumQueues \in Int
    BY <1>1
<1> QED BY <1>1, <1>3, <1>4, <1>5

LEMMA TimesNat ==
  ASSUME NEW x \in Nat
  PROVE  x * NumQueues \in Nat
BY NumQueuesAssumption

LEMMA DistType ==
  ASSUME NEW i \in Slots, NEW p \in Slots
  PROVE  /\ Dist(i, p) \in Int /\ 0 <= Dist(i, p) /\ Dist(i, p) < NumQueues
         /\ Dist(i, p) = 0 <=> i = p
BY NumQueuesAssumption DEF Dist, Slots

LEMMA DistInjective ==
  ASSUME NEW i \in Slots, NEW j \in Slots, NEW p \in Slots, i # j
  PROVE  Dist(i, p) # Dist(j, p)
BY NumQueuesAssumption DEF Dist, Slots

\* Moving the place measured one on, and moving the origin one on.
LEMMA DistAdvance ==
  ASSUME NEW i \in Slots, NEW p \in Slots
  PROVE  /\ Advance(p) \in Slots
         /\ Advance(i) # p => Dist(Advance(i), p) = Dist(i, p) + 1
         /\ Advance(i) = p => Dist(i, p) = NumQueues - 1
         /\ i # p => Dist(i, Advance(p)) = Dist(i, p) - 1
         /\ Dist(p, Advance(p)) = NumQueues - 1
BY NumQueuesAssumption DEF Dist, Slots, Advance

-----------------------------------------------------------------------------
(* The layout survives Put and Get, whatever the two pointers are.          *)

\* Nothing at the read pointer: nothing at all.
LEMMA LayOutEmpty ==
  ASSUME NEW m \in [Slots -> Seq(Nat)], NEW p \in Slots, NEW w \in Slots,
         NEW a \in Nat, NEW b \in Nat, LayOut(m, p, w, a, b), m[p] = << >>
  PROVE  a = b /\ \A i \in Slots : m[i] = << >>
<1>1. NumQueues \in Nat /\ NumQueues > 0
    BY NumQueuesAssumption
<1>2. Len(m[p]) = 0 /\ Dist(p, p) = 0
    BY DistType
<1>3. a <= b /\ b - a <= Len(m[p]) * NumQueues + Dist(p, p)
    BY DEF LayOut
<1>4. a = b
    <2>1. Len(m[p]) * NumQueues = 0
        BY <1>1, <1>2
    <2> QED BY <1>2, <1>3, <2>1
<1>5. ASSUME NEW i \in Slots PROVE m[i] = << >>
    <2>1. Len(m[i]) \in Nat /\ Dist(i, p) \in Int /\ 0 <= Dist(i, p)
        BY DistType
    <2>2. (Len(m[i]) - 1) * NumQueues + Dist(i, p) < 0
        BY <1>4 DEF LayOut
    <2>3. ASSUME Len(m[i]) >= 1 PROVE FALSE
        <3>1. (Len(m[i]) - 1) * NumQueues \in Nat
            <4>1. Len(m[i]) - 1 \in Nat
                BY <2>1, <2>3
            <4> QED BY <4>1, TimesNat
        <3> QED BY <1>1, <2>1, <2>2, <3>1
    <2>4. Len(m[i]) = 0
        BY <2>1, <2>3
    <2> QED BY <2>4
<1> QED BY <1>4, <1>5

LEMMA LayOutPut ==
  ASSUME NEW m \in [Slots -> Seq(Nat)], NEW p \in Slots, NEW w \in Slots,
         NEW a \in Nat, NEW b \in Nat, LayOut(m, p, w, a, b)
  PROVE  LayOut([m EXCEPT ![w] = Append(@, b + 1)], p, Advance(w), a, b + 1)
<1> DEFINE n == [m EXCEPT ![w] = Append(@, b + 1)]
           L(i) == Len(m[i])
           T(i) == L(i) * NumQueues
           U(i) == Len(n[i]) * NumQueues
           V(i) == (Len(n[i]) - 1) * NumQueues
           v == Advance(w)
<1>1. NumQueues \in Nat /\ NumQueues > 0 /\ v \in Slots
    BY NumQueuesAssumption, DistAdvance
<1>2. \A i \in Slots : L(i) \in Nat /\ T(i) \in Int
    BY <1>1
<1>3. \A i \in Slots : /\ (L(i) - 1) * NumQueues = T(i) - NumQueues
                       /\ (L(i) + 1) * NumQueues = T(i) + NumQueues
    BY <1>1, <1>2
<1>4. \A i \in Slots : Dist(i, p) \in Int /\ 0 <= Dist(i, p) /\ Dist(i, p) < NumQueues
    BY DistType
<1>5. b - a = Dist(w, p) + T(w)
    BY DEF LayOut
<1>6. \A i \in Slots : /\ T(i) - NumQueues + Dist(i, p) < b - a
                       /\ b - a <= T(i) + Dist(i, p)
    BY <1>3 DEF LayOut
<1>7. Len(n[w]) = L(w) + 1 /\ \A i \in Slots : i # w => n[i] = m[i]
    OBVIOUS
<1>8. \A i \in Slots, j \in Slots : L(i) < L(j) => T(i) <= T(j) - NumQueues
    BY <1>2, TimesLess
<1>9. ASSUME NEW i \in Slots, NEW k \in 1 .. Len(n[i])
      PROVE  n[i][k] = a + Dist(i, p) + (k - 1) * NumQueues + 1
    <2>1. CASE k \in 1 .. L(i)
        <3>1. n[i][k] = m[i][k]
            BY <1>2, <1>7, <2>1
        <3> QED BY <2>1, <3>1 DEF LayOut
    <2>2. CASE k \notin 1 .. L(i)
        <3>1. i = w /\ k = L(w) + 1
            BY <1>2, <1>7, <1>9, <2>2
        <3>2. n[i][k] = b + 1
            BY <1>2, <3>1
        <3>3. (k - 1) * NumQueues = T(w)
            BY <1>2, <3>1
        <3> HIDE DEF T, L, n
        <3>4. T(w) \in Int /\ Dist(w, p) \in Int
            BY <1>2, <1>4
        <3> QED BY SMTT(30), <1>5, <3>1, <3>2, <3>3, <3>4
    <2> QED BY <2>1, <2>2
<1>10. \A i \in Slots : i # w => U(i) = T(i) /\ V(i) = T(i) - NumQueues
    BY <1>3, <1>7
<1>11. V(w) = T(w) /\ U(w) = T(w) + NumQueues
    BY <1>1, <1>2, <1>3, <1>7
<1>12. ASSUME NEW i \in Slots
       PROVE  V(i) + Dist(i, p) < (b + 1) - a /\ (b + 1) - a <= U(i) + Dist(i, p)
    <2> HIDE DEF T, U, V
    <2>0. /\ T(i) \in Int /\ Dist(i, p) \in Int /\ 0 <= Dist(i, p) /\ Dist(i, p) < NumQueues
          /\ T(w) \in Int /\ Dist(w, p) \in Int /\ 0 <= Dist(w, p) /\ Dist(w, p) < NumQueues
          /\ T(i) - NumQueues + Dist(i, p) < b - a /\ b - a <= T(i) + Dist(i, p)
        BY <1>2, <1>4, <1>6
    <2>1. CASE i = w
        BY SMTT(30), <1>1, <1>5, <1>11, <2>0, <2>1
    <2>2. CASE i # w
        <3>1. b - a < T(i) + Dist(i, p)
            <4> SUFFICES ASSUME b - a >= T(i) + Dist(i, p) PROVE FALSE
                BY <2>0
            <4>1. Dist(i, p) < Dist(w, p) \/ Dist(w, p) < Dist(i, p)
                BY <2>0, <2>2, DistInjective
            <4>2. CASE L(i) < L(w)
                <5>1. T(i) <= T(w) - NumQueues
                    BY <1>8, <4>2
                <5> QED BY SMTT(30), <1>1, <1>5, <2>0, <5>1
            <4>3. CASE L(w) < L(i)
                <5>1. T(w) <= T(i) - NumQueues
                    BY <1>8, <4>3
                <5> QED BY SMTT(30), <1>1, <1>5, <2>0, <5>1
            <4>4. CASE L(w) = L(i)
                <5>1. T(i) = T(w)
                    BY <4>4 DEF T
                <5> QED BY <1>5, <2>0, <4>1, <5>1
            <4> QED BY <1>2, <4>2, <4>3, <4>4
        <3>2. U(i) = T(i) /\ V(i) = T(i) - NumQueues
            BY <1>10, <2>2
        <3> QED BY SMTT(30), <1>1, <2>0, <3>1, <3>2
    <2> QED BY <2>1, <2>2
<1>13. (b + 1) - a = Dist(v, p) + U(v)
    <2> HIDE DEF T, U, V
    <2>0. /\ T(v) \in Int /\ Dist(v, p) \in Int /\ 0 <= Dist(v, p) /\ Dist(v, p) < NumQueues
          /\ T(w) \in Int /\ Dist(w, p) \in Int /\ 0 <= Dist(w, p) /\ Dist(w, p) < NumQueues
          /\ T(v) - NumQueues + Dist(v, p) < b - a /\ b - a <= T(v) + Dist(v, p)
        BY <1>1, <1>2, <1>4, <1>6
    <2>1. CASE v # p
        <3>1. Dist(v, p) = Dist(w, p) + 1
            BY <2>1, DistAdvance
        <3>2. v # w
            BY <3>1, <1>1, <1>4
        <3>3. NumQueues >= 2
            BY <1>1, <1>4, <3>1
        <3>4. T(v) = T(w)
            <4>1. CASE L(w) < L(v)
                <5>1. T(w) <= T(v) - NumQueues
                    BY <1>1, <1>8, <4>1
                <5> HIDE DEF v
                <5> QED BY <1>1, <1>5, <2>0, <3>1, <5>1
            <4>2. CASE L(v) < L(w)
                <5>1. T(v) <= T(w) - NumQueues
                    BY <1>1, <1>8, <4>2
                <5> HIDE DEF v
                <5> QED BY SMTT(30), <1>1, <1>5, <2>0, <3>1, <3>3, <5>1
            <4>3. CASE L(v) = L(w)
                BY <4>3 DEF T
            <4> QED BY <1>1, <1>2, <4>1, <4>2, <4>3
        <3>5. U(v) = T(v)
            BY <1>1, <1>10, <3>2
        <3> HIDE DEF v
        <3> QED BY SMTT(30), <1>5, <2>0, <3>1, <3>4, <3>5
    <2>2. CASE v = p
        <3>1. Dist(w, p) = NumQueues - 1 /\ Dist(v, p) = 0
            BY <2>2, DistAdvance, DistType
        <3>2. CASE v = w
            <4>1. U(v) = T(w) + NumQueues
                BY <1>11, <3>2
            <4>2. (b + 1) - a = 0 + (T(w) + NumQueues)
                BY SMTT(30), <1>1, <1>5, <2>0, <3>1
            <4> QED BY <3>1, <4>1, <4>2
        <3>3. CASE v # w
            <4>1. NumQueues >= 2
                BY <1>1, <3>1, <3>3, <2>2, DistType
            <4>2. T(v) = T(w) + NumQueues
                <5>1. CASE L(w) + 1 < L(v)
                    <6>1. T(w) + NumQueues <= T(v) - NumQueues
                        <7> HIDE DEF L
                        <7>0. L(w) + 1 \in Int /\ L(v) \in Int
                            BY <1>1, <1>2
                        <7>1. (L(w) + 1) * NumQueues <= L(v) * NumQueues - NumQueues
                            BY <5>1, <7>0, TimesLess
                        <7> QED BY <1>3, <7>1 DEF T
                    <6> HIDE DEF v
                    <6> QED BY <1>1, <1>5, <2>0, <3>1, <6>1
                <5>2. CASE L(v) < L(w)
                    <6>1. T(v) <= T(w) - NumQueues
                        BY <1>1, <1>8, <5>2
                    <6> HIDE DEF v
                    <6> QED BY <1>1, <1>5, <2>0, <3>1, <4>1, <6>1
                <5>3. CASE L(v) = L(w)
                    <6>1. T(v) = T(w)
                        BY <5>3 DEF T
                    <6> HIDE DEF v
                    <6> QED BY <1>1, <1>5, <2>0, <3>1, <4>1, <6>1
                <5>4. CASE L(v) = L(w) + 1
                    BY <1>3, <5>4 DEF T
                <5> QED BY <1>1, <1>2, <5>1, <5>2, <5>3, <5>4
            <4>3. U(v) = T(v)
                BY <1>1, <1>10, <3>3
            <4>4. (b + 1) - a = 0 + (T(w) + NumQueues)
                BY <1>1, <1>5, <2>0, <3>1
            <4> QED BY <3>1, <4>2, <4>3, <4>4
        <3> QED BY <3>2, <3>3
    <2> QED BY <2>1, <2>2
<1>14. a <= b + 1
    BY DEF LayOut
<1>15. LayOut(n, p, v, a, b + 1)
    BY <1>9, <1>12, <1>13, <1>14 DEF LayOut
<1> QED BY <1>15

LEMMA LayOutGet ==
  ASSUME NEW m \in [Slots -> Seq(Nat)], NEW p \in Slots, NEW w \in Slots,
         NEW a \in Nat, NEW b \in Nat, LayOut(m, p, w, a, b), m[p] # << >>
  PROVE  /\ Head(m[p]) = a + 1
         /\ a < b
         /\ LayOut([m EXCEPT ![p] = Tail(@)], Advance(p), w, a + 1, b)
<1> DEFINE n == [m EXCEPT ![p] = Tail(@)]
           L(i) == Len(m[i])
           T(i) == L(i) * NumQueues
           U(i) == Len(n[i]) * NumQueues
           V(i) == (Len(n[i]) - 1) * NumQueues
           q == Advance(p)
<1>1. NumQueues \in Nat /\ NumQueues > 0 /\ q \in Slots
    BY NumQueuesAssumption, DistAdvance
<1>2. /\ \A i \in Slots : L(i) \in Nat /\ T(i) \in Int
      /\ L(p) >= 1
    BY <1>1
<1>3. \A i \in Slots : /\ (L(i) - 1) * NumQueues = T(i) - NumQueues
                       /\ (L(i) - 2) * NumQueues = T(i) - NumQueues - NumQueues
    BY <1>1, <1>2
<1>4. \A i \in Slots : Dist(i, p) \in Int /\ 0 <= Dist(i, p) /\ Dist(i, p) < NumQueues
    BY DistType
<1>5. Dist(p, p) = 0 /\ Dist(p, q) = NumQueues - 1
    BY DistType, DistAdvance
<1>6. \A i \in Slots : i # p => Dist(i, q) = Dist(i, p) - 1
    BY DistAdvance
<1>7. \A i \in Slots : /\ T(i) - NumQueues + Dist(i, p) < b - a
                       /\ b - a <= T(i) + Dist(i, p)
    BY <1>3 DEF LayOut
<1>8. Len(n[p]) = L(p) - 1 /\ \A i \in Slots : i # p => n[i] = m[i]
    BY <1>2
<1>9. Head(m[p]) = a + 1
    <2>1. m[p][1] = a + Dist(p, p) + (1 - 1) * NumQueues + 1
        BY <1>2 DEF LayOut
    <2>2. (1 - 1) * NumQueues = 0
        BY <1>1
    <2> QED BY <1>5, <2>1, <2>2
<1>10. a < b
    <2>1. T(p) - NumQueues >= 0
        <3>1. L(p) - 1 \in Nat
            BY <1>2
        <3>2. (L(p) - 1) * NumQueues \in Nat
            BY <3>1, TimesNat
        <3> QED BY <1>3, <3>2
    <2> HIDE DEF T
    <2>2. T(p) \in Int /\ T(p) - NumQueues + Dist(p, p) < b - a
        BY <1>2, <1>7
    <2> QED BY <1>1, <1>5, <2>1, <2>2
<1>11. ASSUME NEW i \in Slots, NEW k \in 1 .. Len(n[i])
       PROVE  n[i][k] = (a + 1) + Dist(i, q) + (k - 1) * NumQueues + 1
    <2> DEFINE K == (k - 1) * NumQueues
    <2>1. K \in Int /\ ((k + 1) - 1) * NumQueues = K + NumQueues
        BY <1>1
    <2>2. CASE i = p
        <3>1. k + 1 \in 1 .. L(p) /\ n[i][k] = m[p][k + 1]
            BY <1>2, <1>8, <2>2
        <3>2. m[p][k + 1] = a + Dist(p, p) + ((k + 1) - 1) * NumQueues + 1
            BY <3>1 DEF LayOut
        <3> HIDE DEF K, n, q
        <3>3. n[i][k] = (a + 1) + Dist(i, q) + K + 1
            BY <1>1, <1>5, <2>1, <2>2, <3>1, <3>2
        <3> QED BY <3>3 DEF K
    <2>3. CASE i # p
        <3>1. m[i][k] = a + Dist(i, p) + K + 1
            BY <1>8, <2>3 DEF LayOut
        <3>0. n[i] = m[i] /\ Dist(i, q) = Dist(i, p) - 1 /\ Dist(i, p) \in Int
            BY <1>4, <1>6, <1>8, <2>3
        <3> HIDE DEF K, n, q
        <3>2. n[i][k] = (a + 1) + Dist(i, q) + K + 1
            BY <2>1, <3>0, <3>1
        <3> QED BY <3>2 DEF K
    <2> QED BY <2>2, <2>3
<1>12. ASSUME NEW i \in Slots
       PROVE  V(i) + Dist(i, q) < b - (a + 1) /\ b - (a + 1) <= U(i) + Dist(i, q)
    <2>1. CASE i = p
        <3>1. V(i) = T(p) - NumQueues - NumQueues /\ U(i) = T(p) - NumQueues
            <4>1. Len(n[i]) = L(p) - 1 /\ Len(n[i]) - 1 = L(p) - 2
                BY <1>2, <1>8, <2>1
            <4> QED BY <1>3, <4>1
        <3> HIDE DEF T, U, V
        <3>2. /\ T(p) \in Int
              /\ T(p) - NumQueues + Dist(p, p) < b - a /\ b - a <= T(p) + Dist(p, p)
            BY <1>2, <1>7
        <3> HIDE DEF q
        <3> QED BY <1>1, <1>5, <2>1, <3>1, <3>2
    <2>2. CASE i # p
        <3>1. U(i) = T(i) /\ V(i) = T(i) - NumQueues
            BY <1>3, <1>8, <2>2
        <3> HIDE DEF T, U, V
        <3>2. /\ T(i) \in Int /\ Dist(i, p) \in Int /\ Dist(i, q) = Dist(i, p) - 1
              /\ T(i) - NumQueues + Dist(i, p) < b - a /\ b - a <= T(i) + Dist(i, p)
            BY <1>2, <1>4, <1>6, <1>7, <2>2
        <3> HIDE DEF q
        <3> QED BY SMTT(30), <1>1, <3>1, <3>2
    <2> QED BY <2>1, <2>2
<1>13. b - (a + 1) = Dist(w, q) + U(w)
    <2>1. b - a = Dist(w, p) + T(w)
        BY DEF LayOut
    <2>2. CASE w = p
        <3>1. U(w) = T(p) - NumQueues
            BY <1>3, <1>8, <2>2
        <3> HIDE DEF T, U, V
        <3>2. T(p) \in Int
            BY <1>2
        <3> HIDE DEF q
        <3> QED BY <1>1, <1>5, <2>1, <2>2, <3>1, <3>2
    <2>3. CASE w # p
        <3>1. U(w) = T(w)
            BY <1>8, <2>3
        <3> HIDE DEF T, U, V
        <3>2. T(w) \in Int /\ Dist(w, p) \in Int /\ Dist(w, q) = Dist(w, p) - 1
            BY <1>2, <1>4, <1>6, <2>3
        <3> HIDE DEF q
        <3> QED BY SMTT(30), <2>1, <3>1, <3>2
    <2> QED BY <2>2, <2>3
<1>14. a + 1 <= b
    BY <1>10
<1>15. LayOut(n, q, w, a + 1, b)
    BY <1>11, <1>12, <1>13, <1>14 DEF LayOut
<1> QED BY <1>9, <1>10, <1>15

-----------------------------------------------------------------------------
(* The inductive invariant.                                                 *)

\* Where the pointers will be once the step under way is over.
ReadAt == IF rpc = "advance" THEN Advance(read_ptr) ELSE read_ptr
WriteAt == IF wpc = "signal" THEN Advance(write_ptr) ELSE write_ptr

Striped == LayOut(messages, ReadAt, WriteAt, Popped, Pushed) /\ data = Popped

\* Who holds which mutex, and what holding it keeps true.
ReaderLocks ==
  /\ rpc \in {"locked", "towait", "pop", "advance"} => mutex[read_ptr] = "reader"
  /\ rpc \in {"towait", "wait", "woken", "pop", "advance"} => rheld = read_ptr
  /\ rpc = "unlock" => mutex[rheld] = "reader"
  /\ rpc = "pop" => messages[read_ptr] # << >>
  /\ rpc = "towait" => messages[read_ptr] = << >>

WriterLocks ==
  /\ wpc \in {"push", "signal"} => mutex[write_ptr] = "writer" /\ wheld = write_ptr
  /\ wpc = "unlock" => mutex[wheld] = "writer"
  /\ wpc = "push" => num_writes < MaxPuts

IInv == /\ TypeOK /\ Striped /\ ReaderLocks /\ WriterLocks
        /\ NoLostWakeUp /\ KilledIsAwake

LEMMA AdvanceType == \A p \in Slots : Advance(p) \in Slots
BY NumQueuesAssumption DEF Advance, Slots

LEMMA InitInv == Init => IInv
<1> SUFFICES ASSUME Init PROVE IInv
    OBVIOUS
<1>1. 0 \in Slots
    BY NumQueuesAssumption DEF Slots
<1>2. TypeOK
    BY <1>1 DEF Init, TypeOK
<1>3. Striped
    <2>1. Dist(0, 0) = 0 /\ 0 * NumQueues = 0
        BY <1>1, DistType, NumQueuesAssumption
    <2>2. ASSUME NEW i \in Slots
          PROVE  /\ (0 - 1) * NumQueues + Dist(i, 0) < 0 - 0
                 /\ 0 - 0 <= 0 * NumQueues + Dist(i, 0)
        <3>1. Dist(i, 0) \in Int /\ 0 <= Dist(i, 0) /\ Dist(i, 0) < NumQueues
            BY <1>1, DistType
        <3>2. (0 - 1) * NumQueues = - NumQueues /\ NumQueues \in Int
            BY NumQueuesAssumption
        <3> QED BY <2>1, <3>1, <3>2
    <2>3. \A i \in Slots : Len(messages[i]) = 0
        BY DEF Init
    <2>4. LayOut(messages, 0, 0, 0, 0)
        BY <1>1, <2>1, <2>2, <2>3 DEF LayOut
    <2>5. ReadAt = 0 /\ WriteAt = 0 /\ Popped = 0 /\ Pushed = 0 /\ data = 0
        BY DEF Init, ReadAt, WriteAt, Popped, Pushed
    <2> QED BY <2>4, <2>5 DEF Striped
<1> QED BY <1>2, <1>3 DEF Init, IInv, ReaderLocks, WriterLocks, NoLostWakeUp, KilledIsAwake

LEMMA TypeInv == TypeOK /\ ReaderLocks /\ [Next]_vars => TypeOK'
<1> SUFFICES ASSUME TypeOK, ReaderLocks, [Next]_vars PROVE TypeOK'
    OBVIOUS
<1> USE AdvanceType DEF TypeOK, readerVars, writerVars
<1>1. CASE Get
    <2>1. CASE GetLock BY <2>1 DEF GetLock
    <2>2. CASE GetTest BY <2>2 DEF GetTest
    <2>3. CASE GetWait BY <2>3 DEF GetWait
    <2>4. CASE GetWoken BY <2>4 DEF GetWoken
    <2>5. CASE GetPop
        <3>1. messages[read_ptr] # << >> /\ data' = Head(messages[read_ptr])
              /\ messages' = [messages EXCEPT ![read_ptr] = Tail(@)]
            BY <2>5 DEF GetPop, ReaderLocks
        <3> QED BY <2>5, <3>1 DEF GetPop
    <2>6. CASE GetAdvance BY <2>6 DEF GetAdvance
    <2>7. CASE GetUnlock BY <2>7 DEF GetUnlock
    <2> QED BY <1>1, <2>1, <2>2, <2>3, <2>4, <2>5, <2>6, <2>7 DEF Get
<1>2. CASE MainStep
    <2>1. 0 \in Slots BY NumQueuesAssumption DEF Slots
    <2>2. CASE PutPush BY <2>2 DEF PutPush
    <2>3. CASE PutSignal BY <2>3 DEF PutSignal, Signalled
    <2>4. CASE PutUnlock BY <2>4 DEF PutUnlock
    <2>5. CASE WakeUp BY <2>5 DEF WakeUp, Signalled
    <2>6. CASE SizeLock BY <2>6 DEF SizeLock
    <2>7. CASE SizeUnlock BY <2>7 DEF SizeUnlock
    <2> QED BY <1>2, <2>2, <2>3, <2>4, <2>5, <2>6, <2>7 DEF MainStep
<1>3. CASE GetTimeout BY <1>3 DEF GetTimeout
<1>4. CASE PutLock BY <1>4 DEF PutLock
<1>5. CASE StartSize
    <2>1. 0 \in Slots BY NumQueuesAssumption DEF Slots
    <2> QED BY <1>5, <2>1 DEF StartSize
<1>6. ASSUME NEW kill \in BOOLEAN, StartWakeUp(kill) PROVE TypeOK'
    <2>1. 0 \in Slots BY NumQueuesAssumption DEF Slots
    <2> QED BY <1>6, <2>1 DEF StartWakeUp
<1>7. CASE UNCHANGED vars BY <1>7 DEF vars
<1> QED BY <1>1, <1>2, <1>3, <1>4, <1>5, <1>6, <1>7 DEF Next

\* The layout: only a push and a pop move it, and those are LayOutPut and
\* LayOutGet; the second half of Put and of Get catches up with it.
\* Only GetPop and PutPush change the contents; to every other step the layout,
\* the two counts and the last message are the same before and after.
Quiet == UNCHANGED <<messages, data, ReadAt, WriteAt, Popped, Pushed>>

Pops == /\ messages[ReadAt] # << >> /\ ReadAt' = Advance(ReadAt)
        /\ Popped' = Popped + 1 /\ data' = Head(messages[ReadAt])
        /\ messages' = [messages EXCEPT ![ReadAt] = Tail(@)]
        /\ WriteAt' = WriteAt /\ Pushed' = Pushed

Pushes == /\ Pushed < MaxPuts
          /\ WriteAt' = Advance(WriteAt) /\ Pushed' = Pushed + 1
          /\ messages' = [messages EXCEPT ![WriteAt] = Append(@, Pushed + 1)]
          /\ ReadAt' = ReadAt /\ Popped' = Popped /\ data' = data

LEMMA StepKinds == IInv /\ [Next]_vars => Quiet \/ Pops \/ Pushes
<1> SUFFICES ASSUME IInv, [Next]_vars PROVE Quiet \/ Pops \/ Pushes
    OBVIOUS
<1>1. CASE GetPop
    BY <1>1 DEF GetPop, Pops, IInv, TypeOK, ReaderLocks, ReadAt, WriteAt, Popped, Pushed,
                writerVars
<1>2. CASE PutPush
    BY <1>2 DEF PutPush, Pushes, IInv, TypeOK, WriterLocks, ReadAt, WriteAt, Popped,
                Pushed, readerVars
<1>3. ASSUME Next, ~ GetPop, ~ PutPush
      PROVE  Quiet
    <2> USE DEF Quiet, ReadAt, WriteAt, Popped, Pushed, readerVars, writerVars, IInv, TypeOK
    <2>1. CASE GetLock BY <2>1 DEF GetLock
    <2>2. CASE GetTest BY <2>2 DEF GetTest
    <2>3. CASE GetWait BY <2>3 DEF GetWait
    <2>4. CASE GetWoken BY <2>4 DEF GetWoken
    <2>5. CASE GetAdvance BY <2>5 DEF GetAdvance
    <2>6. CASE GetUnlock BY <2>6 DEF GetUnlock
    <2>7. CASE GetTimeout BY <2>7 DEF GetTimeout
    <2>8. CASE PutLock BY <2>8 DEF PutLock
    <2>9. CASE PutSignal BY <2>9 DEF PutSignal, Signalled
    <2>10. CASE PutUnlock BY <2>10 DEF PutUnlock
    <2>11. CASE WakeUp BY <2>11 DEF WakeUp, Signalled
    <2>12. CASE SizeLock BY <2>12 DEF SizeLock
    <2>13. CASE SizeUnlock BY <2>13 DEF SizeUnlock
    <2>14. CASE StartSize BY <2>14 DEF StartSize
    <2>15. ASSUME NEW kill \in BOOLEAN, StartWakeUp(kill) PROVE Quiet
        BY <2>15 DEF StartWakeUp
    <2> QED BY <1>3, <2>1, <2>2, <2>3, <2>4, <2>5, <2>6, <2>7, <2>8, <2>9, <2>10, <2>11,
               <2>12, <2>13, <2>14, <2>15 DEF Next, Get, MainStep
<1>4. CASE UNCHANGED vars
    BY <1>4 DEF vars, readerVars, writerVars, Quiet, ReadAt, WriteAt, Popped, Pushed
<1> QED BY <1>1, <1>2, <1>3, <1>4

LEMMA CountsType ==
  IInv => /\ Popped \in Nat /\ Pushed \in Nat /\ ReadAt \in Slots /\ WriteAt \in Slots
          /\ messages \in [Slots -> Seq(Nat)]
BY AdvanceType DEF IInv, TypeOK, Popped, Pushed, ReadAt, WriteAt

LEMMA StripedInv == IInv /\ [Next]_vars => Striped'
<1> SUFFICES ASSUME IInv, [Next]_vars PROVE Striped'
    OBVIOUS
<1>1. /\ Popped \in Nat /\ Pushed \in Nat /\ ReadAt \in Slots /\ WriteAt \in Slots
      /\ messages \in [Slots -> Seq(Nat)]
    BY CountsType
<1>2. LayOut(messages, ReadAt, WriteAt, Popped, Pushed) /\ data = Popped
    BY DEF IInv, Striped
<1>3. CASE Quiet
    BY <1>2, <1>3 DEF Striped, Quiet
<1>4. CASE Pops
    <2>1. /\ Head(messages[ReadAt]) = Popped + 1
          /\ LayOut(messages', ReadAt', WriteAt, Popped + 1, Pushed)
        BY <1>1, <1>2, <1>4, LayOutGet DEF Pops
    <2> QED BY <1>4, <2>1 DEF Striped, Pops
<1>5. CASE Pushes
    <2>1. LayOut(messages', ReadAt, WriteAt', Popped, Pushed + 1)
        BY <1>1, <1>2, <1>5, LayOutPut DEF Pushes
    <2> QED BY <1>2, <1>5, <2>1 DEF Striped, Pushes
<1> QED BY <1>3, <1>4, <1>5, StepKinds

\* The mutexes, the waiting reader and the killed reader.
LEMMA LocksInv ==
  IInv /\ [Next]_vars => ReaderLocks' /\ WriterLocks' /\ NoLostWakeUp' /\ KilledIsAwake'
<1> SUFFICES ASSUME IInv, [Next]_vars
             PROVE  ReaderLocks' /\ WriterLocks' /\ NoLostWakeUp' /\ KilledIsAwake'
    OBVIOUS
<1> USE NumQueuesAssumption DEF IInv, TypeOK, ReaderLocks, WriterLocks, NoLostWakeUp,
        KilledIsAwake, readerVars, writerVars
<1>1. CASE GetLock BY <1>1 DEF GetLock
<1>2. CASE GetTest BY <1>2 DEF GetTest
<1>3. CASE GetWait BY <1>3 DEF GetWait
<1>4. CASE GetWoken BY <1>4 DEF GetWoken
<1>5. CASE GetPop BY <1>5 DEF GetPop
<1>6. CASE GetAdvance BY <1>6, AdvanceType DEF GetAdvance
<1>7. CASE GetUnlock BY <1>7 DEF GetUnlock
<1>8. CASE GetTimeout BY <1>8 DEF GetTimeout
<1>9. CASE PutLock BY <1>9 DEF PutLock
<1>10. CASE PutPush BY <1>10 DEF PutPush
<1>11. CASE PutSignal BY <1>11, AdvanceType DEF PutSignal, Signalled
<1>12. CASE PutUnlock BY <1>12 DEF PutUnlock
<1>13. CASE WakeUp BY <1>13 DEF WakeUp, Signalled, Advance, Slots
<1>14. CASE SizeLock BY <1>14 DEF SizeLock
<1>15. CASE SizeUnlock BY <1>15 DEF SizeUnlock
<1>16. CASE StartSize BY <1>16 DEF StartSize
<1>17. ASSUME NEW kill \in BOOLEAN, StartWakeUp(kill)
       PROVE  ReaderLocks' /\ WriterLocks' /\ NoLostWakeUp' /\ KilledIsAwake'
    BY <1>17 DEF StartWakeUp, Slots
<1>18. CASE UNCHANGED vars BY <1>18 DEF vars
<1> QED BY <1>1, <1>2, <1>3, <1>4, <1>5, <1>6, <1>7, <1>8, <1>9, <1>10, <1>11, <1>12,
           <1>13, <1>14, <1>15, <1>16, <1>17, <1>18 DEF Next, Get, MainStep

\* The conjunction is inductive: reader and writer keep the layout and the
\* locking discipline of Queue.h whatever the interleaving.
THEOREM Invariance == Spec => []IInv
<1>1. IInv /\ [Next]_vars => IInv'
    BY TypeInv, StripedInv, LocksInv DEF IInv
<1> QED BY InitInv, <1>1, PTL DEF Spec

\* The pointers stay inside the array of NUM_QUEUES sub-queues (Queue.h:187, :209).
THEOREM TypeCorrect == Spec => []TypeOK
<1>1. IInv => TypeOK
    BY DEF IInv
<1> QED BY Invariance, <1>1, PTL

\* No wake-up is lost although Put signals only when it found the sub-queue
\* empty (Queue.h:202-207).
THEOREM NoLostWakeUpCorrect == Spec => []NoLostWakeUp
<1>1. IInv => NoLostWakeUp
    BY DEF IInv
<1> QED BY Invariance, <1>1, PTL

\* A reader that Kill wants to stop is awake, or WakeUp has yet to come to the
\* sub-queue it waits on (Queue.h:261-270).
THEOREM KilledIsAwakeCorrect == Spec => []KilledIsAwake
<1>1. IInv => KilledIsAwake
    BY DEF IInv
<1> QED BY Invariance, <1>1, PTL

\* One look at the sub-queue of the read pointer tells whether the whole queue
\* is empty (Queue.h, Ready and MaybeReady).
THEOREM ReadyIsExactCorrect == Spec => []ReadyIsExact
<1>1. IInv => ReadyIsExact
    <2> SUFFICES ASSUME IInv, rpc # "advance", messages[read_ptr] = << >>
                 PROVE  \A i \in Slots : messages[i] = << >>
        BY DEF ReadyIsExact
    <2>1. ReadAt = read_ptr
        BY DEF ReadAt
    <2>2. LayOut(messages, ReadAt, WriteAt, Popped, Pushed)
        BY DEF IInv, Striped
    <2> QED BY <2>1, <2>2, CountsType, LayOutEmpty
<1> QED BY Invariance, <1>1, PTL

-----------------------------------------------------------------------------
(* The refinement: the abstract queue as the run of the numbers after a.    *)
Run(a, n) == [k \in 1 .. n |-> a + k]

LEMMA RunPut ==
  ASSUME NEW a \in Nat, NEW n \in Nat
  PROVE  Append(Run(a, n), a + n + 1) = Run(a, n + 1)
<1>1. Run(a, n) \in Seq(Nat) /\ Len(Run(a, n)) = n
    BY DEF Run
<1>2. Run(a, n + 1) \in Seq(Nat) /\ Len(Run(a, n + 1)) = n + 1
    BY DEF Run
<1>3. ASSUME NEW k \in 1 .. n + 1
      PROVE  Append(Run(a, n), a + n + 1)[k] = Run(a, n + 1)[k]
    BY <1>1 DEF Run
<1> QED BY <1>1, <1>2, <1>3

LEMMA SeqEqual ==
  ASSUME NEW s \in Seq(Nat), NEW t \in Seq(Nat), Len(s) = Len(t),
         \A k \in 1 .. Len(s) : s[k] = t[k]
  PROVE  s = t
OBVIOUS

LEMMA RunGet ==
  ASSUME NEW a \in Nat, NEW n \in Nat, n > 0
  PROVE  /\ Run(a, n) # << >> /\ Head(Run(a, n)) = a + 1
         /\ Tail(Run(a, n)) = Run(a + 1, n - 1)
<1>1. Run(a, n) \in Seq(Nat) /\ Len(Run(a, n)) = n
    BY DEF Run
<1>2. Run(a + 1, n - 1) \in Seq(Nat) /\ Len(Run(a + 1, n - 1)) = n - 1
    BY DEF Run
<1>3. ASSUME NEW k \in 1 .. n - 1
      PROVE  Tail(Run(a, n))[k] = Run(a + 1, n - 1)[k]
    BY <1>1 DEF Run
<1>4. Tail(Run(a, n)) = Run(a + 1, n - 1)
    <2>1. Tail(Run(a, n)) \in Seq(Nat) /\ Len(Tail(Run(a, n))) = n - 1
        BY <1>1
    <2> HIDE DEF Run
    <2> QED BY <1>2, <1>3, <2>1, SeqEqual
<1>5. Run(a, n) # << >> /\ Head(Run(a, n)) = a + 1
    BY <1>1 DEF Run
<1> QED BY <1>4, <1>5

\* The striped queue of Queue.h implements the FIFO queue: messages are read
\* once each and in the order of Put, for any number of sub-queues.
THEOREM ImplementsFifoCorrect == Spec => ImplementsFifo
<1>1. Init => Fifo!Init
    BY DEF Init, Fifo!Init, Pushed, Popped
<1>2. IInv /\ [Next]_vars => [Fifo!Next]_Fifo!vars
    <2> SUFFICES ASSUME IInv, [Next]_vars PROVE [Fifo!Next]_Fifo!vars
        OBVIOUS
    <2>1. /\ Popped \in Nat /\ Pushed \in Nat /\ ReadAt \in Slots /\ WriteAt \in Slots
          /\ messages \in [Slots -> Seq(Nat)] /\ Popped <= Pushed
          /\ LayOut(messages, ReadAt, WriteAt, Popped, Pushed)
        BY CountsType DEF IInv, Striped, LayOut
    <2>2. CASE Quiet
        BY <2>2 DEF Quiet, Fifo!vars
    <2>3. CASE Pops
        <3>1. Head(messages[ReadAt]) = Popped + 1 /\ Popped < Pushed
            BY <2>1, <2>3, LayOutGet DEF Pops
        <3>2. Pushed - Popped \in Nat /\ Pushed - Popped > 0
              /\ Pushed - (Popped + 1) = Pushed - Popped - 1
            BY <2>1, <3>1
        <3>3. /\ Run(Popped, Pushed - Popped) # << >>
              /\ Head(Run(Popped, Pushed - Popped)) = Popped + 1
              /\ Tail(Run(Popped, Pushed - Popped)) = Run(Popped + 1, Pushed - Popped - 1)
            BY <2>1, <3>2, RunGet
        <3> QED BY <2>3, <3>1, <3>2, <3>3 DEF Pops, Fifo!Next, Fifo!Get, Run
    <2>4. CASE Pushes
        <3>1. /\ Pushed - Popped \in Nat
              /\ Popped + (Pushed - Popped) + 1 = Pushed + 1
              /\ (Pushed + 1) - Popped = (Pushed - Popped) + 1
            BY <2>1
        <3>2. Append(Run(Popped, Pushed - Popped), Popped + (Pushed - Popped) + 1)
                = Run(Popped, (Pushed - Popped) + 1)
            BY <2>1, <3>1, RunPut
        <3> QED BY <2>4, <3>1, <3>2 DEF Pushes, Fifo!Next, Fifo!Put, Run
    <2> QED BY <2>2, <2>3, <2>4, StepKinds
<1> QED BY Invariance, <1>1, <1>2, PTL DEF Spec, ImplementsFifo
=============================================================================
