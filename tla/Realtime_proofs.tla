--------------------------- MODULE Realtime_proofs ---------------------------
(***************************************************************************)
(* For any journal, filter and batch size: a panel that resumes gets every *)
(* entry it asked for once and in order; and, with the readers of AuditLog *)
(* around it, the pages of the log screen and the export are whole.        *)
(***************************************************************************)
EXTENDS AuditLog, FiniteSetTheorems, SequenceTheorems, TLAPS

Asked(k) == k \in 1 .. Len(journal) /\ journal[k] \in Watched /\ k > since

(* How far a stream has come: all up to `after` is sent or in the batch,   *)
(* and the batch is what is new.                                           *)
Caught ==
    IF ~open THEN batch = {} ELSE
        /\ lastId # NULL => lastId <= after /\ \A j \in batch : lastId < j
        /\ \A j \in batch : j <= after
        /\ \A k \in 1 .. Len(journal) : Asked(k) /\ k <= after => Received(k) \/ k \in batch

LastIsNewest == \A i \in 1 .. Len(received) : lastId # NULL /\ received[i] <= lastId

IInv == TypeOK /\ LastIsNewest /\ Caught /\ InOrderOnce /\ NoGap

LEMMA InitInv == Init => IInv
<1> SUFFICES ASSUME Init PROVE IInv
    OBVIOUS
<1>1. /\ journal = <<>> /\ received = <<>> /\ Len(journal) = 0 /\ Len(received) = 0
      /\ open = FALSE /\ batch = {} /\ after = 0 /\ snapshot = NULL /\ lastId = NULL /\ since = 0
    BY DEF Init
<1>2. journal \in Seq(Postamats) /\ received \in Seq(1 .. Len(journal))
    BY <1>1
<1>3. TypeOK
    <2>1. /\ Len(journal) <= MaxEntries
          /\ after \in 0 .. Len(journal) /\ since \in 0 .. Len(journal)
        BY <1>1, RealtimeAssumption
    <2>3. open \in BOOLEAN
        BY <1>1
    <2>2. /\ batch \subseteq 1 .. Len(journal)
          /\ snapshot \in 0 .. Len(journal) \cup {NULL} /\ lastId \in 1 .. Len(journal) \cup {NULL}
        BY <1>1
    <2> QED BY <1>2, <2>1, <2>2, <2>3 DEF TypeOK
<1>4. LastIsNewest /\ InOrderOnce
    BY <1>1 DEF LastIsNewest, InOrderOnce
<1>5. Caught
    BY <1>1 DEF Caught
<1>6. NoGap
    BY <1>1 DEF NoGap
<1> QED BY <1>3, <1>4, <1>5, <1>6 DEF IInv

(* A batch takes the oldest entries: what precedes one of them is in it.   *)
LEMMA RowsClosed ==
    ASSUME TypeOK, NEW i \in Rows, NEW k \in Matching, k < i
    PROVE  k \in Rows
<1>1. Visible \in Int /\ after + 1 \in Int
    BY RealtimeAssumption DEF TypeOK, Visible
<1>2. Matching \subseteq (after + 1) .. Visible
    BY DEF Matching
<1>3. IsFiniteSet(Matching)
    BY <1>1, <1>2, FS_Interval, FS_Subset
<1> DEFINE I == {j \in Matching : j < i}
           K == {j \in Matching : j < k}
<1>a. i \in Int /\ k \in Int /\ \A j \in Matching : j \in Int
    BY <1>1, <1>2 DEF Rows
<1>b. \A j \in Matching : j < k => j < i
    BY <1>a
<1>4. I \subseteq Matching /\ K \subseteq I
    BY <1>b
<1>5. Cardinality(I) < CatchUpLimit
    BY DEF Rows
<1>6. Cardinality(K) < CatchUpLimit => k \in Rows
    BY DEF Rows
<1> HIDE DEF I, K
<1>7. IsFiniteSet(I) /\ IsFiniteSet(K)
    BY <1>3, <1>4, FS_Subset
<1>8. Cardinality(K) <= Cardinality(I)
    BY <1>4, <1>7, FS_Subset
<1>9. Cardinality(K) \in Nat /\ Cardinality(I) \in Nat
    BY <1>7, FS_CardinalityType
<1> QED BY <1>5, <1>6, <1>8, <1>9, RealtimeAssumption

LEMMA RowsNew ==
    ASSUME TypeOK, NEW i \in Rows
    PROVE  /\ i \in after + 1 .. Visible /\ i \in 1 .. Len(journal)
           /\ journal[i] \in Watched
BY RealtimeAssumption DEF Rows, Matching, Visible, TypeOK

LEMMA StepInv == IInv /\ [Next]_vars => IInv'
<1> SUFFICES ASSUME IInv, [Next]_vars PROVE IInv'
    OBVIOUS
<1> USE RealtimeAssumption DEF IInv
<1>1. ASSUME NEW p \in Postamats, record(p) PROVE IInv'
    <2>1. /\ journal' \in Seq(Postamats) /\ Len(journal') = Len(journal) + 1
          /\ \A k \in 1 .. Len(journal) : journal'[k] = journal[k]
        BY <1>1, AppendProperties DEF record, TypeOK
    <2>2. Len(journal) \in Nat
        BY DEF TypeOK
    <2>3. TypeOK'
        BY <1>1, <2>1, <2>2 DEF record, TypeOK
    <2>4. LastIsNewest' /\ InOrderOnce'
        BY <1>1 DEF record, LastIsNewest, InOrderOnce
    <2>5. Caught'
        BY <1>1, <2>1, <2>2 DEF record, Caught, Asked, Received, TypeOK
    <2>6. NoGap'
        BY <1>1, <2>1, <2>2 DEF record, NoGap, Received, TypeOK
    <2> QED BY <2>3, <2>4, <2>5, <2>6
<1>2. CASE OpenFromNow
    <2>1. TypeOK' /\ LastIsNewest' /\ InOrderOnce'
        BY <1>2 DEF OpenFromNow, TypeOK, LastIsNewest, InOrderOnce
    <2>2. Caught' /\ NoGap'
        BY <1>2 DEF OpenFromNow, TypeOK, Caught, Asked, NoGap
    <2> QED BY <2>1, <2>2
<1>3. CASE OpenResuming
    <2>1. TypeOK' /\ LastIsNewest' /\ InOrderOnce' /\ NoGap'
        BY <1>3 DEF OpenResuming, TypeOK, LastIsNewest, InOrderOnce, NoGap, Received
    <2>2. Caught'
        BY <1>3 DEF OpenResuming, TypeOK, Caught, Asked, NoGap, Received
    <2> QED BY <2>1, <2>2
<1>4. CASE Poll
    <2>1. TypeOK'
        BY <1>4, RowsNew DEF Poll, TypeOK, Visible
    <2>2. LastIsNewest' /\ InOrderOnce' /\ NoGap'
        BY <1>4 DEF Poll, LastIsNewest, InOrderOnce, NoGap, Received
    <2>3. Caught'
        <3>1. CASE Rows = {}
            BY <1>4, <3>1 DEF Poll, Caught, Asked, Received
        <3>2. ASSUME Rows # {} PROVE Caught'
            <4>1. after' \in Rows /\ (\A i \in Rows : i <= after') /\ batch' = Rows /\ open
                BY <1>4, <3>2 DEF Poll
            <4>2. lastId # NULL => \A j \in Rows : lastId < j
                BY <4>1, RowsNew DEF Caught, TypeOK
            <4>3. ASSUME NEW k \in 1 .. Len(journal), Asked(k), k <= after'
                  PROVE  Received(k) \/ k \in Rows
                <5>1. after' \in after + 1 .. Visible /\ after \in Nat /\ Visible \in Nat
                    BY <4>1, RowsNew DEF TypeOK, Visible
                <5>2. CASE k <= after
                    BY <1>4, <4>1, <4>3, <5>2 DEF Caught, Poll
                <5>3. CASE k > after
                    <6>1. k \in Matching
                        BY <4>3, <5>1, <5>3 DEF Matching, Asked
                    <6>2. CASE k = after'
                        BY <4>1, <6>2
                    <6>3. CASE k < after'
                        BY <4>1, <6>1, <6>3, RowsClosed
                    <6> QED BY <4>3, <5>1, <6>2, <6>3
                <5> QED BY <5>1, <5>2, <5>3
            <4> QED BY <1>4, <4>1, <4>2, <4>3, RowsNew DEF Caught, Poll, Asked, Received, TypeOK
        <3> QED BY <3>1, <3>2
    <2> QED BY <2>1, <2>2, <2>3
<1>5. CASE Yield
    <2>1. PICK i \in batch : /\ open /\ (\A j \in batch : i <= j)
                            /\ received' = Append(received, i) /\ lastId' = i
                            /\ batch' = batch \ {i}
                            /\ UNCHANGED <<journal, open, after, snapshot, since>>
        BY <1>5 DEF Yield
    <2>2. /\ i \in 1 .. Len(journal) /\ i <= after /\ Len(received) \in Nat /\ Len(journal) \in Nat
          /\ lastId # NULL => lastId < i
        BY <2>1 DEF TypeOK, Caught
    <2>3. /\ received' \in Seq(1 .. Len(journal)) /\ Len(received') = Len(received) + 1
          /\ received'[Len(received) + 1] = i
          /\ \A k \in 1 .. Len(received) : received'[k] = received[k]
        BY <2>1, <2>2, AppendProperties DEF TypeOK
    <2>4. \A k : Received(k) \/ k = i => \E n \in 1 .. Len(received') : received'[n] = k
        BY <2>2, <2>3 DEF Received
    <2>5. TypeOK'
        BY <2>1, <2>2, <2>3 DEF TypeOK
    <2>6. \A n \in 1 .. Len(received) : received[n] \in Nat /\ received[n] < i
        BY <2>2 DEF LastIsNewest, TypeOK
    <2>7. LastIsNewest' /\ InOrderOnce'
        BY <2>1, <2>2, <2>3, <2>6 DEF LastIsNewest, InOrderOnce
    <2>8. ASSUME NEW k \in 1 .. Len(journal), Asked(k), k <= after
          PROVE  (\E n \in 1 .. Len(received') : received'[n] = k) \/ k \in batch'
        BY <2>1, <2>4, <2>8 DEF Caught
    <2>9. Caught'
        BY <2>1, <2>2, <2>8 DEF Caught, Asked, Received, TypeOK
    <2>10. NoGap'
        <3> SUFFICES ASSUME NEW k \in 1 .. Len(journal), Asked(k), k <= i
                     PROVE  \E n \in 1 .. Len(received') : received'[n] = k
            BY <2>1 DEF NoGap, Asked, Received
        <3>1. k \in Nat /\ i \in Nat /\ k <= after
            BY <2>2 DEF TypeOK
        <3>2. CASE k = i
            BY <2>4, <3>2
        <3>3. CASE k # i
            <4>1. k \notin batch
                BY <2>1, <3>1, <3>3
            <4> QED BY <2>4, <3>1, <4>1 DEF Caught
        <3> QED BY <3>2, <3>3
    <2> QED BY <2>5, <2>7, <2>9, <2>10
<1>6. CASE Disconnect
    <2>1. /\ open' = FALSE /\ batch' = {} /\ snapshot' = NULL
          /\ UNCHANGED <<journal, after, received, lastId, since>>
        BY <1>6 DEF Disconnect
    <2>2. TypeOK'
        BY <2>1 DEF TypeOK
    <2>3. LastIsNewest' /\ InOrderOnce'
        BY <2>1 DEF LastIsNewest, InOrderOnce
    <2>4. Caught'
        BY <2>1 DEF Caught
    <2>5. NoGap'
        BY <2>1 DEF NoGap, Asked, Received
    <2> QED BY <2>2, <2>3, <2>4, <2>5
<1>7. CASE UNCHANGED vars
    BY <1>7 DEF vars, TypeOK, LastIsNewest, Caught, Asked, InOrderOnce, NoGap, Received
<1> QED BY <1>1, <1>2, <1>3, <1>4, <1>5, <1>6, <1>7 DEF Next

LEMMA AlwaysInv == Spec => []IInv
BY InitInv, StepInv, PTL DEF Spec

(* Types hold for every journal, filter and batch size.                    *)
THEOREM TypeCorrect == Spec => []TypeOK
<1>1. IInv => TypeOK
    BY DEF IInv
<1> QED BY <1>1, AlwaysInv, PTL

(* Frames reach the panel once and in the journal's order, over any number *)
(* of reconnections.                                                       *)
THEOREM FramesInOrder == Spec => []InOrderOnce
<1>1. IInv => InOrderOnce
    BY DEF IInv
<1> QED BY <1>1, AlwaysInv, PTL

(* What the panel asked for has no gap up to the last frame, over any      *)
(* number of reconnections and bursts of any size.                         *)
THEOREM NothingSkipped == Spec => []NoGap
<1>1. IInv => NoGap
    BY DEF IInv
<1> QED BY <1>1, AlwaysInv, PTL
-----------------------------------------------------------------------------
(* The readers of AuditLog.                                                *)

Above(rows, i) == Cardinality({j \in rows : j > i})

LEMMA AboveFalls ==
    ASSUME NEW rows \in SUBSET Nat, IsFiniteSet(rows), NEW i \in rows
    PROVE  /\ Above(rows, i) \in 0 .. Cardinality(rows) - 1
           /\ \A k \in rows : i < k => Above(rows, k) < Above(rows, i)
<1> DEFINE A(k) == {j \in rows : j > k}
<1>t. \A k \in rows : k \in Nat
    OBVIOUS
<1>1. ASSUME NEW k \in rows
      PROVE  /\ IsFiniteSet(A(k)) /\ Cardinality(A(k)) \in Nat
             /\ IsFiniteSet(A(k) \cup {k}) /\ Cardinality(A(k) \cup {k}) = Cardinality(A(k)) + 1
    <2>1. IsFiniteSet(A(k)) /\ k \notin A(k)
        BY <1>t, FS_Subset
    <2> HIDE DEF A
    <2> QED BY <2>1, FS_AddElement, FS_CardinalityType
<1>2. ASSUME NEW k \in rows, NEW T \in SUBSET rows, IsFiniteSet(T), A(k) \cup {k} \subseteq T
      PROVE  Cardinality(A(k)) + 1 <= Cardinality(T)
    <2> HIDE DEF A
    <2>1. Cardinality(A(k) \cup {k}) <= Cardinality(T)
        BY <1>2, FS_Subset
    <2> QED BY <1>1, <2>1
<1>3. Cardinality(A(i)) + 1 <= Cardinality(rows) /\ Cardinality(rows) \in Nat
    BY <1>2, FS_CardinalityType
<1>4. ASSUME NEW k \in rows, i < k PROVE Cardinality(A(k)) < Cardinality(A(i))
    <2>1. A(k) \cup {k} \subseteq A(i)
        <3>1. ASSUME NEW x \in rows, x > k PROVE x > i
            BY <1>t, <1>4, <3>1
        <3>2. k > i
            BY <1>t, <1>4
        <3> QED BY <3>1, <3>2
    <2>2. A(i) \in SUBSET rows
        OBVIOUS
    <2> HIDE DEF A
    <2>3. Cardinality(A(k)) + 1 <= Cardinality(A(i))
        BY <1>1, <1>2, <2>1, <2>2
    <2>4. Cardinality(A(k)) \in Nat /\ Cardinality(A(i)) \in Nat
        BY <1>1
    <2> QED BY <2>3, <2>4
<1>5. \A k \in rows : Above(rows, k) = Cardinality(A(k))
    BY DEF Above
<1> HIDE DEF A
<1>6. Above(rows, i) \in 0 .. Cardinality(rows) - 1
    <2>1. Cardinality(A(i)) \in Nat /\ Above(rows, i) = Cardinality(A(i))
        BY <1>1, <1>5
    <2> QED BY <1>3, <2>1
<1> QED BY <1>4, <1>5, <1>6

LEMMA AboveOnto ==
    ASSUME NEW rows \in SUBSET Nat, IsFiniteSet(rows), NEW n \in 0 .. Cardinality(rows) - 1
    PROVE  \E i \in rows : Above(rows, i) = n
<1> DEFINE R == 0 .. Cardinality(rows) - 1
           f == [i \in rows |-> Above(rows, i)]
<1>1. Cardinality(rows) \in Nat /\ IsFiniteSet(R) /\ Cardinality(R) = Cardinality(rows)
    BY FS_CardinalityType, FS_Interval
<1>2. \A i, k \in rows : Above(rows, i) = Above(rows, k) => i = k
    <2> SUFFICES ASSUME NEW i \in rows, NEW k \in rows, i < k
                 PROVE  Above(rows, i) # Above(rows, k)
        OBVIOUS
    <2> QED BY AboveFalls
<1>3. f \in [rows -> R]
    BY AboveFalls
<1>4. f \in Injection(rows, R)
    BY <1>2, <1>3 DEF Injection, IsInjective
<1>5. f \in Surjection(rows, R)
    <2> HIDE DEF f, R
    <2> QED BY <1>1, <1>4, FS_Injection
<1>6. \E i \in rows : f[i] = n
    BY <1>5 DEF Surjection
<1> QED BY <1>6

(* Descending lists every row once, the newest first.                      *)
LEMMA DescendingLists ==
    ASSUME NEW rows \in SUBSET Nat, IsFiniteSet(rows)
    PROVE  /\ Descending(rows) \in Seq(rows)
           /\ Decreasing(Descending(rows))
           /\ \A k : In(k, Descending(rows)) <=> k \in rows
<1> DEFINE N == Cardinality(rows)
           s == Descending(rows)
<1>1. N \in Nat
    BY FS_CardinalityType
<1>2. ASSUME NEW n \in 1 .. N
      PROVE  s[n] \in rows /\ Above(rows, s[n]) = n - 1
    <2>1. n - 1 \in 0 .. N - 1
        BY <1>1
    <2>2. \E i \in rows : Cardinality({j \in rows : j > i}) = n - 1
        BY <2>1, AboveOnto DEF Above
    <2>3. s[n] = CHOOSE i \in rows : Cardinality({j \in rows : j > i}) = n - 1
        BY DEF Descending
    <2> HIDE DEF s
    <2> QED BY <2>2, <2>3 DEF Above
<1>3. DOMAIN s = 1 .. N /\ s \in [1 .. N -> {s[n] : n \in 1 .. N}]
    BY DEF Descending
<1> HIDE DEF s
<1>4. s \in [1 .. N -> rows]
    BY <1>2, <1>3
<1>5. s \in Seq(rows) /\ Len(s) = N
    BY <1>1, <1>4
<1>6. Decreasing(s)
    <2> SUFFICES ASSUME NEW i \in 1 .. N, NEW j \in 1 .. N, i < j
                 PROVE  s[i] > s[j]
        BY <1>5 DEF Decreasing
    <2>1. s[i] \in rows /\ s[j] \in rows /\ Above(rows, s[i]) < Above(rows, s[j])
        BY <1>1, <1>2
    <2>2. s[i] \in Nat /\ s[j] \in Nat
        BY <2>1
    <2> DEFINE a == s[i]
               b == s[j]
    <2>4. a \in rows /\ b \in rows /\ Above(rows, a) < Above(rows, b)
        BY <2>1
    <2> HIDE DEF a, b
    <2>5. /\ Above(rows, a) \in 0 .. N - 1 /\ Above(rows, b) \in 0 .. N - 1
          /\ a < b => Above(rows, b) < Above(rows, a)
        BY <2>4, AboveFalls
    <2>6. a # b /\ ~(a < b)
        BY <1>1, <2>4, <2>5
    <2>3. s[i] # s[j] /\ ~(s[i] < s[j])
        BY <2>6 DEF a, b
    <2> QED BY <2>2, <2>3
<1>7. ASSUME NEW k \in rows PROVE In(k, s)
    <2>1. Above(rows, k) \in 0 .. N - 1
        BY AboveFalls
    <2>2. Above(rows, k) + 1 \in 1 .. N
        BY <1>1, <2>1
    <2> DEFINE n == Above(rows, k) + 1
    <2>3. s[n] \in rows /\ Above(rows, s[n]) = Above(rows, k)
        BY <1>2, <2>1, <2>2
    <2>4. k \in Nat /\ s[n] \in Nat
        BY <2>3
    <2> DEFINE a == s[n]
    <2>7. a \in rows /\ Above(rows, a) = Above(rows, k) /\ a \in Nat
        BY <2>3, <2>4
    <2> HIDE DEF a
    <2>5. /\ a < k => Above(rows, k) < Above(rows, a)
          /\ k < a => Above(rows, a) < Above(rows, k)
        BY <2>7, AboveFalls
    <2>8. a = k
        BY <1>1, <2>1, <2>4, <2>5, <2>7
    <2>6. s[n] = k
        BY <2>8 DEF a
    <2> QED BY <1>5, <2>2, <2>6 DEF In
<1>8. ASSUME NEW k, In(k, s) PROVE k \in rows
    BY <1>2, <1>5, <1>8 DEF In
<1> QED BY <1>5, <1>6, <1>7, <1>8 DEF s

(* Whatever is at least as new as some row taken is taken.                 *)
LEMMA NewestTakes ==
    ASSUME NEW rows \in SUBSET Nat, IsFiniteSet(rows), NEW n \in Nat
    PROVE  /\ Newest(rows, n) \subseteq rows
           /\ \A i \in Newest(rows, n), k \in rows : k > i => k \in Newest(rows, n)
           /\ Cardinality(rows) <= n => Newest(rows, n) = rows
           /\ rows # {} /\ n # 0 => Newest(rows, n) # {}
<1>1. Newest(rows, n) = {i \in rows : Above(rows, i) < n}
    BY DEF Newest, Above
<1>2. Cardinality(rows) \in Nat /\ \A i \in rows : Above(rows, i) \in 0 .. Cardinality(rows) - 1
    BY AboveFalls, FS_CardinalityType
<1>3. ASSUME NEW i \in Newest(rows, n), NEW k \in rows, k > i PROVE k \in Newest(rows, n)
    <2>1. Above(rows, k) < Above(rows, i) /\ Above(rows, i) < n /\ i \in rows
        BY <1>1, <1>3, AboveFalls
    <2> QED BY <1>1, <1>2, <2>1
<1>4. Cardinality(rows) <= n => Newest(rows, n) = rows
    <2>1. ASSUME Cardinality(rows) <= n, NEW i \in rows PROVE Above(rows, i) < n
        <3>1. Above(rows, i) \in 0 .. Cardinality(rows) - 1
            BY <1>2
        <3> QED BY <1>2, <2>1, <3>1
    <2> QED BY <1>1, <2>1
<1>5. ASSUME rows # {}, n # 0 PROVE Newest(rows, n) # {}
    <2>1. 0 \in 0 .. Cardinality(rows) - 1
        BY <1>2, <1>5, FS_EmptySet
    <2>2. \E i \in rows : Above(rows, i) = 0
        BY <2>1, AboveOnto
    <2> QED BY <1>1, <1>5, <2>2
<1> QED BY <1>1, <1>3, <1>4, <1>5

(* As many of the newest rows as a set of newest rows has are that set.    *)
LEMMA NewestAgain ==
    ASSUME NEW rows \in SUBSET Nat, IsFiniteSet(rows), NEW U \in SUBSET rows,
           \A i \in U, k \in rows : k > i => k \in U
    PROVE  Newest(rows, Cardinality(U)) = U
<1> DEFINE A(i) == {j \in rows : j > i}
<1>t. \A i \in rows : i \in Nat
    OBVIOUS
<1>1. IsFiniteSet(U) /\ Cardinality(U) \in Nat
    BY FS_Subset, FS_CardinalityType
<1>2. ASSUME NEW i \in rows PROVE IsFiniteSet(A(i)) /\ Cardinality(A(i)) \in Nat
    <2>1. A(i) \in SUBSET rows
        OBVIOUS
    <2> HIDE DEF A
    <2> QED BY <2>1, FS_Subset, FS_CardinalityType
<1>3. ASSUME NEW i \in U PROVE Cardinality(A(i)) < Cardinality(U)
    <2>1. A(i) \cup {i} \subseteq U /\ i \notin A(i)
        <3>1. ~(i > i)
            BY <1>t
        <3> QED BY <3>1
    <2> HIDE DEF A
    <2>2. IsFiniteSet(A(i) \cup {i}) /\ Cardinality(A(i) \cup {i}) = Cardinality(A(i)) + 1
        BY <1>2, <2>1, FS_AddElement
    <2>3. Cardinality(A(i) \cup {i}) <= Cardinality(U)
        BY <1>1, <2>1, FS_Subset
    <2> QED BY <1>1, <1>2, <2>2, <2>3
<1>4. ASSUME NEW i \in rows \ U PROVE Cardinality(A(i)) >= Cardinality(U)
    <2>1. U \subseteq A(i)
        <3> SUFFICES ASSUME NEW u \in U PROVE u > i
            OBVIOUS
        <3> QED OBVIOUS
    <2> HIDE DEF A
    <2> QED BY <1>1, <1>2, <2>1, FS_Subset
<1>5. Newest(rows, Cardinality(U)) = {i \in rows : Cardinality(A(i)) < Cardinality(U)}
    BY DEF Newest
<1> HIDE DEF A
<1>6. \A i \in rows : Cardinality(A(i)) < Cardinality(U) <=> i \in U
    BY <1>1, <1>2, <1>3, <1>4
<1> QED BY <1>5, <1>6

LEMMA OldestIs ==
    ASSUME NEW rows \in SUBSET Nat, IsFiniteSet(rows), rows # {}
    PROVE  Oldest(rows) \in rows /\ \A j \in rows : Oldest(rows) <= j
<1>1. Cardinality(rows) \in Nat \ {0}
    BY FS_CardinalityType, FS_EmptySet
<1>2. PICK i \in rows : Above(rows, i) = Cardinality(rows) - 1
    BY <1>1, AboveOnto
<1>3. ASSUME NEW j \in rows PROVE i <= j
    <2>1. Above(rows, j) \in 0 .. Cardinality(rows) - 1 /\ i \in Nat /\ j \in Nat
        BY AboveFalls
    <2>2. j < i => Above(rows, i) < Above(rows, j)
        BY AboveFalls
    <2> QED BY <1>1, <1>2, <2>1, <2>2
<1> QED BY <1>3 DEF Oldest

(* A decreasing list has as many entries as it has places.                 *)
LEMMA DecreasingCounts ==
    ASSUME NEW s \in Seq(Nat), Decreasing(s)
    PROVE  Cardinality({s[i] : i \in 1 .. Len(s)}) = Len(s)
<1> DEFINE D == 1 .. Len(s)
           T == {s[i] : i \in D}
<1>1. s \in [D -> T] /\ Len(s) \in Nat
    OBVIOUS
<1>2. \A i, j \in D : s[i] = s[j] => i = j
    BY DEF Decreasing
<1>3. s \in Bijection(D, T)
    BY <1>1, <1>2 DEF Bijection, Injection, Surjection, IsInjective
<1>4. IsFiniteSet(D) /\ Cardinality(D) = Len(s)
    <2>1. 1 \in Int /\ Len(s) \in Int
        BY <1>1
    <2>2. /\ IsFiniteSet(1 .. Len(s))
          /\ Cardinality(1 .. Len(s)) = IF 1 > Len(s) THEN 0 ELSE Len(s) - 1 + 1
        BY <2>1, FS_Interval
    <2> QED BY <1>1, <2>2
<1> HIDE DEF D, T
<1>5. Cardinality(T) = Cardinality(D)
    BY <1>3, <1>4, FS_Bijection DEF ExistsBijection
<1> QED BY <1>4, <1>5 DEF T, D

(* What is older than all of a decreasing list continues it.               *)
LEMMA ConcatFalls ==
    ASSUME NEW s \in Seq(Nat), NEW t \in Seq(Nat), Decreasing(s), Decreasing(t),
           \A i \in 1 .. Len(s), j \in 1 .. Len(t) : s[i] > t[j]
    PROVE  /\ Decreasing(s \o t)
           /\ \A k : In(k, s \o t) <=> In(k, s) \/ In(k, t)
<1> DEFINE u == s \o t
<1>0. /\ u \in Seq(Nat) /\ Len(u) = Len(s) + Len(t) /\ Len(s) \in Nat /\ Len(t) \in Nat
      /\ \A i \in 1 .. Len(s) + Len(t) : u[i] = IF i <= Len(s) THEN s[i] ELSE t[i - Len(s)]
    BY ConcatProperties
<1> HIDE DEF u
<1>1. /\ Len(u) = Len(s) + Len(t) /\ Len(s) \in Nat /\ Len(t) \in Nat
      /\ \A i \in 1 .. Len(s) : u[i] = s[i]
      /\ \A i \in Len(s) + 1 .. Len(u) : u[i] = t[i - Len(s)] /\ i - Len(s) \in 1 .. Len(t)
    <2>1. ASSUME NEW i \in 1 .. Len(s) PROVE u[i] = s[i]
        <3>1. i \in 1 .. Len(s) + Len(t) /\ i <= Len(s)
            BY <1>0
        <3> QED BY <1>0, <3>1
    <2>2. ASSUME NEW i \in Len(s) + 1 .. Len(u)
          PROVE  u[i] = t[i - Len(s)] /\ i - Len(s) \in 1 .. Len(t)
        <3>1. i \in 1 .. Len(s) + Len(t) /\ ~(i <= Len(s)) /\ i - Len(s) \in 1 .. Len(t)
            BY <1>0
        <3> QED BY <1>0, <3>1
    <2> QED BY <1>0, <2>1, <2>2
<1>a. (\A i \in 1 .. Len(s) : s[i] \in Nat) /\ (\A i \in 1 .. Len(t) : t[i] \in Nat)
    OBVIOUS
<1>2. Decreasing(u)
    <2> SUFFICES ASSUME NEW i \in 1 .. Len(u), NEW j \in 1 .. Len(u), i < j PROVE u[i] > u[j]
        BY DEF Decreasing
    <2>1. CASE j <= Len(s)
        <3>1. i \in 1 .. Len(s) /\ j \in 1 .. Len(s)
            BY <1>1, <2>1
        <3> QED BY <1>1, <3>1 DEF Decreasing
    <2>2. CASE i > Len(s)
        <3> DEFINE a == i - Len(s)
                   b == j - Len(s)
        <3>1. a \in 1 .. Len(t) /\ b \in 1 .. Len(t) /\ a < b /\ u[i] = t[a] /\ u[j] = t[b]
            BY <1>1, <2>2
        <3> HIDE DEF a, b
        <3> QED BY <3>1 DEF Decreasing
    <2>3. CASE i <= Len(s) /\ j > Len(s)
        <3>1. i \in 1 .. Len(s) /\ j \in Len(s) + 1 .. Len(u)
            BY <1>1, <2>3
        <3> QED BY <1>1, <3>1
    <2> QED BY <1>1, <2>1, <2>2, <2>3
<1>3. ASSUME NEW k, In(k, s) PROVE In(k, u)
    BY <1>1, <1>3 DEF In
<1>4. ASSUME NEW k, In(k, t) PROVE In(k, u)
    <2>1. PICK i \in 1 .. Len(t) : t[i] = k
        BY <1>4 DEF In
    <2> DEFINE n == i + Len(s)
    <2>2. n \in Len(s) + 1 .. Len(u) /\ n \in 1 .. Len(u) /\ n - Len(s) = i
        BY <1>1
    <2> HIDE DEF n
    <2> QED BY <1>1, <2>1, <2>2 DEF In
<1>5. ASSUME NEW k, In(k, u) PROVE In(k, s) \/ In(k, t)
    <2>1. PICK i \in 1 .. Len(u) : u[i] = k
        BY <1>5 DEF In
    <2>2. CASE i <= Len(s)
        <3>1. i \in 1 .. Len(s) /\ s[i] = k
            BY <1>1, <2>1, <2>2
        <3> QED BY <3>1 DEF In
    <2>3. CASE i > Len(s)
        <3>1. i - Len(s) \in 1 .. Len(t) /\ t[i - Len(s)] = k
            BY <1>1, <2>1, <2>3
        <3> QED BY <3>1 DEF In
    <2> QED BY <1>1, <2>2, <2>3
<1> QED BY <1>2, <1>3, <1>4, <1>5 DEF u
-----------------------------------------------------------------------------
(* An answer read for the screen as it is: it continues below the cursor,  *)
(* and has all of the hot window down to where the next page starts.       *)
Continues(answer) ==
    LET below == IF cursor = NULL THEN answer.at ELSE cursor - 1
    IN  /\ answer.at \in 0 .. Len(journal)
        /\ answer.next \in 0 .. below
        /\ answer.rows \subseteq 1 .. below
        /\ \A i \in answer.rows : answer.next <= i
        /\ \A k \in build_query(old, below) : k >= answer.next => k \in answer.rows

ScreenInv ==
    /\ old \in 0 .. Len(journal)
    /\ top \in 0 .. Len(journal)
    /\ cursor \in 0 .. Len(journal) \cup {NULL}
    /\ shown \in Seq(1 .. Len(journal))
    /\ IF cursor = NULL
       THEN shown = <<>>
       ELSE \A i \in 1 .. Len(shown) : cursor <= shown[i]
    /\ page # NULL => cursor # 0 /\ Continues(page)
    /\ PagesAreWhole

(* The lines of the file are the newest entries that the export sees.      *)
FileInv ==
    LET seen == build_query(export.floor, export.pin)
    IN  /\ \A i \in 1 .. Len(file) : file[i] \in seen
        /\ \A i \in 1 .. Len(file) : \A k \in seen : k > file[i] => In(k, file)
        /\ export.stage = "done" => \A k \in seen : In(k, file)

ExportInv ==
    /\ file \in Seq(1 .. Len(journal))
    /\ Decreasing(file)
    /\ export # NULL =>
          /\ export \in [stage : {"counted", "body", "done"}, floor : 0 .. Len(journal),
                         at : 0 .. Len(journal), pin : 0 .. Len(journal) \cup {NULL}]
          /\ export.stage # "counted" =>
                export.at + 1 <= Len(journal) /\ journal[export.at + 1] = Nobody
          /\ export.floor <= export.at
          /\ IF export.pin = NULL
             THEN file = <<>> /\ export.stage # "done"
             ELSE export.stage # "counted" /\ export.at + 1 <= export.pin /\ FileInv

AuditInv == IInv /\ ScreenInv /\ ExportInv

(* What a step does to the journal at most.                                *)
Grows ==
    /\ Len(journal') \in Nat
    /\ Len(journal) <= Len(journal')
    /\ \A k \in 1 .. Len(journal) : journal'[k] = journal[k]

LEMMA RecordGrows ==
    ASSUME TypeOK, NEW p \in Postamats, record(p)
    PROVE  /\ Grows
           /\ Len(journal') = Len(journal) + 1
           /\ journal'[Len(journal) + 1] = p
BY AppendProperties DEF record, TypeOK, Grows

(* The readers leave the stream alone: all they do to it is to write.      *)
LEMMA AuditStepOfStream ==
    ASSUME TypeOK, [AuditNext]_<<vars, auditVars>>
    PROVE  [Next]_vars /\ Grows
<1> USE AuditLogAssumption
<1>1. ASSUME UNCHANGED vars PROVE [Next]_vars /\ Grows
    BY <1>1 DEF vars, Grows, TypeOK
<1>2. ASSUME NEW p \in Postamats, record(p) PROVE [Next]_vars /\ Grows
    BY <1>2, RecordGrows DEF Next
<1>3. CASE StreamStep
    <2>1. /\ OpenFromNow \/ OpenResuming \/ Poll \/ Yield \/ Disconnect
          /\ journal' = journal
        BY <1>3 DEF StreamStep, OpenFromNow, OpenResuming, Poll, Yield, Disconnect
    <2> QED BY <2>1 DEF Next, Grows, TypeOK
<1>4. CASE LogStep
    BY <1>1, <1>2, <1>4 DEF LogStep, list_audit_log, note_read, NoteRefused, NoteExpires, Reload
<1>5. CASE ExportStep
    BY <1>1, <1>2, <1>5 DEF ExportStep, export_audit_log, NoteExported, csv_rows, ExportEnds
<1>6. CASE HotWindowMoves \/ Crash
    BY <1>1, <1>6 DEF HotWindowMoves, Crash
<1> QED BY <1>1, <1>2, <1>3, <1>4, <1>5, <1>6 DEF AuditNext

LEMMA QueryRows ==
    ASSUME NEW floor \in Nat, NEW upto \in Int
    PROVE  /\ build_query(floor, upto) \in SUBSET Nat
           /\ IsFiniteSet(build_query(floor, upto))
           /\ \A i \in build_query(floor, upto) : floor < i /\ i <= upto
<1>1. build_query(floor, upto) \subseteq floor + 1 .. upto /\ floor + 1 \in Int
    BY DEF build_query
<1>2. IsFiniteSet(floor + 1 .. upto)
    BY <1>1, FS_Interval
<1> QED BY <1>1, <1>2, FS_Subset

Passing(log, floor, upto) == {i \in floor + 1 .. upto : log[i] \in Wanted}

(* Entries do not change and the hot window only gets smaller.             *)
LEMMA QueryLater ==
    ASSUME Grows, Len(journal) \in Nat,
           NEW floor \in Nat, NEW later \in Nat, floor <= later,
           NEW upto \in Int, upto <= Len(journal)
    PROVE  /\ Passing(journal', floor, upto) = build_query(floor, upto)
           /\ Passing(journal', later, upto) \subseteq build_query(floor, upto)
<1>1. \A i \in floor + 1 .. upto : journal'[i] = journal[i]
    BY DEF Grows
<1>2. \A i \in later + 1 .. upto : i \in floor + 1 .. upto
    OBVIOUS
<1> QED BY <1>1, <1>2 DEF build_query, Passing
-----------------------------------------------------------------------------
(* The log screen.                                                         *)

LEMMA ScreenCarries ==
    ASSUME IInv, ScreenInv, Grows, old' \in old .. Len(journal'),
           UNCHANGED <<cursor, shown, top>>, page' \in {page, NULL}
    PROVE  ScreenInv'
<1>1. Len(journal) \in Nat /\ Len(journal') \in Nat /\ Len(journal) <= Len(journal')
      /\ old \in Nat /\ old' \in Nat /\ old' >= old
    BY DEF IInv, TypeOK, Grows, ScreenInv
<1>2. ASSUME NEW upto \in Int, upto <= Len(journal)
      PROVE  Passing(journal', old', upto) \subseteq build_query(old, upto)
    BY <1>1, <1>2, QueryLater
<1>3. PagesAreWhole'
    <2>1. build_query(old, top)' = Passing(journal', old', top)
        BY DEF build_query, Passing
    <2>2. build_query(old, top)' \subseteq build_query(old, top)
        BY <1>1, <1>2, <2>1 DEF ScreenInv
    <2> QED BY <2>2 DEF PagesAreWhole, ScreenInv, In, Decreasing
<1>4. ASSUME page' # NULL PROVE cursor' # 0 /\ Continues(page)'
    <2>1. page' = page /\ cursor # 0 /\ Continues(page)
        BY <1>4 DEF ScreenInv
    <2> DEFINE below == IF cursor = NULL THEN page.at ELSE cursor - 1
    <2>2. below \in Int /\ below <= Len(journal) /\ page.at \in 0 .. Len(journal')
        BY <1>1, <2>1 DEF Continues, ScreenInv
    <2>4. below' = below /\ build_query(old, below)' = Passing(journal', old', below)
        BY <2>1 DEF build_query, Passing
    <2>3. build_query(old, below)' \subseteq build_query(old, below)
        BY <1>2, <2>2, <2>4
    <2> QED BY <2>1, <2>2, <2>3 DEF Continues
<1>5. shown' \in Seq(1 .. Len(journal'))
    BY <1>1 DEF ScreenInv
<1> QED BY <1>1, <1>3, <1>4, <1>5 DEF ScreenInv

(* A page read now continues the screen.                                   *)
LEMMA PageContinues ==
    ASSUME IInv, ScreenInv, cursor # 0
    PROVE  Continues(paginate_cursor)
<1> DEFINE rows == build_query(old, Below)
           got == Newest(rows, Limit)
           next == next_cursor(rows)
<1>1. Limit \in Nat \ {0} /\ Len(journal) \in Nat /\ old \in Nat
    BY AuditLogAssumption DEF IInv, TypeOK, ScreenInv
<1>2. Below \in 0 .. Len(journal)
    BY <1>1 DEF Below, ScreenInv
<1>3. rows \in SUBSET Nat /\ IsFiniteSet(rows) /\ rows \subseteq 1 .. Below
    BY <1>1, <1>2, QueryRows
<1>4. paginate_cursor = [rows |-> got, next |-> next, at |-> Len(journal)]
    BY DEF paginate_cursor
<1>5. Below = IF cursor = NULL THEN Len(journal) ELSE cursor - 1
    BY DEF Below
<1>6. /\ next \in 0 .. Below
      /\ got \subseteq 1 .. Below
      /\ \A i \in got : next <= i
      /\ \A k \in rows : k >= next => k \in got
    <2> HIDE DEF rows
    <2>1. got \subseteq rows /\ Cardinality(rows) \in Nat
        BY <1>1, <1>3, NewestTakes, FS_CardinalityType
    <2>2. CASE Cardinality(rows) <= Limit
        <3>1. got = rows
            BY <1>1, <1>3, <2>2, NewestTakes
        <3>2. next = 0
            BY <1>1, <2>1, <2>2 DEF next_cursor
        <3> HIDE DEF got, next
        <3>3. \A i \in rows : i \in Nat /\ i \in 1 .. Below
            BY <1>3
        <3>4. got \subseteq 1 .. Below /\ \A k \in rows : k \in got
            BY <3>1, <3>3
        <3>5. next \in 0 .. Below /\ \A i \in got : next <= i
            BY <1>2, <3>1, <3>2, <3>3
        <3> QED BY <3>4, <3>5
    <2>3. CASE Cardinality(rows) > Limit
        <3>1. rows # {}
            BY <1>1, <2>3, FS_EmptySet
        <3>2. got # {} /\ got \in SUBSET Nat /\ IsFiniteSet(got)
            BY <1>1, <1>3, <2>1, <3>1, NewestTakes, FS_Subset
        <3>3. next = Oldest(got)
            BY <2>3 DEF next_cursor
        <3> HIDE DEF next, got
        <3>4. next \in got /\ \A j \in got : next <= j
            BY <3>2, <3>3, OldestIs
        <3>5. \A k \in rows : k > next => k \in got
            BY <1>1, <1>3, <3>4, NewestTakes DEF got
        <3>6. \A k \in rows : k >= next => k \in got
            <4>1. \A k \in rows : k \in Nat
                BY <1>3
            <4> QED BY <3>4, <3>5, <4>1, <2>1
        <3> QED BY <1>2, <1>3, <2>1, <3>4, <3>6
    <2> QED BY <1>1, <2>1, <2>2, <2>3
<1> HIDE DEF got, next
<1>7. /\ paginate_cursor.rows = got /\ paginate_cursor.next = next
      /\ paginate_cursor.at = Len(journal)
    BY <1>4
<1>8. paginate_cursor.at \in 0 .. Len(journal)
    BY <1>1, <1>7
<1>9. Below = IF cursor = NULL THEN paginate_cursor.at ELSE cursor - 1
    BY <1>5, <1>7
<1>10. \A k \in build_query(old, Below) : k >= next => k \in got
    BY <1>6
<1> HIDE DEF rows
<1> QED BY <1>6, <1>7, <1>8, <1>9, <1>10 DEF Continues

(* Showing an answer that continues the screen keeps it whole.             *)
LEMMA ShowKeeps ==
    ASSUME IInv, ScreenInv, Grows, NEW answer, cursor # 0, Continues(answer), Show(answer),
           old' = old, page' = NULL
    PROVE  ScreenInv'
<1> DEFINE below == IF cursor = NULL THEN answer.at ELSE cursor - 1
           list == Descending(answer.rows)
<1>1. /\ Len(journal) \in Nat /\ Len(journal') \in Nat /\ Len(journal) <= Len(journal')
      /\ answer.at \in 0 .. Len(journal)
      /\ below \in 0 .. Len(journal)
      /\ old \in 0 .. Len(journal)
    BY DEF IInv, TypeOK, Grows, ScreenInv, Continues
<1>2. /\ answer.next \in 0 .. below
      /\ answer.rows \subseteq 1 .. below
      /\ \A i \in answer.rows : answer.next <= i
      /\ \A k \in build_query(old, below) : k >= answer.next => k \in answer.rows
    BY DEF Continues
<1> HIDE DEF below
<1>3. answer.rows \in SUBSET Nat /\ IsFiniteSet(answer.rows)
    <2>1. IsFiniteSet(1 .. below)
        BY <1>1, FS_Interval
    <2> QED BY <1>1, <1>2, <2>1, FS_Subset
<1>4. /\ list \in Seq(answer.rows) /\ Decreasing(list)
      /\ \A k : In(k, list) <=> k \in answer.rows
    BY <1>3, DescendingLists
<1> HIDE DEF list
<1>5. /\ list \in Seq(Nat) /\ shown \in Seq(Nat) /\ Decreasing(shown)
      /\ \A i \in 1 .. Len(list) : list[i] \in answer.rows
    BY <1>3, <1>4 DEF ScreenInv, PagesAreWhole
<1>6. \A i \in 1 .. Len(shown), j \in 1 .. Len(list) : shown[i] > list[j]
    <2>1. CASE cursor = NULL
        BY <2>1 DEF ScreenInv
    <2>2. CASE cursor # NULL
        <3> SUFFICES ASSUME NEW i \in 1 .. Len(shown), NEW j \in 1 .. Len(list)
                     PROVE  shown[i] > list[j]
            OBVIOUS
        <3>1. below = cursor - 1 /\ cursor \in Nat /\ cursor <= shown[i] /\ shown[i] \in Nat
            BY <2>2 DEF below, ScreenInv
        <3>2. list[j] \in 1 .. below
            BY <1>2, <1>5
        <3> QED BY <3>1, <3>2
    <2> QED BY <2>1, <2>2
<1>7. /\ shown' = shown \o list /\ cursor' = answer.next
      /\ top' = IF cursor = NULL THEN answer.at ELSE top
    BY DEF Show, list
<1>8. Decreasing(shown') /\ \A k : In(k, shown') <=> In(k, shown) \/ k \in answer.rows
    BY <1>4, <1>5, <1>6, <1>7, ConcatFalls
<1>9. /\ shown' \in Seq(1 .. Len(journal'))
      /\ \A i \in 1 .. Len(shown') : In(shown'[i], shown')
    <2>1. shown \in Seq(1 .. Len(journal')) /\ list \in Seq(1 .. Len(journal'))
        BY <1>1, <1>2, <1>4 DEF ScreenInv
    <2> QED BY <1>7, <2>1, ConcatProperties DEF In
<1>10. cursor' \in 0 .. Len(journal') /\ cursor' # NULL
    BY <1>1, <1>2, <1>7, RealtimeAssumption
<1>11. ASSUME NEW i \in 1 .. Len(shown') PROVE cursor' <= shown'[i]
    <2>1. In(shown'[i], shown) \/ shown'[i] \in answer.rows
        BY <1>8, <1>9
    <2>2. CASE shown'[i] \in answer.rows
        BY <1>2, <1>7, <2>2
    <2>3. ASSUME NEW n \in 1 .. Len(shown), shown[n] = shown'[i]
          PROVE  cursor' <= shown'[i]
        <3>1. cursor # NULL /\ cursor \in Nat /\ cursor <= shown[n] /\ shown[n] \in Nat
            BY DEF ScreenInv
        <3>2. answer.next <= cursor
            BY <1>2, <3>1 DEF below
        <3> QED BY <1>2, <1>7, <2>3, <3>1, <3>2
    <2> QED BY <2>1, <2>2, <2>3 DEF In
<1>12. top' \in 0 .. Len(journal)
    BY <1>1, <1>7 DEF ScreenInv
<1>13. ASSUME NEW k \in Passing(journal', old, top'), k >= cursor' PROVE In(k, shown')
    <2>1. k \in build_query(old, top')
        BY <1>1, <1>12, <1>13, QueryLater
    <2>2. k \in Nat /\ old < k /\ k <= top' /\ k >= answer.next
        BY <1>1, <1>7, <1>12, <1>13, <2>1, QueryRows
    <2>3. k <= below => k \in build_query(old, below)
        BY <1>1, <2>1, <2>2 DEF build_query
    <2>4. CASE k <= below
        BY <1>2, <1>8, <2>2, <2>3, <2>4
    <2>5. CASE k > below
        <3>1. cursor # NULL /\ k >= cursor /\ top' = top
            BY <1>1, <1>7, <2>2, <2>5 DEF below, ScreenInv
        <3>2. In(k, shown)
            BY <2>1, <3>1 DEF ScreenInv, PagesAreWhole
        <3> QED BY <1>8, <3>2
    <2> QED BY <1>1, <2>2, <2>4, <2>5
<1>14. PagesAreWhole'
    <2>1. build_query(old, top)' = Passing(journal', old, top')
        BY DEF build_query, Passing
    <2>2. \A k \in build_query(old, top)' : k >= cursor' => In(k, shown')
        BY <1>13, <2>1
    <2> QED BY <1>8, <2>2 DEF PagesAreWhole, Decreasing, In
<1>15. old' \in 0 .. Len(journal') /\ top' \in 0 .. Len(journal')
    BY <1>1, <1>12
<1> QED BY <1>9, <1>10, <1>11, <1>14, <1>15 DEF ScreenInv
-----------------------------------------------------------------------------
(* The export.                                                             *)

LEMMA ExportCarries ==
    ASSUME IInv, ExportInv, Grows, UNCHANGED exportVars
    PROVE  ExportInv'
<1>1. /\ Len(journal) \in Nat /\ Len(journal') \in Nat /\ Len(journal) <= Len(journal')
      /\ export' = export /\ file' = file
      /\ \A k \in 1 .. Len(journal) : journal'[k] = journal[k]
    BY DEF IInv, TypeOK, Grows, exportVars
<1>2. file' \in Seq(1 .. Len(journal')) /\ Decreasing(file')
    BY <1>1 DEF ExportInv
<1>3. ASSUME export # NULL, export.pin # NULL PROVE FileInv'
    <2>1. /\ export.floor \in Nat /\ export.pin \in Int /\ export.pin <= Len(journal)
          /\ FileInv
        BY <1>1, <1>3 DEF ExportInv
    <2>2. build_query(export.floor, export.pin)' = Passing(journal', export.floor, export.pin)
        BY <1>1 DEF build_query, Passing
    <2>3. build_query(export.floor, export.pin)' = build_query(export.floor, export.pin)
        BY <1>1, <2>1, <2>2, QueryLater
    <2>4. export' = export /\ file' = file
        BY <1>1
    <2> QED BY <2>1, <2>3, <2>4 DEF FileInv, In
<1>4. ASSUME export # NULL
      PROVE  /\ export \in [stage : {"counted", "body", "done"}, floor : 0 .. Len(journal'),
                            at : 0 .. Len(journal'), pin : 0 .. Len(journal') \cup {NULL}]
             /\ export.stage # "counted" =>
                   export.at + 1 <= Len(journal') /\ journal'[export.at + 1] = Nobody
    <2>1. export \in [stage : {"counted", "body", "done"}, floor : 0 .. Len(journal),
                      at : 0 .. Len(journal), pin : 0 .. Len(journal) \cup {NULL}]
        BY <1>4 DEF ExportInv
    <2>2. export.stage # "counted" =>
             /\ export.at + 1 <= Len(journal) /\ journal[export.at + 1] = Nobody
             /\ export.at + 1 \in 1 .. Len(journal)
        BY <1>1, <1>4, <2>1 DEF ExportInv
    <2> QED BY <1>1, <2>1, <2>2
<1> QED BY <1>1, <1>2, <1>3, <1>4 DEF ExportInv

LEMMA ExportForgotten ==
    ASSUME export' = NULL, file' = <<>>
    PROVE  ExportInv'
BY DEF ExportInv, Decreasing

LEMMA ExportAsked ==
    ASSUME IInv, ScreenInv, export_audit_log
    PROVE  ExportInv'
<1>1. /\ export' = [stage |-> "counted", floor |-> old, at |-> Len(journal), pin |-> NULL]
      /\ file' = <<>> /\ journal' = journal
      /\ old \in 0 .. Len(journal) /\ Len(journal) \in Nat
    BY DEF export_audit_log, IInv, TypeOK, ScreenInv, vars
<1>2. /\ export'.stage = "counted" /\ export'.floor = old
      /\ export'.at = Len(journal) /\ export'.pin = NULL
    BY <1>1
<1>3. export' \in [stage : {"counted", "body", "done"}, floor : 0 .. Len(journal'),
                   at : 0 .. Len(journal'), pin : 0 .. Len(journal') \cup {NULL}]
    BY <1>1
<1> QED BY <1>1, <1>2, <1>3 DEF ExportInv, Decreasing

LEMMA ExportNoted ==
    ASSUME IInv, ExportInv, NoteExported
    PROVE  ExportInv'
<1>1. /\ export # NULL /\ export.stage = "counted" /\ Len(journal) = export.at
      /\ export' = [export EXCEPT !.stage = "body"] /\ file' = file
      /\ Len(journal') = Len(journal) + 1 /\ journal'[Len(journal) + 1] = Nobody
      /\ Len(journal) \in Nat
    BY RecordGrows, AuditLogAssumption DEF NoteExported, IInv, TypeOK
<1>2. /\ export \in [stage : {"counted", "body", "done"}, floor : 0 .. Len(journal),
                     at : 0 .. Len(journal), pin : 0 .. Len(journal) \cup {NULL}]
      /\ export.pin = NULL /\ file = <<>> /\ export.floor <= export.at
    BY <1>1 DEF ExportInv
<1>3. /\ export'.stage = "body" /\ export'.floor = export.floor
      /\ export'.at = export.at /\ export'.pin = NULL
      /\ export' \in [stage : {"counted", "body", "done"}, floor : 0 .. Len(journal'),
                      at : 0 .. Len(journal'), pin : 0 .. Len(journal') \cup {NULL}]
    <2>1. /\ export.floor \in 0 .. Len(journal') /\ export.at \in 0 .. Len(journal')
        BY <1>1, <1>2
    <2>2. export' = [stage |-> "body", floor |-> export.floor, at |-> export.at,
                     pin |-> export.pin]
        BY <1>1, <1>2
    <2>3. export'.stage = "body" /\ export'.floor = export.floor /\ export'.at = export.at
          /\ export'.pin = NULL
        BY <1>2, <2>2
    <2>4. export' \in [stage : {"counted", "body", "done"}, floor : 0 .. Len(journal'),
                       at : 0 .. Len(journal'), pin : 0 .. Len(journal') \cup {NULL}]
        BY <1>2, <2>1, <2>2
    <2> QED BY <2>3, <2>4
<1>4. Decreasing(file') /\ file' \in Seq(1 .. Len(journal'))
    BY <1>1, <1>2 DEF Decreasing
<1> QED BY <1>1, <1>2, <1>3, <1>4 DEF ExportInv

(* The next batch continues the file: its offset, the number of rows that  *)
(* were written, passes over the rows that were written.                   *)
LEMMA BatchKeeps ==
    ASSUME IInv, ExportInv, csv_rows
    PROVE  ExportInv'
<1> DEFINE seen == build_query(export.floor, Sees)
           rest == seen \ Newest(seen, Len(file))
           got == Newest(rest, ExportBatch)
           list == Descending(got)
           U == {file[i] : i \in 1 .. Len(file)}
<1>1. /\ export # NULL /\ export.stage = "body"
      /\ file' = file \o list
      /\ export' = [export EXCEPT !.pin = Sees, !.stage = IF rest = {} THEN "done" ELSE @]
      /\ journal' = journal
    BY DEF csv_rows, vars
<1>2. /\ export \in [stage : {"counted", "body", "done"}, floor : 0 .. Len(journal),
                     at : 0 .. Len(journal), pin : 0 .. Len(journal) \cup {NULL}]
      /\ export.at + 1 <= Len(journal) /\ journal[export.at + 1] = Nobody
      /\ export.floor <= export.at
      /\ file \in Seq(1 .. Len(journal)) /\ file \in Seq(Nat) /\ Decreasing(file)
    BY <1>1 DEF ExportInv
<1>3. /\ Len(journal) \in Nat /\ ExportBatch \in Nat \ {0}
      /\ Sees \in 0 .. Len(journal) /\ export.at + 1 <= Sees
    BY <1>1, <1>2, AuditLogAssumption DEF Sees, IInv, TypeOK, ExportInv
<1>4. seen \in SUBSET Nat /\ IsFiniteSet(seen) /\ seen \subseteq 1 .. Len(journal)
    <2>1. export.floor \in Nat /\ Sees \in Int
        BY <1>2, <1>3
    <2>2. \A i \in seen : export.floor < i /\ i <= Sees
        BY <2>1, QueryRows
    <2> QED BY <1>3, <2>1, <2>2, QueryRows
<1>5. U \subseteq seen /\ \A i \in U, k \in seen : k > i => k \in U
    <2>1. CASE export.pin = NULL
        BY <1>1, <2>1 DEF ExportInv
    <2>2. CASE export.pin # NULL
        <3>1. FileInv /\ seen = build_query(export.floor, export.pin)
            BY <1>1, <2>2 DEF ExportInv, Sees
        <3> QED BY <3>1 DEF FileInv, In
    <2> QED BY <2>1, <2>2
<1>6. \A k : In(k, file) <=> k \in U
    BY DEF In
<1>7. Cardinality(U) = Len(file)
    BY <1>2, DecreasingCounts
<1> HIDE DEF seen, U
<1>8. Newest(seen, Len(file)) = U
    BY <1>4, <1>5, <1>7, NewestAgain
<1>9. rest = seen \ U /\ rest \in SUBSET Nat /\ IsFiniteSet(rest)
    BY <1>4, <1>8, FS_Subset
<1> HIDE DEF rest
<1>10. /\ got \subseteq rest /\ got \in SUBSET Nat /\ IsFiniteSet(got)
       /\ \A i \in got, k \in rest : k > i => k \in got
    <2>1. got \subseteq rest /\ \A i \in got, k \in rest : k > i => k \in got
        BY <1>3, <1>9, NewestTakes
    <2> QED BY <1>9, <2>1, FS_Subset
<1> HIDE DEF got
<1>11. list \in Seq(got) /\ Decreasing(list) /\ \A k : In(k, list) <=> k \in got
    BY <1>10, DescendingLists
<1> HIDE DEF list
<1>a. /\ list \in Seq(Nat) /\ list \in Seq(1 .. Len(journal))
      /\ \A j \in 1 .. Len(list) : list[j] \in got
    <2>1. got \subseteq 1 .. Len(journal)
        BY <1>4, <1>9, <1>10
    <2> QED BY <1>10, <1>11, <2>1, SeqMonotonic, ElementOfSeq
<1>12. \A i \in 1 .. Len(file), j \in 1 .. Len(list) : file[i] > list[j]
    <2> SUFFICES ASSUME NEW i \in 1 .. Len(file), NEW j \in 1 .. Len(list)
                 PROVE  file[i] > list[j]
        OBVIOUS
    <2>1. list[j] \in seen /\ list[j] \notin U
        BY <1>9, <1>10, <1>a
    <2>2. file[i] \in U
        BY DEF U
    <2>3. ~(list[j] > file[i]) /\ list[j] # file[i]
        BY <1>5, <2>1, <2>2
    <2>4. list[j] \in Nat /\ file[i] \in Nat
        BY <1>2, <1>a, ElementOfSeq
    <2> QED BY <2>3, <2>4
<1>13. /\ Decreasing(file')
       /\ \A k : In(k, file') <=> k \in U \/ k \in got
    BY <1>1, <1>2, <1>6, <1>11, <1>12, <1>a, ConcatFalls
<1>14. /\ file' \in Seq(1 .. Len(journal))
       /\ \A i \in 1 .. Len(file') : file'[i] \in U \cup got
    <2>2. file' \in Seq(1 .. Len(journal))
        BY <1>1, <1>2, <1>a, ConcatProperties
    <2>3. \A i \in 1 .. Len(file') : In(file'[i], file')
        BY DEF In
    <2> QED BY <1>13, <2>2, <2>3
<1>15. /\ \A i \in 1 .. Len(file') : file'[i] \in seen
       /\ \A i \in 1 .. Len(file') : \A k \in seen : k > file'[i] => In(k, file')
       /\ rest = {} => \A k \in seen : In(k, file')
    <2>1. ASSUME NEW i \in U \cup got, NEW k \in seen, k > i PROVE In(k, file')
        <3>1. k \in U \/ k \in rest
            BY <1>9
        <3>2. CASE k \in U
            BY <1>13, <3>2
        <3>3. CASE k \in rest
            <4>1. i \in got \/ k \in U
                BY <1>5, <2>1
            <4> QED BY <1>10, <1>13, <2>1, <3>3, <4>1
        <3> QED BY <3>1, <3>2, <3>3
    <2>2. U \cup got \subseteq seen
        BY <1>5, <1>9, <1>10
    <2>3. rest = {} => \A k \in seen : In(k, file')
        BY <1>9, <1>13
    <2> QED BY <1>14, <2>1, <2>2, <2>3
<1>16. /\ export'.pin = Sees /\ export'.floor = export.floor /\ export'.at = export.at
       /\ export'.stage = IF rest = {} THEN "done" ELSE "body"
       /\ export' \in [stage : {"counted", "body", "done"}, floor : 0 .. Len(journal),
                       at : 0 .. Len(journal), pin : 0 .. Len(journal) \cup {NULL}]
    <2> DEFINE stage == IF rest = {} THEN "done" ELSE "body"
    <2>1. export' = [stage |-> stage, floor |-> export.floor, at |-> export.at, pin |-> Sees]
        BY <1>1, <1>2
    <2>2. stage \in {"counted", "body", "done"}
        OBVIOUS
    <2> HIDE DEF stage
    <2>3. /\ export'.pin = Sees /\ export'.floor = export.floor /\ export'.at = export.at
          /\ export'.stage = stage
        BY <2>1
    <2>4. export' \in [stage : {"counted", "body", "done"}, floor : 0 .. Len(journal),
                       at : 0 .. Len(journal), pin : 0 .. Len(journal) \cup {NULL}]
        BY <1>2, <1>3, <2>1, <2>2
    <2> QED BY <2>3, <2>4 DEF stage
<1>17. seen = build_query(export.floor, Sees)
    BY DEF seen
<1>18. FileInv'
    <2>1. build_query(export.floor, export.pin)' = seen
        BY <1>1, <1>16, <1>17 DEF build_query
    <2>2. export'.stage = "done" => rest = {}
        BY <1>16
    <2> QED BY <1>15, <2>1, <2>2 DEF FileInv, In
<1>19. Sees # NULL /\ export'.stage # "counted"
    BY <1>3, <1>16, RealtimeAssumption
<1> QED BY <1>1, <1>2, <1>3, <1>13, <1>14, <1>16, <1>18, <1>19 DEF ExportInv

LEMMA ExportedWhole ==
    ASSUME IInv, ExportInv
    PROVE  ExportIsWhole
<1> SUFFICES ASSUME export # NULL, export.stage = "done"
             PROVE  /\ \A k \in build_query(export.floor, export.at) : In(k, file)
                    /\ journal[export.at + 1] = Nobody
                    /\ Nobody \in Wanted => In(export.at + 1, file)
    BY DEF ExportIsWhole, ExportInv
<1>1. /\ export.floor \in Nat /\ export.at \in Nat /\ export.pin \in Nat
      /\ export.floor <= export.at /\ export.at + 1 <= export.pin
      /\ journal[export.at + 1] = Nobody
      /\ \A k \in build_query(export.floor, export.pin) : In(k, file)
    BY DEF ExportInv, FileInv, IInv, TypeOK
<1>2. build_query(export.floor, export.at) \subseteq build_query(export.floor, export.pin)
    <2>1. \A k \in export.floor + 1 .. export.at : k \in export.floor + 1 .. export.pin
        BY <1>1
    <2> QED BY <2>1 DEF build_query
<1>3. Nobody \in Wanted => export.at + 1 \in build_query(export.floor, export.pin)
    <2>1. export.at + 1 \in export.floor + 1 .. export.pin
        BY <1>1
    <2> QED BY <1>1, <2>1 DEF build_query
<1> QED BY <1>1, <1>2, <1>3
-----------------------------------------------------------------------------
LEMMA AuditInitInv == AuditInit => AuditInv
<1> SUFFICES ASSUME AuditInit PROVE AuditInv
    OBVIOUS
<1>1. IInv
    BY InitInv DEF AuditInit
<1>2. ScreenInv
    <2>1. /\ Len(journal) \in Nat /\ old = 0 /\ top = 0 /\ cursor = NULL /\ shown = <<>>
          /\ page = NULL
        BY <1>1 DEF AuditInit, IInv, TypeOK
    <2>2. PagesAreWhole
        BY <2>1 DEF PagesAreWhole, Decreasing
    <2> QED BY <2>1, <2>2 DEF ScreenInv
<1>3. ExportInv
    BY DEF AuditInit, ExportInv, Decreasing
<1> QED BY <1>1, <1>2, <1>3 DEF AuditInv

LEMMA AuditStepInv == AuditInv /\ [AuditNext]_<<vars, auditVars>> => AuditInv'
<1> SUFFICES ASSUME AuditInv, [AuditNext]_<<vars, auditVars>> PROVE AuditInv'
    OBVIOUS
<1>1. IInv /\ TypeOK /\ ScreenInv /\ ExportInv
    BY DEF AuditInv, IInv
<1>2. [Next]_vars /\ Grows
    BY <1>1, AuditStepOfStream
<1>3. IInv'
    BY <1>1, <1>2, StepInv
<1> SUFFICES ScreenInv' /\ ExportInv'
    BY <1>3 DEF AuditInv
<1>4. ASSUME UNCHANGED <<old, logVars>> PROVE ScreenInv'
    <2>1. old' \in old .. Len(journal') /\ UNCHANGED <<cursor, shown, top>> /\ page' = page
        BY <1>1, <1>2, <1>4 DEF logVars, ScreenInv, Grows, IInv, TypeOK
    <2> QED BY <1>1, <1>2, <2>1, ScreenCarries
<1>5. UNCHANGED exportVars => ExportInv'
    BY <1>1, <1>2, ExportCarries
<1>6. UNCHANGED auditVars => ScreenInv' /\ ExportInv'
    BY <1>4, <1>5 DEF auditVars
<1>7. CASE LogStep
    <2>1. CASE list_audit_log
        <3>1. cursor # 0 /\ page = NULL /\ old' = old /\ UNCHANGED exportVars
            BY <2>1 DEF list_audit_log
        <3>2. Continues(paginate_cursor)
            BY <1>1, <3>1, PageContinues
        <3>3. CASE noted
            <4>1. Show(paginate_cursor) /\ page' = NULL
                BY <2>1, <3>1, <3>3 DEF list_audit_log
            <4>2. ScreenInv'
                BY <1>1, <1>2, <3>1, <3>2, <4>1, ShowKeeps
            <4> QED BY <1>5, <3>1, <4>2
        <3>4. CASE ~noted
            <4>1. page' = paginate_cursor /\ UNCHANGED <<cursor, shown, top, old, journal>>
                BY <2>1, <3>4 DEF list_audit_log, vars
            <4>2. Continues(page)'
                BY <3>2, <4>1 DEF Continues, build_query
            <4>3. PagesAreWhole'
                BY <1>1, <4>1 DEF ScreenInv, PagesAreWhole, Decreasing, In, build_query
            <4>4. ScreenInv'
                BY <1>1, <3>1, <4>1, <4>2, <4>3 DEF ScreenInv
            <4> QED BY <1>5, <3>1, <4>4
        <3> QED BY <3>3, <3>4
    <2>2. CASE note_read
        <3>1. /\ page # NULL /\ Show(page) /\ page' = NULL /\ old' = old /\ UNCHANGED exportVars
              /\ cursor # 0 /\ Continues(page)
            BY <1>1, <2>2 DEF note_read, ScreenInv
        <3>2. ScreenInv'
            BY <1>1, <1>2, <3>1, ShowKeeps
        <3> QED BY <1>5, <3>1, <3>2
    <2>3. CASE NoteRefused \/ NoteExpires
        <3>1. /\ old' = old /\ UNCHANGED <<cursor, shown, top>> /\ page' \in {page, NULL}
              /\ UNCHANGED exportVars
            BY <2>3 DEF NoteRefused, NoteExpires
        <3>2. old' \in old .. Len(journal')
            BY <1>1, <1>2, <3>1 DEF ScreenInv, Grows, IInv, TypeOK
        <3> QED BY <1>1, <1>2, <1>5, <3>1, <3>2, ScreenCarries
    <2>4. CASE Reload
        <3>1. /\ page' = NULL /\ cursor' = NULL /\ shown' = <<>>
              /\ UNCHANGED <<journal, old, top, exportVars>>
            BY <2>4 DEF Reload, vars
        <3>2. PagesAreWhole'
            BY <3>1 DEF PagesAreWhole, Decreasing
        <3>3. ScreenInv'
            BY <1>1, <3>1, <3>2 DEF ScreenInv
        <3> QED BY <1>5, <3>1, <3>3
    <2> QED BY <1>7, <2>1, <2>2, <2>3, <2>4 DEF LogStep
<1>8. CASE ExportStep
    <2>1. UNCHANGED <<old, logVars>>
        BY <1>8 DEF ExportStep, export_audit_log, NoteExported, csv_rows, ExportEnds
    <2>2. ExportEnds => ExportInv'
        BY ExportForgotten DEF ExportEnds
    <2>3. ExportInv'
        BY <1>1, <1>8, <2>2, ExportAsked, ExportNoted, BatchKeeps DEF ExportStep
    <2>4. ScreenInv'
        BY <1>4, <2>1
    <2> QED BY <2>3, <2>4
<1>9. CASE HotWindowMoves
    <2>1. /\ old' = old + 1 /\ old < Len(journal) /\ UNCHANGED <<cursor, shown, top>>
          /\ page' = page /\ journal' = journal /\ UNCHANGED exportVars
        BY <1>9 DEF HotWindowMoves, logVars, vars
    <2>2. old' \in old .. Len(journal')
        BY <1>1, <2>1 DEF ScreenInv, IInv, TypeOK
    <2> QED BY <1>1, <1>2, <1>5, <2>1, <2>2, ScreenCarries
<1>10. CASE Crash
    <2>1. /\ old' = old /\ UNCHANGED <<cursor, shown, top>> /\ page' = NULL
          /\ export' = NULL /\ file' = <<>>
        BY <1>10 DEF Crash
    <2>2. old' \in old .. Len(journal')
        BY <1>1, <1>2, <2>1 DEF ScreenInv, Grows, IInv, TypeOK
    <2> QED BY <1>1, <1>2, <2>1, <2>2, ScreenCarries, ExportForgotten
<1> QED BY <1>6, <1>7, <1>8, <1>9, <1>10 DEF AuditNext, StreamStep

LEMMA AuditAlwaysInv == AuditSpec => []AuditInv
BY AuditInitInv, AuditStepInv, PTL DEF AuditSpec

(* The log screen and the export are readers: with them around it the      *)
(* stream is the one of Realtime, which every theorem above is about.      *)
THEOREM StreamUndisturbed == AuditSpec => Spec
<1>1. AuditInit => Init
    BY DEF AuditInit
<1>2. AuditInv /\ [AuditNext]_<<vars, auditVars>> => [Next]_vars
    BY AuditStepOfStream DEF AuditInv, IInv
<1> QED BY <1>1, <1>2, AuditAlwaysInv, PTL DEF AuditSpec, Spec

(* Page after page, over any filter, page size and growth of the journal,  *)
(* the screen shows no entry twice, none out of order, and skips none.     *)
THEOREM PagesWhole == AuditSpec => []PagesAreWhole
<1>1. AuditInv => PagesAreWhole
    BY DEF AuditInv, ScreenInv
<1> QED BY <1>1, AuditAlwaysInv, PTL

(* A CSV downloaded to its end has every entry that was counted once, and  *)
(* the entry that says who took it, for batches of any size.               *)
THEOREM ExportWhole == AuditSpec => []ExportIsWhole
<1>1. AuditInv => ExportIsWhole
    BY ExportedWhole DEF AuditInv
<1> QED BY <1>1, AuditAlwaysInv, PTL
=============================================================================
