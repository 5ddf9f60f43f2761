---------------------------- MODULE Collector_proofs ----------------------------
(***************************************************************************)
(* Theorems about Collector: its type invariant, the two bounds on the      *)
(* requests a collector makes (RateWindow), and the spacing of reconnects  *)
(* (Feed).                                                                  *)
(***************************************************************************)
EXTENDS Collector, SetLemmas, TLAPS

-----------------------------------------------------------------------------
(* The clock and a list of ages.                                            *)

\* Ages are natural numbers.
LEMMA AgesType ==
    ASSUME NEW t \in Seq(Ages)
    PROVE  /\ t \in Seq(Nat) /\ Len(t) \in Nat /\ DOMAIN t = 1..Len(t)
           /\ \A i \in DOMAIN t : t[i] \in Nat
<1>1. Ages \subseteq Nat
  BY DEF Ages
<1>2. t \in [1..Len(t) -> Ages] /\ Len(t) \in Nat
  OBVIOUS
<1>3. t \in [1..Len(t) -> Nat]
  BY <1>1, <1>2
<1> QED
  BY <1>2, <1>3

\* A list of entries in the order of time.
Sorted(t) == \A i, j \in DOMAIN t : i < j => t[i] >= t[j]

\* The entries that leave the window at the next tick are the first ones.
LEMMA GonePrefix ==
    ASSUME NEW t \in Seq(Ages), Sorted(t)
    PROVE  /\ Gone(t) \in 0..Len(t)
           /\ \A i \in DOMAIN t : i <= Gone(t) <=> t[i] = Window - 1
<1> DEFINE G == {i \in DOMAIN t : t[i] + 1 >= Window}
<1>1. \A i \in DOMAIN t : t[i] \in Nat /\ t[i] <= Window - 1
  BY RateWindowAssumption DEF Ages
<1>2. Len(t) \in Nat /\ DOMAIN t = 1..Len(t)
  OBVIOUS
<1>3. \A i \in G : \A j \in 1..Len(t) : j < i => j \in G
  BY <1>1, <1>2, RateWindowAssumption DEF Sorted
<1>4. Cardinality(G) \in 0..Len(t) /\ G = 1..Cardinality(G)
  <2> HIDE DEF G
  <2>1. G \subseteq 1..Len(t)
    BY <1>2 DEF G
  <2> QED
    BY <1>2, <1>3, <2>1, Prefix
<1>5. Gone(t) = Cardinality(G)
  BY DEF Gone
<1>6. \A i \in DOMAIN t : i \in G <=> t[i] = Window - 1
  BY <1>1, RateWindowAssumption
<1>7. \A i \in DOMAIN t : i \in 1..Gone(t) <=> i \in G
  BY <1>4, <1>5
<1> HIDE DEF G
<1> QED
  BY <1>2, <1>4, <1>5, <1>6, <1>7

\* What is left of them, one tick older.
LEMMA OlderIs ==
    ASSUME NEW t \in Seq(Ages), Sorted(t)
    PROVE  /\ Older(t) \in Seq(Ages) /\ Sorted(Older(t))
           /\ Len(Older(t)) = Len(t) - Gone(t)
           /\ \A i \in 1..(Len(t) - Gone(t)) :
                 /\ i + Gone(t) \in DOMAIN t
                 /\ Older(t)[i] = t[i + Gone(t)] + 1
<1> DEFINE g == Gone(t)
           L == Len(t) - g
<1>1. g \in Nat /\ L \in Nat /\ Len(t) \in Nat /\ DOMAIN t = 1..Len(t)
  BY GonePrefix
<1>2. \A i \in 1..L : i + g \in DOMAIN t /\ t[i + g] # Window - 1 /\ t[i + g] \in Ages
  BY <1>1, GonePrefix
<1>3. \A i \in 1..L : t[i + g] + 1 \in Ages
  BY <1>2, RateWindowAssumption DEF Ages
<1>4. Older(t) = [i \in 1..L |-> t[i + g] + 1]
  BY DEF Older
<1> HIDE DEF g, L
<1>5. Older(t) \in Seq(Ages) /\ Len(Older(t)) = L /\ DOMAIN Older(t) = 1..L
  BY <1>1, <1>3, <1>4
<1>6. Sorted(Older(t))
  <2> SUFFICES ASSUME NEW i \in 1..L, NEW j \in 1..L, i < j
               PROVE  Older(t)[i] >= Older(t)[j]
    BY <1>5 DEF Sorted
  <2>1. i + g \in DOMAIN t /\ j + g \in DOMAIN t /\ i + g < j + g
    BY <1>1, <1>2
  <2>2. t[i + g] >= t[j + g]
    BY <2>1 DEF Sorted
  <2> QED
    BY <1>2, <1>4, <2>2 DEF Ages
<1> QED
  BY <1>2, <1>4, <1>5, <1>6 DEF g, L

\* A request that is made now comes last.
LEMMA AppendNow ==
    ASSUME NEW t \in Seq(Ages), Sorted(t)
    PROVE  Append(t, 0) \in Seq(Ages) /\ Sorted(Append(t, 0))
<1>1. 0 \in Ages /\ \A i \in DOMAIN t : t[i] \in Nat
  BY RateWindowAssumption DEF Ages
<1>2. /\ Append(t, 0) \in Seq(Ages) /\ Len(Append(t, 0)) = Len(t) + 1
      /\ Append(t, 0)[Len(t) + 1] = 0 /\ \A i \in 1..Len(t) : Append(t, 0)[i] = t[i]
  BY <1>1
<1>3. Sorted(Append(t, 0))
  <2> DEFINE u == Append(t, 0)
  <2> SUFFICES ASSUME NEW i \in 1..(Len(t) + 1), NEW j \in 1..(Len(t) + 1), i < j
               PROVE  u[i] >= u[j]
    BY <1>2 DEF Sorted
  <2>1. i \in 1..Len(t) /\ u[i] = t[i]
    BY <1>2
  <2>2. CASE j = Len(t) + 1
    BY <1>1, <1>2, <2>1, <2>2
  <2>3. CASE j \in 1..Len(t)
    <3>1. t[i] >= t[j]
      BY <2>1, <2>3 DEF Sorted
    <3> QED
      BY <1>2, <2>1, <2>3, <3>1
  <2> QED
    BY <2>2, <2>3
<1> QED
  BY <1>2, <1>3

-----------------------------------------------------------------------------
(* Type correctness of the request window.                                  *)

WindowInv == WindowTypeOK /\ Sorted(times) /\ Sorted(sent)

LEMMA WindowInvInit == WindowInit => WindowInv
<1> SUFFICES ASSUME WindowInit PROVE WindowInv
  OBVIOUS
<1>1. weighted \in BOOLEAN /\ heavy \in BOOLEAN
  BY Zenon DEF WindowInit
<1>2. times = <<>> /\ sent = <<>> /\ Sorted(<<>>)
  BY DEF WindowInit, Sorted
<1> QED
  BY <1>1, <1>2, RateWindowAssumption DEF WindowInit, WindowInv, WindowTypeOK

LEMMA SendTyped ==
    ASSUME WindowInv, NEW c \in Callers, Send(c)
    PROVE  /\ sent' \in Seq(Ages) /\ Sorted(sent')
           /\ caller' \in [Callers -> {"idle", "asleep", "backoff", "request"}]
           /\ attempts' \in [Callers -> 0..MaxRetries]
  BY AppendNow, RateWindowAssumption DEF WindowInv, WindowTypeOK, Send

LEMMA GoTyped ==
    ASSUME WindowInv, NEW c \in Callers, Go(c)
    PROVE  WindowInv'
<1>1. times' \in Seq(Ages) /\ Sorted(times') /\ weighted' = weighted
  BY AppendNow DEF WindowInv, WindowTypeOK, Go
<1>2. CASE /\ ~weighted \/ (windowAge < Window /\ ~heavy)
           /\ Send(c) /\ UNCHANGED <<left, heavy, windowAge>>
  BY <1>1, <1>2, SendTyped DEF WindowInv, WindowTypeOK
<1>3. CASE /\ weighted /\ windowAge = Window
           /\ ResetWeight /\ Send(c) /\ UNCHANGED left
  <2>1. heavy' \in BOOLEAN /\ weighted' \in BOOLEAN
    BY <1>1, <1>3, Zenon DEF WindowInv, WindowTypeOK, ResetWeight
  <2>2. windowAge' \in 0..Window
    BY <1>3, RateWindowAssumption DEF ResetWeight
  <2> QED
    BY <1>1, <1>3, <2>1, <2>2, SendTyped DEF WindowInv, WindowTypeOK
<1>4. CASE /\ weighted /\ windowAge < Window /\ heavy
           /\ Sleep(c, "backoff", Window - windowAge)
           /\ UNCHANGED <<sent, attempts, heavy, windowAge>>
  <2>1. heavy' \in BOOLEAN /\ weighted' \in BOOLEAN
    BY <1>1, <1>4, Zenon DEF WindowInv, WindowTypeOK
  <2>2. Window - windowAge \in 0..Window
    BY <1>4, RateWindowAssumption DEF WindowInv, WindowTypeOK
  <2> QED
    BY <1>1, <1>4, <2>1, <2>2 DEF WindowInv, WindowTypeOK, Sleep
<1> QED
  BY <1>2, <1>3, <1>4 DEF Go, WeightCheck

LEMMA WindowInvStep == WindowInv /\ [WindowNext]_windowVars => WindowInv'
<1> SUFFICES ASSUME WindowInv, [WindowNext]_windowVars PROVE WindowInv'
  OBVIOUS
<1>1. ASSUME NEW c \in Callers, Fetch(c) PROVE WindowInv'
  <2>1. CASE AtLimit(Len(times))
    <3>1. times # <<>> /\ Head(times) \in Ages
      BY <2>1, RateWindowAssumption DEF AtLimit, WindowInv, WindowTypeOK
    <3>2. Window - Head(times) \in 0..Window
      BY <3>1, RateWindowAssumption DEF Ages
    <3> QED
      BY <1>1, <2>1, <3>2 DEF Fetch, Sleep, WindowInv, WindowTypeOK, weightVars
  <2> QED
    BY <1>1, <2>1, GoTyped DEF Fetch
<1>2. ASSUME NEW c \in Callers, Wake(c) PROVE WindowInv'
  BY <1>2, GoTyped DEF Wake
<1>3. ASSUME NEW c \in Callers, WakeWeighted(c) PROVE WindowInv'
  BY <1>3, SendTyped, RateWindowAssumption
     DEF WakeWeighted, ResetWeight, WindowInv, WindowTypeOK
<1>4. ASSUME NEW c \in Callers, Done(c) PROVE WindowInv'
  <2>1. heavy' \in BOOLEAN
    BY <1>4, Zenon DEF Done, Weighed, WindowInv, WindowTypeOK
  <2> QED
    BY <1>4, <2>1, RateWindowAssumption DEF Done, WindowInv, WindowTypeOK
<1>5. ASSUME NEW c \in Callers, Retry(c) PROVE WindowInv'
  <2>1. heavy' \in BOOLEAN
    BY <1>5, Zenon DEF Retry, Weighed, WindowInv, WindowTypeOK
  <2>2. attempts' \in [Callers -> 0..MaxRetries]
    BY <1>5, RateWindowAssumption DEF Retry, AttemptsLeft, WindowInv, WindowTypeOK
  <2>3. sent' \in Seq(Ages) /\ Sorted(sent')
    BY <1>5, AppendNow DEF Retry, WindowInv, WindowTypeOK
  <2> QED
    BY <1>5, <2>1, <2>2, <2>3 DEF Retry, WindowInv, WindowTypeOK
<1>6. ASSUME WindowTick PROVE WindowInv'
  <2>1. /\ times' \in Seq(Ages) /\ Sorted(times')
        /\ sent' \in Seq(Ages) /\ Sorted(sent')
    BY <1>6, OlderIs DEF WindowTick, WindowInv, WindowTypeOK
  <2>2. left' \in [Callers -> 0..Window] /\ windowAge' \in 0..Window
    BY <1>6, RateWindowAssumption DEF WindowTick, WindowInv, WindowTypeOK
  <2> QED
    BY <1>6, <2>1, <2>2 DEF WindowTick, WindowInv, WindowTypeOK
<1>7. CASE UNCHANGED windowVars
  BY <1>7 DEF windowVars, weightVars, WindowInv, WindowTypeOK
<1> QED
  BY <1>1, <1>2, <1>3, <1>4, <1>5, <1>6, <1>7 DEF WindowNext

-----------------------------------------------------------------------------
(* Overshoot.  The sleepers that are due will stamp their requests in this  *)
(* tick without another look, so they are counted as if they had.  How many *)
(* entries may share an age is not bounded by the limit, but the number of  *)
(* places is: a place is the first entry of an age, or one that has         *)
(* Crowd - 1 younger or equally old entries of its own age behind it.  No   *)
(* action makes more than Limit places, and Crowd entries fit in each.      *)

Crowd == Cardinality(Callers)

Due == {c \in Callers : caller[c] = "asleep" /\ left[c] = 0}

\* k requests made now, after those of t.
Joined(t, k) == t \o [i \in 1..k |-> 0]

Places(t) == {i \in DOMAIN t : \/ i = 1 \/ t[i - 1] # t[i]
                               \/ i + Crowd - 1 \in DOMAIN t /\ t[i + Crowd - 1] = t[i]}

\* The sleepers that are not due wait for the oldest entry to leave.
SleepersWait ==
    \A c \in Callers : caller[c] = "asleep" /\ left[c] > 0 =>
        times # <<>> /\ left[c] = Window - times[1]

PlacesBounded == Cardinality(Places(Joined(times, Cardinality(Due)))) <= Limit

OvershootInv == WindowInv /\ SleepersWait /\ PlacesBounded

LEMMA CrowdType == Crowd \in Nat \ {0}
  BY RateWindowAssumption, FS_CardinalityType, FS_EmptySet DEF Crowd

LEMMA DueType == IsFiniteSet(Due) /\ Cardinality(Due) \in Nat /\ Cardinality(Due) <= Crowd
<1>1. Due \subseteq Callers
  BY DEF Due
<1> HIDE DEF Due
<1> QED
  BY <1>1, RateWindowAssumption, FS_Subset, FS_CardinalityType DEF Crowd

\* Crowd entries fit in a place.
LEMMA PlacesHold ==
    ASSUME NEW t \in Seq(Nat), Sorted(t)
    PROVE  /\ IsFiniteSet(Places(t)) /\ Cardinality(Places(t)) \in Nat
           /\ Len(t) <= Cardinality(Places(t)) * Crowd
<1> DEFINE L == Len(t)
           P == Places(t)
           Q == P \X (1..Crowd)
<1>1. L \in Nat /\ DOMAIN t = 1..L /\ \A i \in 1..L : t[i] \in Nat
  OBVIOUS
<1>2. \A a, b \in 1..L : a < b => t[a] >= t[b]
  BY <1>1 DEF Sorted
<1>3. 1..L \subseteq Int
  BY <1>1
<1>4. Crowd \in Nat \ {0}
  BY CrowdType
<1>5. P \subseteq 1..L /\ IsFiniteSet(P) /\ Cardinality(P) \in Nat
  <2>1. P \subseteq 1..L
    BY <1>1 DEF Places
  <2> HIDE DEF P
  <2> QED
    BY <1>1, <2>1, UpTo, FS_Subset, FS_CardinalityType
<1>6. ASSUME NEW j \in 1..L
      PROVE  \E q \in Q : q[1] + q[2] = j + 1
  <2> DEFINE Same == {i \in 1..L : t[i] = t[j]}
  <2>1. Same \subseteq Nat /\ j \in Same
    OBVIOUS
  <2>2. PICK s \in Same : \A i \in Same : s <= i
    <3> HIDE DEF Same
    <3> QED
      BY <2>1, LeastNumber
  <2>3. s \in 1..L /\ t[s] = t[j] /\ s <= j
    BY <2>1, <2>2
  <2>4. s \in P
    <3>1. CASE s = 1
      BY <1>1, <2>3, <3>1 DEF Places
    <3>2. CASE s # 1
      <4>1. s - 1 \in 1..L /\ s - 1 \notin Same
        BY <2>2, <2>3, <3>2
      <4>2. t[s - 1] # t[s]
        BY <2>3, <4>1
      <4> QED
        BY <1>1, <2>3, <4>2 DEF Places
    <3> QED
      BY <3>1, <3>2
  <2>5. CASE j - s < Crowd - 1
    <3>1. j - s + 1 \in 1..Crowd
      BY <1>4, <2>3, <2>5
    <3>2. <<s, j - s + 1>> \in Q
      BY <2>4, <3>1
    <3> QED
      BY <2>3, <3>2
  <2>6. CASE j - s >= Crowd - 1
    <3> DEFINE r == j - (Crowd - 1)
    <3>1. r \in 1..L /\ s <= r /\ r <= j /\ r + Crowd - 1 = j
      BY <1>4, <2>3, <2>6
    <3>2. t[r] = t[j]
      <4> HIDE DEF L, P, Q, Same, r
      <4>1. t[s] \in Nat /\ t[r] \in Nat /\ t[j] \in Nat
        BY <1>1, <2>3, <3>1
      <4>2. t[s] >= t[r]
        <5>1. s < r => t[s] >= t[r]
          BY <1>2, <2>3, <3>1
        <5>2. s = r \/ s < r
          BY <1>3, <2>3, <3>1
        <5> QED
          BY <4>1, <5>1, <5>2
      <4>3. t[r] >= t[j]
        <5>1. r < j => t[r] >= t[j]
          BY <1>2, <3>1
        <5>2. r = j \/ r < j
          BY <1>3, <3>1
        <5> QED
          BY <4>1, <5>1, <5>2
      <4> QED
        BY <2>3, <4>1, <4>2, <4>3
    <3>3. r \in P
      BY <1>1, <3>1, <3>2 DEF Places
    <3>4. <<r, Crowd>> \in Q
      BY <1>4, <3>3
    <3>5. r + Crowd = j + 1
      BY <1>4
    <3> QED
      BY <3>4, <3>5
  <2> QED
    BY <1>4, <2>3, <2>5, <2>6
<1>7. IsFiniteSet(Q) /\ Cardinality(Q) = Cardinality(P) * Crowd
  <2> HIDE DEF P
  <2> QED
    BY <1>4, <1>5, UpTo, Product
<1>8. L <= Cardinality(Q)
  <2> DEFINE f == [j \in 1..L |-> CHOOSE q \in Q : q[1] + q[2] = j + 1]
  <2> HIDE DEF Q
  <2>1. \A j \in 1..L : f[j] \in Q /\ f[j][1] + f[j][2] = j + 1
    BY <1>6
  <2>2. f \in [1..L -> Q]
    BY <2>1
  <2>3. \A a, b \in 1..L : f[a] = f[b] => a = b
    <3> SUFFICES ASSUME NEW a \in 1..L, NEW b \in 1..L, f[a] = f[b] PROVE a = b
      OBVIOUS
    <3>1. a + 1 = b + 1
      BY <2>1
    <3> QED
      BY <3>1
  <2> HIDE DEF f
  <2>4. Cardinality(1..L) <= Cardinality(Q)
    BY <1>7, <2>2, <2>3, NotLarger
  <2> QED
    BY <1>1, <2>4, UpTo
<1> QED
  BY <1>5, <1>7, <1>8

LEMMA JoinedIs ==
    ASSUME NEW t \in Seq(Ages), NEW k \in Nat
    PROVE  /\ Joined(t, k) \in Seq(Ages) /\ Len(Joined(t, k)) = Len(t) + k
           /\ DOMAIN Joined(t, k) = 1..(Len(t) + k)
           /\ \A i \in 1..Len(t) : Joined(t, k)[i] = t[i]
           /\ \A i \in 1..(Len(t) + k) : i > Len(t) => Joined(t, k)[i] = 0
<1> DEFINE z == [i \in 1..k |-> 0]
<1>1. z \in Seq(Ages) /\ Len(z) = k /\ \A i \in 1..k : z[i] = 0
  BY RateWindowAssumption DEF Ages
<1>2. Joined(t, k) = t \o z
  BY DEF Joined
<1> HIDE DEF z
<1>3. /\ t \o z \in Seq(Ages) /\ Len(t \o z) = Len(t) + k
      /\ DOMAIN (t \o z) = 1..(Len(t) + k)
  BY <1>1
<1>4. \A i \in 1..Len(t) : (t \o z)[i] = t[i]
  BY <1>1
<1>5. ASSUME NEW i \in 1..(Len(t) + k), i > Len(t) PROVE (t \o z)[i] = 0
  <2>1. i - Len(t) \in 1..k /\ (t \o z)[i] = z[i - Len(t)]
    BY <1>1, <1>5
  <2> QED
    BY <1>1, <2>1
<1> QED
  BY <1>2, <1>3, <1>4, <1>5

LEMMA JoinedSorted ==
    ASSUME NEW t \in Seq(Ages), Sorted(t), NEW k \in Nat
    PROVE  Sorted(Joined(t, k))
<1> DEFINE u == Joined(t, k)
<1>1. \A i \in DOMAIN t : t[i] \in Nat
  BY RateWindowAssumption DEF Ages
<1>4. /\ u \in Seq(Ages) /\ DOMAIN u = 1..(Len(t) + k)
      /\ \A i \in 1..Len(t) : u[i] = t[i]
      /\ \A i \in 1..(Len(t) + k) : i > Len(t) => u[i] = 0
  BY JoinedIs
<1> HIDE DEF u
<1> SUFFICES ASSUME NEW i \in 1..(Len(t) + k), NEW j \in 1..(Len(t) + k), i < j
             PROVE  u[i] >= u[j]
  BY <1>4 DEF Sorted, u
<1>2. CASE j <= Len(t)
  <2>1. t[i] >= t[j]
    BY <1>2 DEF Sorted
  <2> QED
    BY <1>2, <1>4, <2>1
<1>3. CASE j > Len(t)
  <2>1. u[j] = 0 /\ u[i] \in Nat
    BY <1>1, <1>3, <1>4
  <2> QED
    BY <2>1
<1> QED
  BY <1>2, <1>3

\* A sleeper that is due stamps the request it was counted for.
LEMMA JoinedWake ==
    ASSUME NEW t \in Seq(Ages), NEW k \in Nat
    PROVE  Joined(Append(t, 0), k) = Joined(t, k + 1)
<1> DEFINE u == Append(t, 0)
           a == Joined(u, k)
           b == Joined(t, k + 1)
<1>1. /\ u \in Seq(Ages) /\ Len(u) = Len(t) + 1 /\ u[Len(t) + 1] = 0
      /\ \A i \in 1..Len(t) : u[i] = t[i]
  BY RateWindowAssumption DEF Ages
<1> HIDE DEF u
<1>6. /\ a \in Seq(Ages) /\ Len(a) = Len(u) + k
      /\ \A i \in 1..Len(u) : a[i] = u[i]
      /\ \A i \in 1..(Len(u) + k) : i > Len(u) => a[i] = 0
  BY <1>1, JoinedIs
<1>7. /\ b \in Seq(Ages) /\ Len(b) = Len(t) + (k + 1)
      /\ \A i \in 1..Len(t) : b[i] = t[i]
      /\ \A i \in 1..(Len(t) + (k + 1)) : i > Len(t) => b[i] = 0
  <2>1. k + 1 \in Nat
    OBVIOUS
  <2> QED
    BY ONLY <2>1, t \in Seq(Ages), JoinedIs
<1> HIDE DEF a, b
<1>8. Len(t) + 1 + k = Len(u) + k /\ Len(t) + 1 + k = Len(t) + (k + 1)
  BY <1>1
<1>2. /\ a \in Seq(Ages) /\ Len(a) = Len(t) + 1 + k
      /\ \A i \in 1..Len(u) : a[i] = u[i]
      /\ \A i \in 1..(Len(t) + 1 + k) : i > Len(u) => a[i] = 0
  BY <1>6, <1>8
<1>3. /\ b \in Seq(Ages) /\ Len(b) = Len(t) + 1 + k
      /\ \A i \in 1..Len(t) : b[i] = t[i]
      /\ \A i \in 1..(Len(t) + 1 + k) : i > Len(t) => b[i] = 0
  BY <1>7, <1>8
<1>4. ASSUME NEW i \in 1..(Len(t) + 1 + k) PROVE a[i] = b[i]
  <2>1. CASE i <= Len(t)
    BY <1>1, <1>2, <1>3, <2>1
  <2>2. CASE i = Len(t) + 1
    BY <1>1, <1>2, <1>3, <2>2
  <2>3. CASE i > Len(t) + 1
    BY <1>1, <1>2, <1>3, <2>3
  <2> QED
    BY <2>1, <2>2, <2>3
<1>5. a = b
  BY <1>2, <1>3, <1>4
<1> QED
  BY <1>5 DEF a, b, u

\* A request that finds room makes at most one place more than there are entries.
LEMMA PlacesAfterGo ==
    ASSUME NEW t \in Seq(Ages), NEW k \in Nat, k <= Crowd - 1
    PROVE  Cardinality(Places(Joined(Append(t, 0), k))) <= Len(t) + 1
<1> DEFINE u == Joined(t, k + 1)
           P == Places(u)
<1>1. Joined(Append(t, 0), k) = u
  BY JoinedWake
<1>6. /\ DOMAIN u = 1..(Len(t) + (k + 1))
      /\ \A i \in 1..(Len(t) + (k + 1)) : i > Len(t) => u[i] = 0
  <2>1. k + 1 \in Nat
    OBVIOUS
  <2> QED
    BY ONLY <2>1, t \in Seq(Ages), JoinedIs
<1>2. /\ DOMAIN u = 1..(Len(t) + 1 + k)
      /\ \A i \in 1..(Len(t) + 1 + k) : i > Len(t) => u[i] = 0
  <2>1. Len(t) + 1 + k = Len(t) + (k + 1)
    OBVIOUS
  <2> QED
    BY <1>6, <2>1
<1>3. ASSUME NEW i \in P PROVE i \in 1..(Len(t) + 1)
  <2>1. i \in 1..(Len(t) + 1 + k)
    BY <1>2 DEF Places
  <2>2. SUFFICES ASSUME i > Len(t) + 1 PROVE FALSE
    BY <2>1
  <2>3. i # 1 /\ u[i - 1] = 0 /\ u[i] = 0
    BY <1>2, <2>1, <2>2
  <2>4. i + Crowd - 1 > Len(t) + 1 + k
    <3>1. Len(t) \in Nat /\ i \in Int
      BY <2>1
    <3> QED
      BY <2>2, <3>1, CrowdType
  <2>5. i + Crowd - 1 \notin DOMAIN u
    BY <1>2, <2>1, <2>4, CrowdType
  <2> QED
    BY <2>3, <2>5 DEF Places
<1> HIDE DEF P, u
<1>4. P \subseteq 1..(Len(t) + 1)
  BY <1>3
<1>5. Cardinality(P) <= Len(t) + 1
  <2>1. Len(t) + 1 \in Nat
    OBVIOUS
  <2>2. IsFiniteSet(1..(Len(t) + 1)) /\ Cardinality(1..(Len(t) + 1)) = Len(t) + 1
    BY <2>1, UpTo
  <2>3. Cardinality(P) <= Cardinality(1..(Len(t) + 1))
    BY <1>4, <2>2, FS_Subset
  <2> QED
    BY <2>2, <2>3
<1> QED
  BY <1>1, <1>5 DEF P

\* The tick that lets sleepers go has taken a place away.
LEMMA PlacesAfterTick ==
    ASSUME NEW t \in Seq(Ages), Sorted(t), NEW k \in Nat, k <= Crowd,
           k > 0 => t # <<>> /\ t[1] = Window - 1
    PROVE  Cardinality(Places(Joined(Older(t), k))) <= Cardinality(Places(t))
<1> DEFINE g == Gone(t)
           L == Len(t) - g
           u == Older(t)
           v == Joined(u, k)
           P == Places(v)
           f == [i \in P |-> IF i <= L THEN i + g ELSE 1]
<1>1. /\ g \in Nat /\ L \in Nat /\ Len(t) \in Nat /\ Len(t) = L + g /\ DOMAIN t = 1..(L + g)
      /\ \A i \in 1..(L + g) : t[i] \in Nat /\ (i <= g <=> t[i] = Window - 1)
  <2>1. g \in 0..Len(t) /\ \A i \in DOMAIN t : i <= g <=> t[i] = Window - 1
    BY GonePrefix
  <2>2. Len(t) \in Nat /\ DOMAIN t = 1..Len(t) /\ \A i \in DOMAIN t : t[i] \in Nat
    BY AgesType
  <2>3. L \in Nat /\ Len(t) = L + g
    BY <2>1, <2>2
  <2> HIDE DEF L, g
  <2> QED
    BY <2>1, <2>2, <2>3
<1>2. u \in Seq(Ages) /\ Len(u) = L /\ \A i \in 1..L : i + g \in DOMAIN t /\ u[i] = t[i + g] + 1
  BY OlderIs
<1>3. /\ DOMAIN v = 1..(Len(u) + k)
      /\ \A i \in 1..Len(u) : v[i] = u[i]
      /\ \A i \in 1..(Len(u) + k) : i > Len(u) => v[i] = 0
  BY <1>2, JoinedIs
<1>4. k > 0 => g >= 1 /\ L + g >= 1
  <2> SUFFICES ASSUME k > 0 PROVE g >= 1
    BY <1>1
  <2>1. 1 \in 1..(L + g) /\ t[1] = Window - 1
    BY <1>1
  <2> QED
    BY <1>1, <2>1
<1> HIDE DEF g, L, u, v
<1>5. ASSUME NEW i \in P, i <= L PROVE i + g \in Places(t)
  <2>1. i \in 1..L /\ v[i] = t[i + g] + 1 /\ i + g \in 1..(L + g)
    <3>1. i \in DOMAIN v
      BY DEF Places
    <3>2. i \in 1..L
      BY <1>1, <1>2, <1>3, <1>5, <3>1
    <3> QED
      BY <1>1, <1>2, <1>3, <3>2
  <2>2. CASE i = 1 /\ g = 0
    BY <1>1, <2>1, <2>2 DEF Places
  <2>3. CASE i = 1 /\ g > 0
    <3>1. t[g] = Window - 1 /\ t[g + 1] # Window - 1 /\ i + g - 1 = g /\ i + g = g + 1
      BY <1>1, <2>1, <2>3
    <3>2. t[i + g - 1] # t[i + g]
      BY <3>1
    <3> QED
      BY <1>1, <2>1, <3>2 DEF Places
  <2>4. CASE i # 1 /\ v[i - 1] # v[i]
    <3>1. i - 1 \in 1..L
      BY <1>1, <2>1, <2>4
    <3>2. v[i - 1] = t[i - 1 + g] + 1 /\ i - 1 + g = i + g - 1
      <4>1. v[i - 1] = u[i - 1]
        BY <1>2, <1>3, <3>1
      <4>2. u[i - 1] = t[(i - 1) + g] + 1
        BY <1>2, <3>1
      <4>3. (i - 1) + g = i + g - 1
        BY <1>1, <2>1
      <4> QED
        BY <4>1, <4>2, <4>3
    <3>3. t[i + g - 1] # t[i + g]
      BY <2>1, <2>4, <3>2
    <3> QED
      BY <1>1, <2>1, <3>3 DEF Places
  <2>5. CASE i + Crowd - 1 \in DOMAIN v /\ v[i + Crowd - 1] = v[i]
    <3> DEFINE j == i + Crowd - 1
    <3>1. v[i] # 0 /\ j \in 1..(L + k)
      BY <1>1, <1>2, <1>3, <2>1, <2>5
    <3>2. j \in 1..L
      BY <1>1, <1>2, <1>3, <2>5, <3>1
    <3>3. v[j] = t[j + g] + 1 /\ j + g \in 1..(L + g)
      BY <1>1, <1>2, <1>3, <3>2
    <3>4. t[j + g] = t[i + g] /\ j + g = i + g + Crowd - 1
      BY <1>1, <2>1, <2>5, <3>3, CrowdType
    <3> QED
      BY <1>1, <2>1, <3>3, <3>4 DEF Places
  <2> QED
    BY <1>1, <2>2, <2>3, <2>4, <2>5 DEF Places
<1>6. ASSUME NEW i \in P, ~(i <= L) PROVE i = L + 1 /\ k > 0
  <2>1. i \in 1..(L + k)
    BY <1>2, <1>3 DEF Places
  <2>2. k > 0 /\ i > L
    BY <1>1, <1>6, <2>1
  <2>3. SUFFICES ASSUME i # L + 1 PROVE FALSE
    BY <2>2
  <2>4. i # 1 /\ v[i] = 0 /\ v[i - 1] = 0
    BY <1>1, <1>2, <1>3, <1>6, <2>1, <2>3
  <2>5. i + Crowd - 1 > L + k
    BY <1>1, <1>6, <2>1, <2>3, CrowdType
  <2>6. i + Crowd - 1 \notin DOMAIN v
    BY <1>1, <1>2, <1>3, <2>1, <2>5, CrowdType
  <2> QED
    BY <2>4, <2>6 DEF Places
<1>7. P \subseteq 1..(L + k)
  BY <1>2, <1>3 DEF Places
<1>8. 1 \in Places(t) \/ Len(t) = 0
  BY <1>1 DEF Places
<1>9. ASSUME NEW i \in P PROVE f[i] \in Places(t)
  <2>1. CASE i <= L
    BY <1>5, <2>1
  <2>2. CASE ~(i <= L)
    <3>1. Len(t) # 0
      BY <1>1, <1>4, <1>6, <2>2
    <3> QED
      BY <1>8, <2>2, <3>1
  <2> QED
    BY <2>1, <2>2
<1>10. ASSUME NEW i \in P, NEW j \in P, f[i] = f[j] PROVE i = j
  <2>1. i \in Nat \ {0} /\ j \in Nat \ {0}
    BY <1>1, <1>7
  <2>2. CASE i <= L /\ j <= L
    BY <1>1, <1>10, <2>1, <2>2
  <2>3. CASE ~(i <= L) /\ ~(j <= L)
    BY <1>6, <2>3
  <2>4. CASE (i <= L /\ ~(j <= L)) \/ (~(i <= L) /\ j <= L)
    <3>1. k > 0
      BY <1>6, <2>4
    <3> QED
      BY <1>1, <1>4, <1>10, <2>1, <2>4, <3>1
  <2> QED
    BY <2>2, <2>3, <2>4
<1>11. f \in [P -> Places(t)]
  BY <1>9
<1>12. IsFiniteSet(Places(t))
  <2>1. t \in Seq(Nat)
    BY AgesType
  <2> QED
    BY <2>1, PlacesHold
<1> HIDE DEF f, P
<1>13. Cardinality(P) <= Cardinality(Places(t))
  BY <1>10, <1>11, <1>12, NotLarger
<1> QED
  BY <1>13 DEF P, v, u

\* What a request that is stamped does to the sleepers.
LEMMA GoCallers ==
    ASSUME WindowInv, NEW c \in Callers, Go(c)
    PROVE  /\ times' = Append(times, 0) /\ caller'[c] \in {"request", "backoff"}
           /\ \A d \in Callers \ {c} : caller'[d] = caller[d] /\ left'[d] = left[d]
  BY DEF Go, WeightCheck, Send, Sleep, WindowInv, WindowTypeOK

LEMMA GoDue ==
    ASSUME WindowInv, NEW c \in Callers, Go(c)
    PROVE  Due' = Due \ {c}
  BY GoCallers DEF Due

LEMMA GoSleepers ==
    ASSUME WindowInv, SleepersWait, NEW c \in Callers, Go(c)
    PROVE  SleepersWait'
<1> SUFFICES ASSUME NEW d \in Callers, caller'[d] = "asleep", left'[d] > 0
             PROVE  times' # <<>> /\ left'[d] = Window - times'[1]
  BY DEF SleepersWait
<1>1. d # c /\ caller[d] = "asleep" /\ left[d] > 0 /\ left'[d] = left[d]
  BY GoCallers
<1>2. times # <<>> /\ left[d] = Window - times[1]
  BY <1>1 DEF SleepersWait
<1>3. times' = Append(times, 0) /\ times \in Seq(Ages)
  BY GoCallers DEF WindowInv, WindowTypeOK
<1>4. times' # <<>> /\ times'[1] = times[1]
  BY <1>2, <1>3
<1> QED
  BY <1>1, <1>2, <1>4

\* What leaves the sleepers and the stamps alone.
LEMMA SleepersUnmoved ==
    ASSUME OvershootInv, WindowInv', times' = times,
           \A d \in Callers : \/ caller'[d] = caller[d] /\ left'[d] = left[d]
                              \/ /\ caller[d] = "asleep" => left[d] > 0
                                 /\ caller'[d] = "asleep" =>
                                       left'[d] > 0 /\ times # <<>> /\ left'[d] = Window - times[1]
    PROVE  OvershootInv'
<1>1. Due' = Due
  BY DEF Due, WindowInv, WindowTypeOK, OvershootInv
<1>2. SleepersWait'
  BY DEF SleepersWait, OvershootInv
<1>3. PlacesBounded'
  BY <1>1 DEF PlacesBounded, OvershootInv
<1> QED
  BY <1>2, <1>3 DEF OvershootInv

LEMMA OvershootInit == WindowInit => OvershootInv
<1> SUFFICES ASSUME WindowInit PROVE OvershootInv
  OBVIOUS
<1>1. WindowInv /\ SleepersWait /\ times = <<>>
  BY WindowInvInit DEF WindowInit, SleepersWait
<1>2. Due = {}
  BY DEF WindowInit, Due
<1>3. Cardinality(Due) = 0
  BY <1>2, FS_EmptySet
<1>4. DOMAIN Joined(<<>>, 0) = 1..(Len(<<>>) + 0)
  BY <1>1, JoinedIs DEF WindowInv, WindowTypeOK
<1>5. Places(Joined(<<>>, 0)) = {}
  BY <1>4 DEF Places
<1>6. PlacesBounded
  <2>1. Joined(times, Cardinality(Due)) = Joined(<<>>, 0)
    BY <1>1, <1>3
  <2>2. Cardinality(Places(Joined(times, Cardinality(Due)))) = 0
    BY <1>5, <2>1, FS_EmptySet
  <2> QED
    BY <2>2, RateWindowAssumption DEF PlacesBounded
<1> QED
  BY <1>1, <1>6 DEF OvershootInv

LEMMA OvershootStep == OvershootInv /\ [WindowNext]_windowVars => OvershootInv'
<1> SUFFICES ASSUME OvershootInv, [WindowNext]_windowVars PROVE OvershootInv'
  OBVIOUS
<1>0. WindowInv /\ WindowInv' /\ SleepersWait /\ PlacesBounded
  BY WindowInvStep DEF OvershootInv
<1>t. times \in Seq(Ages) /\ Sorted(times)
  BY <1>0 DEF WindowInv, WindowTypeOK
<1>1. ASSUME NEW c \in Callers, Fetch(c) PROVE OvershootInv'
  <2>1. CASE AtLimit(Len(times))
    <3>1. times # <<>> /\ Head(times) = times[1] /\ times[1] \in Ages
      BY <1>t, <2>1, RateWindowAssumption DEF AtLimit
    <3>2. Window - times[1] > 0
      BY <3>1, RateWindowAssumption DEF Ages
    <3>3. /\ caller[c] = "idle" /\ times' = times
          /\ caller' = [caller EXCEPT ![c] = "asleep"]
          /\ left' = [left EXCEPT ![c] = Window - times[1]]
      BY <1>1, <2>1, <3>1 DEF Fetch, Sleep
    <3>4. \A d \in Callers : \/ caller'[d] = caller[d] /\ left'[d] = left[d]
                             \/ /\ caller[d] = "asleep" => left[d] > 0
                                /\ caller'[d] = "asleep" =>
                                      left'[d] > 0 /\ times # <<>> /\ left'[d] = Window - times[1]
      BY <1>0, <3>1, <3>2, <3>3 DEF WindowInv, WindowTypeOK
    <3> QED
      BY <1>0, <3>3, <3>4, SleepersUnmoved
  <2>2. CASE ~AtLimit(Len(times))
    <3> DEFINE k == Cardinality(Due)
    <3>1. Go(c) /\ caller[c] = "idle"
      BY <1>1, <2>2 DEF Fetch
    <3>2. Due' = Due
      BY <1>0, <3>1, GoDue DEF Due
    <3>3. k \in Nat /\ k <= Crowd - 1
      <4>1. Due \subseteq Callers \ {c}
        BY <3>1 DEF Due
      <4>2. IsFiniteSet(Callers \ {c}) /\ Cardinality(Callers \ {c}) = Crowd - 1
        BY RateWindowAssumption, FS_RemoveElement DEF Crowd
      <4> HIDE DEF Due
      <4> QED
        BY <4>1, <4>2, DueType, FS_Subset
    <3>4. times' = Append(times, 0)
      BY <1>0, <3>1, GoCallers
    <3>5. Cardinality(Places(Joined(times', k))) <= Len(times) + 1
      BY <1>t, <3>3, <3>4, PlacesAfterGo
    <3>6. Len(times) + 1 <= Limit
      BY <1>t, <2>2, RateWindowAssumption DEF AtLimit
    <3>7. Cardinality(Places(Joined(times', k))) \in Nat
      <4>1. times' \in Seq(Ages) /\ Sorted(times')
        BY <1>t, <3>4, AppendNow
      <4>2. Joined(times', k) \in Seq(Ages) /\ Sorted(Joined(times', k))
        BY <3>3, <4>1, JoinedIs, JoinedSorted
      <4> QED
        BY <4>2, AgesType, PlacesHold
    <3>8. Cardinality(Places(Joined(times', k))) <= Limit
      BY <1>t, <3>5, <3>6, <3>7, RateWindowAssumption
    <3>9. PlacesBounded'
      BY <3>2, <3>8 DEF PlacesBounded
    <3> QED
      BY <1>0, <3>1, <3>9, GoSleepers DEF OvershootInv
  <2> QED
    BY <2>1, <2>2
<1>2. ASSUME NEW c \in Callers, Wake(c) PROVE OvershootInv'
  <2>1. Go(c) /\ c \in Due
    BY <1>2 DEF Wake, Due
  <2>2. Due' = Due \ {c} /\ times' = Append(times, 0)
    BY <1>0, <2>1, GoDue, GoCallers
  <2>3. Cardinality(Due') \in Nat /\ Cardinality(Due) = Cardinality(Due') + 1
    <3>1. Cardinality(Due \ {c}) = Cardinality(Due) - 1 /\ IsFiniteSet(Due \ {c})
      BY <2>1, DueType, FS_RemoveElement
    <3>2. Cardinality(Due \ {c}) \in Nat
      BY <3>1, FS_CardinalityType
    <3> QED
      BY <2>2, <3>1, <3>2, DueType
  <2>4. Joined(times', Cardinality(Due')) = Joined(times, Cardinality(Due))
    BY <1>t, <2>2, <2>3, JoinedWake
  <2>5. PlacesBounded'
    BY <1>0, <2>4 DEF PlacesBounded
  <2> QED
    BY <1>0, <2>1, <2>5, GoSleepers DEF OvershootInv
<1>3. ASSUME NEW c \in Callers, WakeWeighted(c) PROVE OvershootInv'
  BY <1>0, <1>3, SleepersUnmoved DEF WakeWeighted, Send, WindowInv, WindowTypeOK
<1>4. ASSUME NEW c \in Callers, Done(c) PROVE OvershootInv'
  BY <1>0, <1>4, SleepersUnmoved DEF Done, WindowInv, WindowTypeOK
<1>5. ASSUME NEW c \in Callers, Retry(c) PROVE OvershootInv'
  BY <1>0, <1>5, SleepersUnmoved DEF Retry, WindowInv, WindowTypeOK
<1>6. ASSUME WindowTick PROVE OvershootInv'
  <2> DEFINE k == Cardinality(Due')
  <2>1. /\ times' = Older(times) /\ caller' = caller
        /\ left' = [c \in Callers |-> IF left[c] > 0 THEN left[c] - 1 ELSE 0]
        /\ \A c \in Callers : caller[c] = "asleep" => left[c] > 0
    BY <1>6 DEF WindowTick
  <2>2. /\ \A c \in Callers : left[c] \in Nat
        /\ \A i \in DOMAIN times : times[i] \in Nat
        /\ Len(times) \in Nat /\ DOMAIN times = 1..Len(times) /\ Window \in Nat \ {0}
    BY <1>0, <1>t, RateWindowAssumption DEF WindowInv, WindowTypeOK, Ages
  <2>3. Cardinality(Due) = 0
    <3>1. Due = {}
      BY <2>1 DEF Due
    <3> QED
      BY <3>1, FS_EmptySet
  <2>4. k \in Nat /\ k <= Crowd
    <3>1. Due' \subseteq Callers
      BY DEF Due
    <3> HIDE DEF Due
    <3> QED
      BY <3>1, RateWindowAssumption, FS_Subset, FS_CardinalityType DEF Crowd
  <2>5. ASSUME k > 0 PROVE times # <<>> /\ times[1] = Window - 1
    <3>1. Due' # {}
      BY <2>5, FS_EmptySet
    <3>2. PICK c \in Callers : caller[c] = "asleep" /\ left'[c] = 0
      BY <2>1, <3>1 DEF Due
    <3>3. left[c] = 1
      BY <2>1, <2>2, <3>2
    <3>4. times # <<>> /\ left[c] = Window - times[1]
      BY <1>0, <3>2, <3>3 DEF SleepersWait
    <3>5. times[1] \in Nat
      BY <2>2, <3>4
    <3> QED
      BY <2>2, <3>3, <3>4, <3>5
  <2>6. PlacesBounded'
    <3>1. Cardinality(Places(Joined(times', k))) <= Cardinality(Places(times))
      BY <1>t, <2>1, <2>4, <2>5, PlacesAfterTick
    <3>2. Joined(times, 0) = times
      <4>1. /\ Joined(times, 0) \in Seq(Ages) /\ Len(Joined(times, 0)) = Len(times) + 0
            /\ \A i \in 1..Len(times) : Joined(times, 0)[i] = times[i]
        BY <1>t, JoinedIs
      <4> QED
        BY <1>t, <4>1
    <3>3. Cardinality(Places(times)) <= Limit
      BY <1>0, <2>3, <3>2 DEF PlacesBounded
    <3>4. Cardinality(Places(times)) \in Nat
      BY <1>t, AgesType, PlacesHold
    <3>5. Cardinality(Places(Joined(times', k))) \in Nat
      <4>1. times' \in Seq(Ages) /\ Sorted(times')
        BY <1>t, <2>1, OlderIs
      <4>2. Joined(times', k) \in Seq(Ages) /\ Sorted(Joined(times', k))
        BY <2>4, <4>1, JoinedIs, JoinedSorted
      <4> QED
        BY <4>2, AgesType, PlacesHold
    <3>6. Cardinality(Places(Joined(times', k))) <= Limit
      BY <3>1, <3>3, <3>4, <3>5, RateWindowAssumption
    <3> QED
      BY <3>6 DEF PlacesBounded
  <2>7. SleepersWait'
    <3> SUFFICES ASSUME NEW c \in Callers, caller'[c] = "asleep", left'[c] > 0
                 PROVE  times' # <<>> /\ left'[c] = Window - times'[1]
      BY DEF SleepersWait
    <3>1. left'[c] = left[c] - 1 /\ left[c] > 1
      BY <2>1, <2>2
    <3>2. times # <<>> /\ left[c] = Window - times[1]
      BY <1>0, <2>1, <3>1 DEF SleepersWait
    <3>3. 1 \in DOMAIN times /\ times[1] # Window - 1
      BY <2>2, <3>1, <3>2
    <3>4. Gone(times) \in 0..Len(times) /\ ~(1 <= Gone(times))
      BY <1>t, <3>3, GonePrefix
    <3>5. Gone(times) = 0
      BY <2>2, <3>4
    <3>6. times'[1] = times[1] + 1 /\ Len(times') = Len(times)
      BY <1>t, <2>1, <2>2, <3>3, <3>5, OlderIs
    <3> QED
      BY <2>2, <3>1, <3>2, <3>3, <3>6
  <2> QED
    BY <1>0, <2>6, <2>7 DEF OvershootInv
<1>7. CASE UNCHANGED windowVars
  BY <1>0, <1>7, SleepersUnmoved DEF windowVars
<1> QED
  BY <1>1, <1>2, <1>3, <1>4, <1>5, <1>6, <1>7 DEF WindowNext

(* OvershootInv is enough for the property.                                 *)
LEMMA OvershootFollows == OvershootInv => Overshoot
<1> SUFFICES ASSUME OvershootInv PROVE Overshoot
  OBVIOUS
<1> DEFINE k == Cardinality(Due)
           t == Joined(times, k)
           p == Cardinality(Places(t))
<1>1. times \in Seq(Ages) /\ Sorted(times) /\ p <= Limit /\ k \in Nat
  BY DueType DEF OvershootInv, WindowInv, WindowTypeOK, PlacesBounded
<1>2. t \in Seq(Ages) /\ Sorted(t) /\ Len(t) = Len(times) + k
  BY <1>1, JoinedIs, JoinedSorted
<1>3. p \in Nat /\ Len(t) <= p * Crowd
  BY <1>2, AgesType, PlacesHold
<1> HIDE DEF p, t, k
<1>4. p * Crowd <= Limit * Crowd
  BY <1>1, <1>3, CrowdType, RateWindowAssumption
<1>5. Len(times) \in Nat /\ p * Crowd \in Nat /\ Limit * Crowd \in Nat
  BY <1>1, <1>3, CrowdType, RateWindowAssumption
<1>6. Len(times) <= Limit * Crowd
  BY <1>1, <1>2, <1>3, <1>4, <1>5
<1> QED
  BY <1>6 DEF Overshoot, Crowd

-----------------------------------------------------------------------------
(* SentBounded.  Retries and weighted requests are sent without a stamp of  *)
(* their own or long after it, so what was sent in the last a ticks is      *)
(* compared with what was stamped in them, for every a, and what the        *)
(* callers may still send on old stamps is counted as if they had.          *)

Younger(t, a) == Cardinality({i \in DOMAIN t : t[i] <= a})

\* The requests each caller may still send without another stamp.
Owed == [c \in Callers |->
    IF caller[c] = "backoff" THEN MaxRetries
    ELSE IF caller[c] = "request" THEN attempts[c] ELSE 0]

\* The sum of f: its pairs of a caller and a number up to the caller's value.
Pairs(f) == {p \in Callers \X (1..MaxRetries) : p[2] <= f[p[1]]}
Total(f) == Cardinality(Pairs(f))

\* The most that one caller can owe.
Spare == IF weighted THEN MaxRetries ELSE MaxRetries - 1

OwedBounded ==
    \A c \in Callers : /\ caller[c] = "backoff" => weighted
                       /\ caller[c] = "request" => attempts[c] < MaxRetries

SentCovered ==
    \A a \in Ages :
        Younger(sent, a) + Total(Owed) <= MaxRetries * Younger(times, a) + Crowd * Spare

SentInv == OvershootInv /\ OwedBounded /\ SentCovered

LEMMA YoungerType ==
    ASSUME NEW t \in Seq(Ages), NEW a
    PROVE  IsFiniteSet({i \in DOMAIN t : t[i] <= a}) /\ Younger(t, a) \in Nat
<1> DEFINE Y == {i \in DOMAIN t : t[i] <= a}
<1>1. Y \subseteq 1..Len(t) /\ Len(t) \in Nat
  OBVIOUS
<1>2. Younger(t, a) = Cardinality(Y)
  BY DEF Younger
<1> HIDE DEF Y
<1>3. IsFiniteSet(Y) /\ Cardinality(Y) \in Nat
  BY <1>1, UpTo, FS_Subset, FS_CardinalityType
<1> QED
  BY <1>2, <1>3 DEF Y

LEMMA YoungerAppend ==
    ASSUME NEW t \in Seq(Ages), NEW a \in Ages
    PROVE  Younger(Append(t, 0), a) = Younger(t, a) + 1
<1> DEFINE u == Append(t, 0)
           Y == {i \in DOMAIN t : t[i] <= a}
           Z == {i \in DOMAIN u : u[i] <= a}
<1>1. /\ DOMAIN u = 1..(Len(t) + 1) /\ DOMAIN t = 1..Len(t) /\ Len(t) \in Nat
      /\ u[Len(t) + 1] = 0 /\ \A i \in 1..Len(t) : u[i] = t[i]
  BY AgesType, AppendNow
<1>2. a >= 0
  BY DEF Ages
<1> HIDE DEF u
<1>3. Z = Y \cup {Len(t) + 1} /\ Len(t) + 1 \notin Y
  BY <1>1, <1>2
<1>4. IsFiniteSet(Y) /\ Cardinality(Y) = Younger(t, a)
  BY YoungerType DEF Younger
<1>5. Younger(u, a) = Cardinality(Z)
  BY DEF Younger
<1> HIDE DEF Y, Z
<1>6. Cardinality(Y \cup {Len(t) + 1}) = Cardinality(Y) + 1
  BY <1>3, <1>4, FS_AddElement
<1> QED
  BY <1>3, <1>4, <1>5, <1>6 DEF u

\* A tick later, what is at most a old was at most a - 1 old.
LEMMA YoungerOlder ==
    ASSUME NEW t \in Seq(Ages), Sorted(t), NEW a \in Ages
    PROVE  Younger(Older(t), a) = IF a = 0 THEN 0 ELSE Younger(t, a - 1)
<1> DEFINE g == Gone(t)
           L == Len(t) - g
           u == Older(t)
           Y == {i \in DOMAIN u : u[i] <= a}
           Z == {i \in DOMAIN t : t[i] <= a - 1}
           f == [i \in Y |-> i + g]
<1>1. /\ g \in Nat /\ L \in Nat /\ Len(t) = L + g /\ DOMAIN t = 1..(L + g)
      /\ \A i \in 1..(L + g) : t[i] \in Nat /\ (i <= g <=> t[i] = Window - 1)
  <2>1. g \in 0..Len(t) /\ \A i \in DOMAIN t : i <= g <=> t[i] = Window - 1
    BY GonePrefix
  <2>2. Len(t) \in Nat /\ DOMAIN t = 1..Len(t) /\ \A i \in DOMAIN t : t[i] \in Nat
    BY AgesType
  <2>3. L \in Nat /\ Len(t) = L + g
    BY <2>1, <2>2
  <2> HIDE DEF L, g
  <2>4. g \in Nat /\ DOMAIN t = 1..(L + g)
    BY <2>1, <2>2, <2>3
  <2>5. \A i \in 1..(L + g) : t[i] \in Nat /\ (i <= g <=> t[i] = Window - 1)
    BY <2>1, <2>2, <2>4
  <2> QED
    BY <2>3, <2>4, <2>5
<1>2. DOMAIN u = 1..L /\ \A i \in 1..L : i + g \in DOMAIN t /\ u[i] = t[i + g] + 1
  <2> HIDE DEF g
  <2>1. u \in Seq(Ages) /\ Len(u) = L /\ \A i \in 1..L : i + g \in DOMAIN t /\ u[i] = t[i + g] + 1
    BY OlderIs DEF g
  <2> QED
    BY <2>1, AgesType
<1>3. a \in Nat /\ a < Window /\ Window \in Nat
  BY RateWindowAssumption DEF Ages
<1>4. Younger(u, a) = Cardinality(Y) /\ Younger(t, a - 1) = Cardinality(Z) /\ IsFiniteSet(Z)
  BY YoungerType DEF Younger
<1> HIDE DEF g, L, u
<1>5. \A i \in Y : i \in 1..L /\ t[i + g] + 1 <= a /\ t[i + g] \in Nat /\ i + g \in Z
  <2> SUFFICES ASSUME NEW i \in Y
               PROVE  i \in 1..L /\ t[i + g] + 1 <= a /\ t[i + g] \in Nat /\ i + g \in Z
    OBVIOUS
  <2>1. i \in 1..L /\ u[i] <= a
    BY <1>2
  <2> HIDE DEF Y
  <2>2. i + g \in DOMAIN t /\ u[i] = t[i + g] + 1
    BY <1>2, <2>1
  <2>3. t[i + g] \in Nat
    BY <1>1, <2>2
  <2>4. t[i + g] + 1 <= a
    BY <2>1, <2>2
  <2>5. t[i + g] <= a - 1
    BY <1>3, <2>3, <2>4
  <2>6. i + g \in Z
    BY <2>2, <2>5
  <2> QED
    BY <2>1, <2>3, <2>4, <2>6
<1>6. CASE a = 0
  <2>1. Y = {}
    BY <1>5, <1>6
  <2> QED
    BY <1>4, <1>6, <2>1, FS_EmptySet DEF u
<1>7. CASE a # 0
  <2>1. f \in [Y -> Z]
    BY <1>5
  <2>2. \A i, j \in Y : f[i] = f[j] => i = j
    BY <1>1, <1>5
  <2>3. ASSUME NEW z \in Z PROVE \E i \in Y : f[i] = z
    <3>1. z \in 1..(L + g) /\ t[z] <= a - 1 /\ t[z] \in Nat
      BY <1>1
    <3>2. ~(z <= g)
      BY <1>1, <1>3, <3>1
    <3>3. z - g \in 1..L /\ (z - g) + g = z
      BY <1>1, <3>1, <3>2
    <3>4. u[z - g] = t[z] + 1
      BY <1>2, <3>3
    <3>5. z - g \in Y
      BY <1>2, <1>3, <3>1, <3>3, <3>4
    <3> QED
      BY <3>3, <3>5
  <2>4. IsFiniteSet(Y)
    <3>1. Y \subseteq 1..L
      BY <1>5
    <3> HIDE DEF Y
    <3> QED
      BY <1>1, <3>1, UpTo, FS_Subset
  <2> HIDE DEF f, Y, Z
  <2>5. Cardinality(Z) = Cardinality(Y)
    BY <2>1, <2>2, <2>3, <2>4, SameSize
  <2> QED
    BY <1>4, <1>7, <2>5 DEF u
<1> QED
  BY <1>6, <1>7

\* Every entry is younger than the window.
LEMMA YoungerAll ==
    ASSUME NEW t \in Seq(Ages)
    PROVE  Younger(t, Window - 1) = Len(t)
<1>1. \A i \in DOMAIN t : t[i] <= Window - 1
  <2>1. \A i \in DOMAIN t : t[i] \in Ages
    OBVIOUS
  <2> QED
    BY <2>1 DEF Ages
<1>2. {i \in DOMAIN t : t[i] <= Window - 1} = 1..Len(t)
  BY <1>1, AgesType
<1>3. Len(t) \in Nat
  BY AgesType
<1> QED
  BY <1>2, <1>3, UpTo DEF Younger

\* The sum when one caller's share changes.
LEMMA TotalChange ==
    ASSUME NEW f \in [Callers -> 0..MaxRetries], NEW c \in Callers, NEW q \in 0..MaxRetries
    PROVE  /\ Total(f) \in Nat /\ Total([f EXCEPT ![c] = q]) \in Nat
           /\ Total([f EXCEPT ![c] = q]) = Total(f) - f[c] + q
<1> DEFINE Rest == {p \in Callers \X (1..MaxRetries) : p[1] # c /\ p[2] <= f[p[1]]}
           h == [f EXCEPT ![c] = q]
<1>1. IsFiniteSet(Callers \X (1..MaxRetries))
  <2>1. MaxRetries \in Nat /\ IsFiniteSet(Callers)
    BY RateWindowAssumption
  <2> QED
    BY <2>1, UpTo, Product
<1>2. IsFiniteSet(Rest)
  <2>1. Rest \subseteq Callers \X (1..MaxRetries)
    OBVIOUS
  <2> HIDE DEF Rest
  <2> QED
    BY <1>1, <2>1, FS_Subset
<1>3. ASSUME NEW e \in [Callers -> 0..MaxRetries], \A d \in Callers \ {c} : e[d] = f[d]
      PROVE  Total(e) = Cardinality(Rest) + e[c]
  <2>1. e[c] \in 0..MaxRetries /\ MaxRetries \in Nat /\ e[c] \in Nat
    BY RateWindowAssumption
  <2>2. IsFiniteSet({c} \X (1..e[c])) /\ Cardinality({c} \X (1..e[c])) = e[c]
    BY <2>1, UpTo, Copy
  <2>3. Pairs(e) = Rest \cup ({c} \X (1..e[c]))
    <3>1. ASSUME NEW p \in Pairs(e) PROVE p \in Rest \cup ({c} \X (1..e[c]))
      BY <1>3, <2>1 DEF Pairs
    <3>2. ASSUME NEW p \in Rest PROVE p \in Pairs(e)
      BY <1>3 DEF Pairs
    <3>3. ASSUME NEW p \in {c} \X (1..e[c]) PROVE p \in Pairs(e)
      BY <2>1 DEF Pairs
    <3> HIDE DEF Rest
    <3> QED
      BY <3>1, <3>2, <3>3
  <2>4. Rest \cap ({c} \X (1..e[c])) = {}
    OBVIOUS
  <2>5. Cardinality(Rest \cup ({c} \X (1..e[c]))) = Cardinality(Rest) + Cardinality({c} \X (1..e[c]))
    <3> HIDE DEF Rest
    <3> QED
      BY <1>2, <2>2, <2>4, Disjoint
  <2> HIDE DEF Rest
  <2> QED
    BY <2>2, <2>3, <2>5 DEF Total
<1>4. h \in [Callers -> 0..MaxRetries] /\ h[c] = q /\ \A d \in Callers \ {c} : h[d] = f[d]
  OBVIOUS
<1>5. Cardinality(Rest) \in Nat /\ f[c] \in Nat /\ q \in Nat
  BY <1>2, FS_CardinalityType, RateWindowAssumption
<1> HIDE DEF Rest, h
<1>6. Total(f) = Cardinality(Rest) + f[c]
  BY <1>3
<1>7. Total(h) = Cardinality(Rest) + q
  BY <1>3, <1>4
<1>8. Total(f) \in Nat /\ Total(h) \in Nat /\ Total(h) = Total(f) - f[c] + q
  BY <1>5, <1>6, <1>7
<1> QED
  BY <1>8 DEF h

\* The sum is at most the number of callers times the largest share.
LEMMA TotalBound ==
    ASSUME NEW f \in [Callers -> 0..MaxRetries], NEW m \in 0..MaxRetries,
           \A c \in Callers : f[c] <= m
    PROVE  Total(f) \in Nat /\ Total(f) <= Crowd * m
<1>1. m \in Nat /\ IsFiniteSet(Callers)
  BY RateWindowAssumption
<1>2. IsFiniteSet(Callers \X (1..m)) /\ Cardinality(Callers \X (1..m)) = Crowd * m
  BY <1>1, UpTo, Product DEF Crowd
<1>3. Pairs(f) \subseteq Callers \X (1..m)
  <2> SUFFICES ASSUME NEW p \in Pairs(f) PROVE p \in Callers \X (1..m)
    OBVIOUS
  <2>1. p \in Callers \X (1..MaxRetries) /\ p[2] <= f[p[1]] /\ f[p[1]] <= m /\ f[p[1]] \in Nat
    BY RateWindowAssumption DEF Pairs
  <2> QED
    BY <1>1, <2>1
<1>4. IsFiniteSet(Pairs(f)) /\ Cardinality(Pairs(f)) <= Cardinality(Callers \X (1..m))
  BY <1>2, <1>3, FS_Subset
<1> QED
  BY <1>2, <1>4, FS_CardinalityType DEF Total

LEMMA OwedType ==
    ASSUME WindowTypeOK
    PROVE  Owed \in [Callers -> 0..MaxRetries]
<1>1. \A c \in Callers : attempts[c] \in 0..MaxRetries /\ 0 \in 0..MaxRetries /\ MaxRetries \in 0..MaxRetries
  BY RateWindowAssumption DEF WindowTypeOK
<1> QED
  BY <1>1 DEF Owed

LEMMA SpareType == Spare \in 0..MaxRetries
  BY RateWindowAssumption DEF Spare

\* A step of one caller: it sends and stamps at most one request, and does not
\* come to owe more than its stamps allow.
LEMMA CoveredByCaller ==
    ASSUME SentInv, WindowInv', weighted' = weighted,
           NEW c \in Callers, NEW q \in 0..MaxRetries, Owed' = [Owed EXCEPT ![c] = q],
           NEW ds, (ds = 0 /\ sent' = sent) \/ (ds = 1 /\ sent' = Append(sent, 0)),
           NEW dt, (dt = 0 /\ times' = times) \/ (dt = 1 /\ times' = Append(times, 0)),
           ds + q <= Owed[c] + MaxRetries * dt
    PROVE  SentCovered'
<1>1. WindowTypeOK /\ times \in Seq(Ages) /\ sent \in Seq(Ages) /\ SentCovered
  BY DEF SentInv, OvershootInv, WindowInv, WindowTypeOK
<1>2. Spare' = Spare /\ Spare \in Nat
  BY SpareType, RateWindowAssumption DEF Spare
<1> SUFFICES ASSUME NEW a \in Ages
             PROVE  Younger(sent', a) + Total(Owed') <= MaxRetries * Younger(times', a) + Crowd * Spare
  BY <1>2 DEF SentCovered
<1> DEFINE S == Younger(sent, a)
           T == Younger(times, a)
<1>3. S \in Nat /\ T \in Nat /\ S + Total(Owed) <= MaxRetries * T + Crowd * Spare
  BY <1>1, YoungerType DEF SentCovered
<1>4. Younger(sent', a) = S + ds /\ ds \in Nat
  <2>1. CASE ds = 0 /\ sent' = sent
    BY <1>3, <2>1
  <2>2. CASE ds = 1 /\ sent' = Append(sent, 0)
    <3>1. Younger(Append(sent, 0), a) = Younger(sent, a) + 1
      BY <1>1, YoungerAppend
    <3> QED
      BY <2>2, <3>1
  <2> QED
    BY <2>1, <2>2
<1>5. Younger(times', a) = T + dt /\ dt \in {0, 1}
  <2>1. CASE dt = 0 /\ times' = times
    BY <1>3, <2>1
  <2>2. CASE dt = 1 /\ times' = Append(times, 0)
    <3>1. Younger(Append(times, 0), a) = Younger(times, a) + 1
      BY <1>1, YoungerAppend
    <3> QED
      BY <2>2, <3>1
  <2> QED
    BY <2>1, <2>2
<1>6. /\ Total(Owed) \in Nat /\ Total(Owed') \in Nat /\ Owed[c] \in Nat
      /\ Total(Owed') = Total(Owed) - Owed[c] + q
  <2>1. Owed \in [Callers -> 0..MaxRetries]
    BY <1>1, OwedType
  <2>2. Owed[c] \in Nat
    BY <2>1, RateWindowAssumption
  <2> QED
    BY <2>1, <2>2, TotalChange
<1>7. MaxRetries * (T + dt) = MaxRetries * T + MaxRetries * dt
      /\ MaxRetries * T \in Nat /\ MaxRetries * dt \in Nat /\ Crowd * Spare \in Nat
  <2> HIDE DEF T, S
  <2>1. MaxRetries \in Nat /\ Crowd \in Nat /\ Spare \in Nat /\ T \in Nat /\ dt \in Nat
    <3>1. MaxRetries \in Nat
      BY RateWindowAssumption
    <3>2. Crowd \in Nat
      BY CrowdType
    <3>3. Spare \in Nat /\ T \in Nat /\ dt \in Nat
      BY <1>2, <1>3, <1>5
    <3> QED
      BY <3>1, <3>2, <3>3
  <2>2. MaxRetries * T \in Nat /\ MaxRetries * dt \in Nat
    BY <2>1
  <2>3. Crowd * Spare \in Nat
    BY <2>1
  <2>4. MaxRetries * (T + dt) = MaxRetries * T + MaxRetries * dt
    BY <2>1
  <2> QED
    BY <2>2, <2>3, <2>4
<1> HIDE DEF S, T
<1>8. q \in Nat
  BY RateWindowAssumption
<1>9. MaxRetries * Younger(times', a) = MaxRetries * T + MaxRetries * dt
  BY <1>5, <1>7
<1> DEFINE A == MaxRetries * T
           B == MaxRetries * dt
           C == Crowd * Spare
<1>10. A \in Nat /\ B \in Nat /\ C \in Nat /\ ds + q <= Owed[c] + B
  BY <1>7
<1>11. S + Total(Owed) <= A + C
  BY <1>3
<1> HIDE DEF A, B, C
<1>12. S + ds + Total(Owed') <= A + B + C
  <2>1. S \in Nat /\ ds \in Nat
    BY <1>3, <1>4
  <2> DEFINE o == Total(Owed)
             c1 == Owed[c]
             p == Total(Owed')
  <2>2. o \in Nat /\ c1 \in Nat /\ p = o - c1 + q
    BY <1>6
  <2>3. S + o <= A + C /\ ds + q <= c1 + B
    BY <1>10, <1>11
  <2> HIDE DEF o, c1, p
  <2>4. S + ds + p <= A + B + C
    BY <1>8, <1>10, <2>1, <2>2, <2>3
  <2> QED
    BY <2>4 DEF p
<1> QED
  BY <1>4, <1>9, <1>12 DEF A, B, C

\* Who owes what does not change.
LEMMA CoveredUnmoved ==
    ASSUME SentInv, UNCHANGED <<times, sent, weighted>>, Owed' = Owed
    PROVE  SentCovered'
<1>1. Spare' = Spare
  BY DEF Spare
<1> QED
  BY <1>1 DEF SentInv, SentCovered, Younger

LEMMA CoveredByGo ==
    ASSUME SentInv, WindowInv', NEW c \in Callers, caller[c] \in {"idle", "asleep"}, Go(c)
    PROVE  SentCovered' /\ OwedBounded'
<1>1. WindowTypeOK /\ OwedBounded
  BY DEF SentInv, OvershootInv, WindowInv
<1>2. Owed \in [Callers -> 0..MaxRetries] /\ Owed[c] = 0
  BY <1>1, OwedType DEF Owed
<1>3. MaxRetries \in Nat \ {0} /\ times' = Append(times, 0) /\ weighted' = weighted
  BY RateWindowAssumption DEF Go
<1>4. CASE Send(c)
  <2>1. /\ caller' = [caller EXCEPT ![c] = "request"]
        /\ attempts' = [attempts EXCEPT ![c] = MaxRetries - 1]
        /\ sent' = Append(sent, 0)
    BY <1>4 DEF Send
  <2>2. Owed' = [Owed EXCEPT ![c] = MaxRetries - 1]
    BY <1>1, <1>2, <1>3, <2>1 DEF Owed, WindowTypeOK
  <2>3. MaxRetries - 1 \in 0..MaxRetries /\ 1 + (MaxRetries - 1) <= Owed[c] + MaxRetries * 1
    BY <1>2, <1>3
  <2>4. SentCovered'
    BY <1>3, <2>1, <2>2, <2>3, CoveredByCaller
  <2>5. OwedBounded'
    BY <1>1, <1>3, <2>1 DEF OwedBounded, WindowTypeOK
  <2> QED
    BY <2>4, <2>5
<1>5. CASE weighted /\ Sleep(c, "backoff", Window - windowAge) /\ UNCHANGED <<sent, attempts>>
  <2>1. caller' = [caller EXCEPT ![c] = "backoff"] /\ attempts' = attempts /\ sent' = sent
    BY <1>5 DEF Sleep
  <2>2. Owed' = [Owed EXCEPT ![c] = MaxRetries]
    BY <1>1, <1>2, <1>3, <2>1 DEF Owed, WindowTypeOK
  <2>3. MaxRetries \in 0..MaxRetries /\ 0 + MaxRetries <= Owed[c] + MaxRetries * 1
    BY <1>2, <1>3
  <2>4. SentCovered'
    BY <1>3, <2>1, <2>2, <2>3, CoveredByCaller
  <2>5. OwedBounded'
    <3>1. weighted'
      BY <1>3, <1>5
    <3> QED
      BY <1>1, <2>1, <3>1 DEF OwedBounded, WindowTypeOK
  <2> QED
    BY <2>4, <2>5
<1> QED
  BY <1>4, <1>5 DEF Go, WeightCheck

LEMMA SentInvInit == WindowInit => SentInv
<1> SUFFICES ASSUME WindowInit PROVE SentInv
  OBVIOUS
<1>1. OvershootInv /\ OwedBounded /\ times = <<>> /\ sent = <<>>
  BY OvershootInit DEF WindowInit, OwedBounded
<1>2. \A c \in Callers : Owed[c] = 0
  BY DEF WindowInit, Owed
<1>3. Owed \in [Callers -> 0..MaxRetries]
  BY <1>1, OwedType DEF OvershootInv, WindowInv
<1>4. Total(Owed) \in Nat /\ Total(Owed) <= Crowd * Spare
  <2>1. Spare \in 0..MaxRetries /\ \A c \in Callers : Owed[c] <= Spare
    BY <1>2, SpareType, RateWindowAssumption
  <2> QED
    BY <1>3, <2>1, TotalBound
<1>5. SentCovered
  <2> SUFFICES ASSUME NEW a \in Ages
               PROVE  Younger(sent, a) + Total(Owed) <= MaxRetries * Younger(times, a) + Crowd * Spare
    BY DEF SentCovered
  <2>1. Younger(<<>>, a) = 0
    <3>1. {i \in DOMAIN <<>> : <<>>[i] <= a} = {}
      OBVIOUS
    <3> QED
      BY <3>1, FS_EmptySet DEF Younger
  <2>2. Crowd * Spare \in Nat
    BY CrowdType, SpareType, RateWindowAssumption
  <2> QED
    BY <1>1, <1>4, <2>1, <2>2, RateWindowAssumption
<1> QED
  BY <1>1, <1>5 DEF SentInv

LEMMA SentInvStep == SentInv /\ [WindowNext]_windowVars => SentInv'
<1> SUFFICES ASSUME SentInv, [WindowNext]_windowVars PROVE SentInv'
  OBVIOUS
<1>0. /\ WindowInv' /\ OvershootInv' /\ WindowTypeOK /\ OwedBounded
      /\ Owed \in [Callers -> 0..MaxRetries] /\ MaxRetries \in Nat \ {0}
  BY OvershootStep, OwedType, RateWindowAssumption DEF SentInv, OvershootInv, WindowInv
<1>f. SUFFICES SentCovered' /\ OwedBounded'
  BY <1>0 DEF SentInv
<1>1. ASSUME NEW c \in Callers, Fetch(c) PROVE SentCovered' /\ OwedBounded'
  <2>1. CASE AtLimit(Len(times))
    <3>1. /\ caller[c] = "idle" /\ caller' = [caller EXCEPT ![c] = "asleep"]
          /\ UNCHANGED <<times, sent, weighted, attempts>>
      BY <1>1, <2>1 DEF Fetch, Sleep, weightVars
    <3>2. Owed' = Owed
      BY <1>0, <3>1 DEF Owed, WindowTypeOK
    <3>3. OwedBounded'
      BY <1>0, <3>1 DEF OwedBounded, WindowTypeOK
    <3> QED
      BY <3>1, <3>2, <3>3, CoveredUnmoved
  <2>2. CASE ~AtLimit(Len(times))
    BY <1>0, <1>1, <2>2, CoveredByGo DEF Fetch
  <2> QED
    BY <2>1, <2>2
<1>2. ASSUME NEW c \in Callers, Wake(c) PROVE SentCovered' /\ OwedBounded'
  BY <1>0, <1>2, CoveredByGo DEF Wake
<1>3. ASSUME NEW c \in Callers, WakeWeighted(c) PROVE SentCovered' /\ OwedBounded'
  <2>1. /\ caller[c] = "backoff" /\ caller' = [caller EXCEPT ![c] = "request"]
        /\ attempts' = [attempts EXCEPT ![c] = MaxRetries - 1]
        /\ sent' = Append(sent, 0) /\ times' = times /\ weighted' = weighted
    BY <1>3 DEF WakeWeighted, Send
  <2>2. Owed' = [Owed EXCEPT ![c] = MaxRetries - 1]
    BY <1>0, <2>1 DEF Owed, WindowTypeOK
  <2>3. /\ MaxRetries - 1 \in 0..MaxRetries /\ Owed[c] = MaxRetries
        /\ 1 + (MaxRetries - 1) <= Owed[c] + MaxRetries * 0
    BY <1>0, <2>1 DEF Owed
  <2>4. SentCovered'
    BY <1>0, <2>1, <2>2, <2>3, CoveredByCaller
  <2>5. OwedBounded'
    BY <1>0, <2>1 DEF OwedBounded, WindowTypeOK
  <2> QED
    BY <2>4, <2>5
<1>4. ASSUME NEW c \in Callers, Done(c) PROVE SentCovered' /\ OwedBounded'
  <2>1. /\ caller[c] = "request" /\ caller' = [caller EXCEPT ![c] = "idle"]
        /\ sent' = sent /\ times' = times /\ weighted' = weighted
        /\ attempts' = [attempts EXCEPT ![c] = 0]
    BY <1>4 DEF Done
  <2>2. Owed' = [Owed EXCEPT ![c] = 0]
    BY <1>0, <2>1 DEF Owed, WindowTypeOK
  <2>3. 0 \in 0..MaxRetries /\ 0 + 0 <= Owed[c] + MaxRetries * 0
    BY <1>0
  <2>4. SentCovered'
    BY <1>0, <2>1, <2>2, <2>3, CoveredByCaller
  <2>5. OwedBounded'
    BY <1>0, <2>1 DEF OwedBounded, WindowTypeOK
  <2> QED
    BY <2>4, <2>5
<1>5. ASSUME NEW c \in Callers, Retry(c) PROVE SentCovered' /\ OwedBounded'
  <2>1. /\ caller[c] = "request" /\ attempts[c] > 0 /\ caller' = caller
        /\ sent' = Append(sent, 0) /\ times' = times /\ weighted' = weighted
        /\ attempts' = [attempts EXCEPT ![c] = attempts[c] - 1]
    BY <1>5 DEF Retry, AttemptsLeft
  <2>2. attempts[c] \in 1..MaxRetries /\ Owed[c] = attempts[c]
    BY <1>0, <2>1 DEF Owed, WindowTypeOK
  <2>3. Owed' = [Owed EXCEPT ![c] = attempts[c] - 1]
    BY <1>0, <2>1 DEF Owed, WindowTypeOK
  <2>4. attempts[c] - 1 \in 0..MaxRetries /\ 1 + (attempts[c] - 1) <= Owed[c] + MaxRetries * 0
    BY <1>0, <2>2
  <2>5. SentCovered'
    BY <1>0, <2>1, <2>3, <2>4, CoveredByCaller
  <2>6. OwedBounded'
    BY <1>0, <2>1, <2>2 DEF OwedBounded, WindowTypeOK
  <2> QED
    BY <2>5, <2>6
<1>6. ASSUME WindowTick PROVE SentCovered' /\ OwedBounded'
  <2>1. times' = Older(times) /\ sent' = Older(sent) /\ UNCHANGED <<caller, attempts, weighted>>
    BY <1>6 DEF WindowTick
  <2>2. Owed' = Owed /\ Spare' = Spare
    BY <2>1 DEF Owed, Spare
  <2>3. OwedBounded'
    BY <1>0, <2>1 DEF OwedBounded
  <2>4. times \in Seq(Ages) /\ Sorted(times) /\ sent \in Seq(Ages) /\ Sorted(sent)
    BY DEF SentInv, OvershootInv, WindowInv, WindowTypeOK
  <2>5. Total(Owed) \in Nat /\ Total(Owed) <= Crowd * Spare
    <3>1. Spare \in 0..MaxRetries /\ \A c \in Callers : Owed[c] <= Spare
      BY <1>0, SpareType DEF Owed, Spare, OwedBounded, WindowTypeOK
    <3> QED
      BY <1>0, <3>1, TotalBound
  <2>6. ASSUME NEW a \in Ages
        PROVE  Younger(sent', a) + Total(Owed) <= MaxRetries * Younger(times', a) + Crowd * Spare
    <3>1. CASE a = 0
      <4>1. Younger(sent', a) = 0 /\ Younger(times', a) = 0
        BY <2>1, <2>4, <3>1, YoungerOlder
      <4>2. Crowd * Spare \in Nat
        BY CrowdType, SpareType, RateWindowAssumption
      <4> QED
        BY <1>0, <2>5, <4>1, <4>2
    <3>2. CASE a # 0
      <4>1. a - 1 \in Ages
        BY <3>2, RateWindowAssumption DEF Ages
      <4>2. Younger(sent', a) = Younger(sent, a - 1) /\ Younger(times', a) = Younger(times, a - 1)
        BY <2>1, <2>4, <3>2, YoungerOlder
      <4> QED
        BY <4>1, <4>2 DEF SentInv, SentCovered
    <3> QED
      BY <3>1, <3>2
  <2> QED
    BY <2>2, <2>3, <2>6 DEF SentCovered
<1>7. CASE UNCHANGED windowVars
  <2>1. UNCHANGED <<times, sent, caller, attempts, weighted>>
    BY <1>7 DEF windowVars, weightVars
  <2>2. Owed' = Owed /\ OwedBounded'
    BY <1>0, <2>1 DEF Owed, OwedBounded
  <2> QED
    BY <2>1, <2>2, CoveredUnmoved
<1> QED
  BY <1>1, <1>2, <1>3, <1>4, <1>5, <1>6, <1>7 DEF WindowNext

\* With the bound on the stamps, SentCovered for the whole window is SentBounded.
LEMMA SentFollows == SentInv => SentBounded
<1> SUFFICES ASSUME SentInv PROVE SentBounded
  OBVIOUS
<1>1. /\ times \in Seq(Ages) /\ sent \in Seq(Ages) /\ WindowTypeOK /\ SentCovered
      /\ Len(times) \in Nat /\ Len(sent) \in Nat
  BY AgesType DEF SentInv, OvershootInv, WindowInv, WindowTypeOK
<1>2. Window - 1 \in Ages
  BY RateWindowAssumption DEF Ages
<1>3. Len(sent) + Total(Owed) <= MaxRetries * Len(times) + Crowd * Spare
  BY <1>1, <1>2, YoungerAll DEF SentCovered
<1>4. Len(times) <= Limit * Crowd
  BY OvershootFollows DEF SentInv, Overshoot, Crowd
<1>5. Total(Owed) \in Nat
  <2>1. \A c \in Callers : Owed[c] <= MaxRetries
    BY <1>1, OwedType, RateWindowAssumption
  <2>2. MaxRetries \in 0..MaxRetries
    BY RateWindowAssumption
  <2> QED
    BY <1>1, <2>1, <2>2, OwedType, TotalBound
<1>6. Limit \in Nat /\ MaxRetries \in Nat \ {0} /\ Crowd \in Nat \ {0} /\ Limit * Crowd \in Nat
  BY CrowdType, RateWindowAssumption
<1>7. MaxRetries * Len(times) <= MaxRetries * (Limit * Crowd)
  BY <1>1, <1>4, <1>6
<1>8. MaxRetries * (Limit * Crowd) + Crowd * MaxRetries = Crowd * (Limit + 1) * MaxRetries
  BY <1>6
<1>9. Crowd * Spare = Crowd * MaxRetries - IF weighted THEN 0 ELSE Crowd
  <2>1. CASE weighted
    BY <1>6, <2>1 DEF Spare
  <2>2. CASE ~weighted
    <3>1. Crowd * (MaxRetries - 1) = Crowd * MaxRetries - Crowd
      BY <1>6
    <3> QED
      BY <1>6, <2>2, <3>1 DEF Spare
  <2> QED
    BY <2>1, <2>2
<1> DEFINE A == MaxRetries * Len(times)
           B == MaxRetries * (Limit * Crowd)
           C == Crowd * MaxRetries
           D == IF weighted THEN 0 ELSE Crowd
           E == Crowd * (Limit + 1) * MaxRetries
<1>10. A \in Nat /\ B \in Nat /\ C \in Nat /\ D \in Nat
  BY <1>1, <1>6
<1>11. Len(sent) + Total(Owed) <= A + (C - D) /\ A <= B /\ B + C = E
  BY <1>3, <1>7, <1>8, <1>9
<1> HIDE DEF A, B, C, D, E
<1>12. Len(sent) <= E - D
  BY <1>1, <1>5, <1>10, <1>11
<1> QED
  BY <1>12 DEF SentBounded, Crowd, D, E

-----------------------------------------------------------------------------
(* Back-off.                                                                *)

\* The equations of the two recursive functions, and what they say of their values.
LEMMA DoubledIs ==
    /\ Doubled \in [Nat -> Nat \ {0}] /\ Doubled[0] = 1
    /\ \A n \in Nat : Doubled[n + 1] = 2 * Doubled[n]
<1>1. PICK step \in [Nat \X Nat -> Nat] : \A n, k \in Nat : step[<<n, k>>] = 2 * k
  <2> DEFINE s == [p \in Nat \X Nat |-> 2 * p[2]]
  <2>1. s \in [Nat \X Nat -> Nat] /\ \A n, k \in Nat : s[<<n, k>>] = 2 * k
    OBVIOUS
  <2> QED
    BY <2>1
<1>r. PICK f : Recursive(Nat, 1, step, f)
  BY Recursion
<1>2. f \in [Nat -> Nat] /\ f[0] = 1 /\ \A n \in Nat : f[n + 1] = step[<<n, f[n]>>]
  BY <1>r DEF Recursive
<1>3. f = [n \in Nat |-> IF n = 0 THEN 1 ELSE 2 * f[n - 1]]
  <2>1. ASSUME NEW n \in Nat, n # 0 PROVE f[n] = 2 * f[n - 1]
    <3>1. n - 1 \in Nat /\ n = (n - 1) + 1
      BY <2>1
    <3>2. f[(n - 1) + 1] = step[<<n - 1, f[n - 1]>>]
      BY <1>2, <3>1
    <3>3. f[n - 1] \in Nat
      BY <1>2, <3>1
    <3> QED
      BY <1>1, <3>1, <3>2, <3>3
  <2> QED
    BY <1>2, <2>1
<1>4. Doubled = [n \in Nat |-> IF n = 0 THEN 1 ELSE 2 * Doubled[n - 1]]
  BY <1>3, Zenon DEF Doubled
<1>5. Doubled[0] = 1 /\ \A n \in Nat : Doubled[n + 1] = 2 * Doubled[n]
  <2>1. \A n \in Nat : Doubled[n] = IF n = 0 THEN 1 ELSE 2 * Doubled[n - 1]
    BY <1>4
  <2>2. ASSUME NEW n \in Nat PROVE Doubled[n + 1] = 2 * Doubled[n]
    <3>1. n + 1 \in Nat /\ n + 1 # 0 /\ (n + 1) - 1 = n
      OBVIOUS
    <3> QED
      BY <2>1, <3>1
  <2> QED
    BY <2>1, <2>2
<1> DEFINE A == {n \in Nat : Doubled[n] \in Nat \ {0}}
<1>6. A = Nat
  <2>1. 0 \in A /\ \A n \in A : n + 1 \in A
    BY <1>5
  <2>2. A \subseteq Nat
    OBVIOUS
  <2> HIDE DEF A
  <2> QED
    BY <2>1, <2>2, SetInduction
<1>7. \A n \in Nat : Doubled[n] \in Nat \ {0}
  BY <1>6
<1> QED
  BY <1>4, <1>5, <1>7

LEMMA MinOf ==
    ASSUME NEW a \in Nat, NEW b \in Nat
    PROVE  Min({a, b}) = IF a <= b THEN a ELSE b
<1> DEFINE m == IF a <= b THEN a ELSE b
<1>1. m \in {a, b} /\ \A y \in {a, b} : m <= y
  OBVIOUS
<1>2. \A x \in {a, b} : (\A y \in {a, b} : x <= y) => x = m
  OBVIOUS
<1> HIDE DEF m
<1>3. (CHOOSE x \in {a, b} : \A y \in {a, b} : x <= y) = m
  BY <1>1, <1>2
<1> QED
  BY <1>3 DEF Min, m

\* The delay before the reconnect that follows n failures, and the waits before the n-th.
Delay(n) == Min({Doubled[n], MaxDelay})

LEMMA WaitedIs ==
    /\ Waited \in [Nat -> Nat] /\ Waited[0] = 0 /\ Waited[1] = 0
    /\ \A n \in Nat : Waited[n + 2] = Waited[n + 1] + Delay(n)
    /\ \A n \in Nat : Delay(n) \in 1..MaxDelay
<1>0. \A n \in Nat : Delay(n) \in 1..MaxDelay
  <2> TAKE n \in Nat
  <2>1. Doubled[n] \in Nat \ {0} /\ MaxDelay \in Nat \ {0}
    BY DoubledIs, FeedAssumption
  <2>2. Delay(n) = IF Doubled[n] <= MaxDelay THEN Doubled[n] ELSE MaxDelay
    BY <2>1, MinOf DEF Delay
  <2> QED
    BY <2>1, <2>2
<1>1. PICK step \in [Nat \X Nat -> Nat] :
         \A n, k \in Nat : step[<<n, k>>] = IF n = 0 THEN 0 ELSE k + Delay(n - 1)
  <2> DEFINE s == [p \in Nat \X Nat |-> IF p[1] = 0 THEN 0 ELSE p[2] + Delay(p[1] - 1)]
  <2>1. \A n \in Nat : n # 0 => Delay(n - 1) \in Nat
    BY <1>0, FeedAssumption
  <2>2. s \in [Nat \X Nat -> Nat] /\ \A n, k \in Nat : s[<<n, k>>] = IF n = 0 THEN 0 ELSE k + Delay(n - 1)
    BY <2>1
  <2> QED
    BY <2>2
<1>r. PICK f : Recursive(Nat, 0, step, f)
  BY Recursion
<1>2. f \in [Nat -> Nat] /\ f[0] = 0 /\ \A n \in Nat : f[n + 1] = step[<<n, f[n]>>]
  BY <1>r DEF Recursive
<1>3. f = [n \in Nat |-> IF n <= 1 THEN 0 ELSE f[n - 1] + Min({Doubled[n - 2], MaxDelay})]
  <2>1. ASSUME NEW n \in Nat, n > 1 PROVE f[n] = f[n - 1] + Min({Doubled[n - 2], MaxDelay})
    <3>1. n - 1 \in Nat /\ n = (n - 1) + 1 /\ n - 1 # 0 /\ (n - 1) - 1 = n - 2
      BY <2>1
    <3>2. f[(n - 1) + 1] = step[<<n - 1, f[n - 1]>>]
      BY <1>2, <3>1
    <3>4. f[n - 1] \in Nat
      BY <1>2, <3>1
    <3>3. step[<<n - 1, f[n - 1]>>] = f[n - 1] + Delay((n - 1) - 1)
      BY <1>1, <3>1, <3>4
    <3> QED
      BY <3>1, <3>2, <3>3 DEF Delay
  <2>2. f[1] = 0
    <3>1. f[0 + 1] = step[<<0, f[0]>>] /\ 0 \in Nat
      BY <1>2
    <3>2. step[<<0, f[0]>>] = 0
      BY <1>1, <1>2
    <3> QED
      BY <3>1, <3>2
  <2>3. \A n \in Nat : f[n] = IF n <= 1 THEN 0 ELSE f[n - 1] + Min({Doubled[n - 2], MaxDelay})
    <3> TAKE n \in Nat
    <3>1. CASE n = 0
      BY <1>2, <3>1
    <3>2. CASE n = 1
      BY <2>2, <3>2
    <3>3. CASE n > 1
      BY <2>1, <3>3
    <3> QED
      BY <3>1, <3>2, <3>3
  <2> QED
    BY <1>2, <2>3
<1>4. Waited = [n \in Nat |-> IF n <= 1 THEN 0 ELSE Waited[n - 1] + Min({Doubled[n - 2], MaxDelay})]
  BY <1>3, Zenon DEF Waited
<1>5. Waited[0] = 0 /\ Waited[1] = 0 /\ \A n \in Nat : Waited[n + 2] = Waited[n + 1] + Delay(n)
  <2>1. \A n \in Nat : Waited[n] = IF n <= 1 THEN 0 ELSE Waited[n - 1] + Delay(n - 2)
    BY <1>4 DEF Delay
  <2>2. ASSUME NEW n \in Nat PROVE Waited[n + 2] = Waited[n + 1] + Delay(n)
    <3>1. n + 2 \in Nat /\ ~(n + 2 <= 1) /\ (n + 2) - 1 = n + 1 /\ (n + 2) - 2 = n
      OBVIOUS
    <3> QED
      BY <2>1, <3>1
  <2> QED
    BY <2>1, <2>2
<1> DEFINE A == {n \in Nat : Waited[n] \in Nat /\ Waited[n + 1] \in Nat}
<1>6. A = Nat
  <2>1. 0 \in A
    BY <1>5
  <2>2. ASSUME NEW n \in A PROVE n + 1 \in A
    <3>1. Waited[n + 2] = Waited[n + 1] + Delay(n) /\ Delay(n) \in Nat /\ (n + 1) + 1 = n + 2
      BY <1>0, <1>5, FeedAssumption
    <3> QED
      BY <3>1
  <2>3. A \subseteq Nat
    OBVIOUS
  <2> HIDE DEF A
  <2> QED
    BY <2>1, <2>2, <2>3, SetInduction
<1>7. \A n \in Nat : Waited[n] \in Nat
  BY <1>6
<1> QED
  BY <1>0, <1>4, <1>5, <1>7

LEMMA MaxOf ==
    ASSUME NEW a \in Nat, NEW b \in Nat
    PROVE  Max({a, b}) \in Nat /\ Max({a, b}) >= a /\ Max({a, b}) >= b
<1> DEFINE m == IF a <= b THEN b ELSE a
<1>1. m \in {a, b} /\ \A y \in {a, b} : m >= y
  OBVIOUS
<1>2. \A x \in {a, b} : (\A y \in {a, b} : x >= y) => x = m
  OBVIOUS
<1>3. m \in Nat /\ m >= a /\ m >= b
  OBVIOUS
<1> HIDE DEF m
<1>4. (CHOOSE x \in {a, b} : \A y \in {a, b} : x >= y) = m
  BY <1>1, <1>2
<1> QED
  BY <1>3, <1>4 DEF Max

\* Doubling a delay gives the next one.
LEMMA NextDelay ==
    ASSUME NEW n \in Nat
    PROVE  Longer(Delay(n)) = Delay(n + 1)
<1> DEFINE d == Doubled[n]
<1>1. d \in Nat \ {0} /\ Doubled[n + 1] = 2 * d /\ MaxDelay \in Nat \ {0} /\ 2 * d \in Nat
  BY DoubledIs, FeedAssumption
<1> HIDE DEF d
<1>2. Delay(n) = IF d <= MaxDelay THEN d ELSE MaxDelay
  BY <1>1, MinOf DEF Delay, d
<1>3. Delay(n + 1) = IF 2 * d <= MaxDelay THEN 2 * d ELSE MaxDelay
  BY <1>1, MinOf DEF Delay
<1>4. Delay(n) \in Nat /\ 2 * Delay(n) \in Nat
  BY <1>1, <1>2
<1>5. Longer(Delay(n)) = IF 2 * Delay(n) <= MaxDelay THEN 2 * Delay(n) ELSE MaxDelay
  BY <1>1, <1>4, MinOf DEF Longer
<1> QED
  BY <1>1, <1>2, <1>3, <1>5

\* The sums of the delays grow.
LEMMA WaitedGrows ==
    ASSUME NEW m \in Nat
    PROVE  \A n \in Nat : Waited[m] <= Waited[m + n]
<1> DEFINE A == {n \in Nat : Waited[m] <= Waited[m + n]}
<1>1. \A n \in Nat : Waited[n] \in Nat /\ Waited[n] <= Waited[n + 1]
  <2> TAKE n \in Nat
  <2>1. CASE n = 0
    BY <2>1, WaitedIs
  <2>2. CASE n # 0
    <3>1. n - 1 \in Nat /\ (n - 1) + 2 = n + 1 /\ (n - 1) + 1 = n
      BY <2>2
    <3>2. Waited[n + 1] = Waited[n] + Delay(n - 1) /\ Delay(n - 1) \in Nat /\ Waited[n] \in Nat
      BY <3>1, WaitedIs, FeedAssumption
    <3> QED
      BY <3>2
  <2> QED
    BY <2>1, <2>2
<1>2. 0 \in A
  BY <1>1
<1>3. ASSUME NEW n \in A PROVE n + 1 \in A
  <2>1. m + n \in Nat /\ m + (n + 1) = m + n + 1 /\ m + n + 1 \in Nat
    OBVIOUS
  <2>2. Waited[m + n] <= Waited[m + n + 1] /\ Waited[m] <= Waited[m + n]
    BY <1>1, <2>1
  <2>3. Waited[m] \in Nat /\ Waited[m + n] \in Nat /\ Waited[m + n + 1] \in Nat
    BY <1>1, <2>1
  <2> QED
    BY <2>1, <2>2, <2>3
<1>4. A \subseteq Nat
  OBVIOUS
<1> HIDE DEF A
<1>5. A = Nat
  BY <1>2, <1>3, <1>4, SetInduction
<1> QED
  BY <1>5 DEF A

LEMMA WaitedType ==
    /\ Waited[MaxFails] \in Nat
    /\ \A n \in 0..(MaxFails - 1) : Waited[n + 1] \in Nat /\ Waited[n + 1] <= Waited[MaxFails]
<1>1. Waited[MaxFails] \in Nat
  BY WaitedIs, FeedAssumption
<1>2. ASSUME NEW n \in 0..(MaxFails - 1)
      PROVE  Waited[n + 1] \in Nat /\ Waited[n + 1] <= Waited[MaxFails]
  <2>1. n + 1 \in Nat /\ MaxFails - (n + 1) \in Nat /\ (n + 1) + (MaxFails - (n + 1)) = MaxFails
    BY FeedAssumption
  <2>2. Waited[n + 1] <= Waited[(n + 1) + (MaxFails - (n + 1))]
    BY <2>1, WaitedGrows
  <2> QED
    BY <2>1, <2>2, WaitedIs
<1> QED
  BY <1>1, <1>2

\* The next delay follows from the failures, and what the history has counted
\* covers the waits before the present failure, or before the next one.
BackoffInv ==
    kind # "pacifica" =>
        /\ elapsed >= Waited[fails]
        /\ ws = "backoff" => fails > 0
        /\ ws = "off" => fails = 0
        /\ fails < MaxFails =>
              /\ delay = Delay(fails)
              /\ ws = "backoff" => elapsed + wait >= Waited[fails + 1]
              /\ ws \in {"connect", "open"} /\ fails > 0 => elapsed >= Waited[fails + 1]

\* start() creates the WebSocket loop after it has loaded the symbols.
StartInv == poll \in {"load", "preload"} => ws = "off"

FeedInv == FeedTypeOK /\ BackoffInv /\ StartInv

MaxWait == Max({MaxDelay, PacificaPause})

LEMMA MaxWaitType == MaxWait \in Nat /\ MaxWait >= MaxDelay /\ MaxWait >= PacificaPause
<1>1. MaxDelay \in Nat /\ PacificaPause \in Nat
  BY FeedAssumption
<1> QED
  BY <1>1, MaxOf DEF MaxWait

LEMMA DelayZero == Delay(0) = 1
<1>1. 1 \in Nat /\ MaxDelay \in Nat /\ 1 <= MaxDelay /\ Doubled[0] = 1
  BY DoubledIs, FeedAssumption
<1>2. Min({1, MaxDelay}) = IF 1 <= MaxDelay THEN 1 ELSE MaxDelay
  BY <1>1, MinOf
<1> QED
  BY <1>1, <1>2 DEF Delay

LEMMA FeedInvInit == FeedInit => FeedInv
<1> SUFFICES ASSUME FeedInit PROVE FeedInv
  OBVIOUS
<1>1. listed \in BOOLEAN /\ ticker \in BOOLEAN /\ recent \in BOOLEAN
  BY Zenon DEF FeedInit
<1>2. kind \in Kinds /\ market \in Quotes /\ active = "empty" /\ snap = None /\ batch = None /\ row = None
  BY DEF FeedInit
<1>3. poll \in {"load", "main"} /\ ws \in {"connect", "off"}
  BY DEF FeedInit
<1>4. delay = 1 /\ wait = 0 /\ fails = 0 /\ elapsed = 0
  BY DEF FeedInit
<1>5. delay \in 1..MaxDelay /\ wait \in 0..MaxWait /\ fails \in 0..MaxFails /\ elapsed \in 0..Waited[MaxFails]
  BY <1>4, FeedAssumption, MaxWaitType, WaitedType
<1>6. FeedTypeOK
  BY <1>1, <1>2, <1>3, <1>5 DEF FeedTypeOK, MaxWait
<1>8. StartInv
  BY DEF FeedInit, StartInv
<1>7. BackoffInv
  BY <1>3, <1>4, DelayZero, WaitedIs DEF BackoffInv
<1> QED
  BY <1>6, <1>7, <1>8 DEF FeedInv

\* The parts of the type invariant, so that a step cites what it disturbs.
SymbolTypes == kind \in Kinds /\ market \in Quotes /\ listed \in BOOLEAN
PollTypes ==
    /\ active \in {"empty", "with", "without"} /\ ticker \in BOOLEAN
    /\ snap \in Quotes \cup {None}
    /\ poll \in {"load", "preload", "reload", "main", "premium", "publish", "sleep"}
    /\ batch \in Row \cup {None} /\ row \in Row \cup {None} /\ recent \in BOOLEAN
WsTypes ==
    /\ ws \in {"off", "connect", "open", "backoff"}
    /\ delay \in 1..MaxDelay /\ wait \in 0..MaxWait
    /\ fails \in 0..MaxFails /\ elapsed \in 0..Waited[MaxFails]

LEMMA FeedTypeParts == FeedTypeOK <=> SymbolTypes /\ PollTypes /\ WsTypes
  BY Zenon DEF FeedTypeOK, SymbolTypes, PollTypes, WsTypes, MaxWait

\* The WebSocket loop is left alone, or started without a failure behind it.
LEMMA WsUnmoved ==
    ASSUME WsTypes, BackoffInv, UNCHANGED <<kind, delay, wait, fails, elapsed>>,
           ws' = ws \/ (ws' = "connect" /\ ws = "off")
    PROVE  WsTypes' /\ BackoffInv'
  BY DEF WsTypes, BackoffInv

\* Break: a failure more, and the wait before it is over.
LEMMA BreakGrows ==
    ASSUME FeedInv, Break
    PROVE  WsTypes' /\ BackoffInv'
<1>1. SymbolTypes /\ PollTypes /\ WsTypes /\ BackoffInv
  BY FeedTypeParts DEF FeedInv
<1>2. /\ ws \in {"connect", "open"} /\ ws' = "backoff" /\ kind' = kind
      /\ fails' = Min({fails + 1, MaxFails})
      /\ elapsed' = IF fails = 0 THEN 0 ELSE elapsed
  BY DEF Break, Failed, symbolVars
<1>3. fails \in 0..MaxFails /\ MaxFails \in Nat \ {0} /\ MaxDelay \in Nat \ {0}
  BY <1>1, FeedAssumption DEF WsTypes
<1>4. fails' = IF fails + 1 <= MaxFails THEN fails + 1 ELSE MaxFails
  BY <1>2, <1>3, MinOf
<1>5. elapsed' \in 0..Waited[MaxFails] /\ fails' \in 1..MaxFails /\ fails' > 0
  BY <1>1, <1>2, <1>3, <1>4, WaitedType DEF WsTypes
<1>6. CASE kind = "pacifica"
  <2>1. wait' = PacificaPause /\ delay' = delay
    BY <1>6 DEF Break
  <2>2. PacificaPause \in 0..MaxWait
    BY FeedAssumption, MaxWaitType
  <2> QED
    BY <1>1, <1>2, <1>5, <1>6, <2>1, <2>2 DEF WsTypes, BackoffInv
<1>7. CASE kind # "pacifica"
  <2>1. wait' = delay /\ delay' = Longer(delay)
    BY <1>7 DEF Break
  <2>2. delay \in 1..MaxDelay /\ 2 * delay \in Nat
    BY <1>1, <1>3 DEF WsTypes
  <2>3. delay' \in 1..MaxDelay /\ wait' \in 0..MaxWait
    <3>1. Longer(delay) = IF 2 * delay <= MaxDelay THEN 2 * delay ELSE MaxDelay
      BY <1>3, <2>2, MinOf DEF Longer
    <3> QED
      BY <1>3, <2>1, <2>2, <3>1, MaxWaitType
  <2>4. WsTypes'
    BY <1>2, <1>5, <2>3 DEF WsTypes
  <2>5. elapsed' >= Waited[fails']
    <3>1. CASE fails = 0
      BY <1>2, <1>3, <1>4, <3>1, WaitedIs
    <3>2. CASE fails # 0 /\ fails < MaxFails
      BY <1>1, <1>2, <1>3, <1>4, <1>7, <3>2 DEF BackoffInv
    <3>3. CASE fails = MaxFails
      BY <1>1, <1>2, <1>3, <1>4, <1>7, <3>3 DEF BackoffInv
    <3> QED
      BY <1>3, <3>1, <3>2, <3>3
  <2>6. ASSUME fails' < MaxFails
        PROVE  delay' = Delay(fails') /\ elapsed' + wait' >= Waited[fails' + 1]
    <3>1. fails < MaxFails /\ fails' = fails + 1 /\ fails \in Nat /\ fails' + 1 = fails + 2
      BY <1>3, <1>4, <2>6
    <3>2. delay = Delay(fails)
      BY <1>1, <1>7, <3>1 DEF BackoffInv
    <3>3. delay' = Delay(fails')
      BY <2>1, <3>1, <3>2, NextDelay
    <3>4. Waited[fails + 2] = Waited[fails + 1] + Delay(fails)
      BY <3>1, WaitedIs
    <3>5. elapsed' \in Nat /\ delay \in Nat /\ Waited[fails'] \in Nat
      BY <1>5, <2>2, <3>1, WaitedIs, WaitedType
    <3> QED
      BY <2>1, <2>5, <3>1, <3>2, <3>3, <3>4, <3>5
  <2>7. BackoffInv'
    BY <1>2, <1>5, <2>5, <2>6 DEF BackoffInv
  <2> QED
    BY <2>4, <2>7
<1> QED
  BY <1>6, <1>7

\* FeedTick: the wait gets shorter by what the history counts.
LEMMA TickGrows ==
    ASSUME FeedInv, FeedTick
    PROVE  WsTypes' /\ BackoffInv'
<1>1. WsTypes /\ BackoffInv
  BY FeedTypeParts DEF FeedInv
<1>2. /\ kind' = kind /\ ws' = ws /\ delay' = delay /\ fails' = fails
      /\ wait' = IF wait > 0 THEN wait - 1 ELSE 0
      /\ elapsed' = IF fails > 0 /\ elapsed < Waited[MaxFails] THEN elapsed + 1 ELSE elapsed
  BY DEF FeedTick, symbolVars
<1>3. /\ wait \in Nat /\ elapsed \in Nat /\ fails \in 0..MaxFails /\ MaxFails \in Nat
      /\ elapsed <= Waited[MaxFails] /\ Waited[MaxFails] \in Nat /\ Waited[fails] \in Nat
  <2>1. wait \in 0..MaxWait /\ fails \in 0..MaxFails /\ elapsed \in 0..Waited[MaxFails]
    BY <1>1 DEF WsTypes
  <2>2. MaxFails \in Nat /\ MaxFails \in 0..MaxFails
    BY FeedAssumption
  <2>3. Waited[MaxFails] \in Nat /\ Waited[fails] \in Nat
    <3>1. Waited \in [Nat -> Nat]
      BY WaitedIs
    <3> QED
      BY <2>1, <2>2, <3>1
  <2>4. wait \in Nat
    BY <2>1, MaxWaitType
  <2> QED
    BY <2>1, <2>2, <2>3, <2>4
<1>4. WsTypes'
  BY <1>1, <1>2, <1>3, MaxWaitType DEF WsTypes
<1>5. CASE kind = "pacifica"
  <2>1. kind' = "pacifica"
    BY <1>2, <1>5
  <2> QED
    BY <1>4, <2>1, Zenon DEF BackoffInv
<1>6. CASE kind # "pacifica"
  <2>1. elapsed' \in Nat /\ elapsed' >= elapsed
    BY <1>2, <1>3
  <2>2. elapsed' >= Waited[fails']
    BY <1>1, <1>2, <1>3, <1>6, <2>1 DEF BackoffInv
  <2>3. ASSUME fails < MaxFails, ws = "backoff" PROVE elapsed' + wait' >= Waited[fails + 1]
    <3>1. elapsed + wait >= Waited[fails + 1] /\ fails > 0
      BY <1>1, <1>6, <2>3 DEF BackoffInv
    <3>2. Waited[fails + 1] \in Nat /\ Waited[fails + 1] <= Waited[MaxFails]
      BY <1>3, <2>3, WaitedType
    <3>3. CASE elapsed < Waited[MaxFails]
      BY <1>2, <1>3, <3>1, <3>2, <3>3
    <3>4. CASE elapsed = Waited[MaxFails]
      <4>1. elapsed' = elapsed /\ wait' \in Nat
        BY <1>2, <1>3, <3>4
      <4> QED
        BY <1>3, <3>2, <3>4, <4>1
    <3> QED
      BY <1>3, <3>3, <3>4
  <2>4. ASSUME fails < MaxFails, ws \in {"connect", "open"}, fails > 0
        PROVE  elapsed' >= Waited[fails + 1]
    <3>1. elapsed >= Waited[fails + 1] /\ Waited[fails + 1] \in Nat
      BY <1>1, <1>3, <1>6, <2>4, WaitedType DEF BackoffInv
    <3> QED
      BY <1>3, <2>1, <3>1
  <2> QED
    BY <1>1, <1>2, <1>4, <1>6, <2>2, <2>3, <2>4 DEF BackoffInv
<1> QED
  BY <1>4, <1>5, <1>6

LEMMA FeedInvStep == FeedInv /\ [FeedNext]_feedVars => FeedInv'
<1> SUFFICES ASSUME FeedInv, [FeedNext]_feedVars PROVE FeedInv'
  OBVIOUS
<1>0. SymbolTypes /\ PollTypes /\ WsTypes /\ BackoffInv /\ StartInv
  BY FeedTypeParts DEF FeedInv
<1>f. SUFFICES SymbolTypes' /\ PollTypes' /\ WsTypes' /\ BackoffInv' /\ StartInv'
  <2>1. FeedTypeOK' <=> SymbolTypes' /\ PollTypes' /\ WsTypes'
    BY Zenon DEF FeedTypeOK, SymbolTypes, PollTypes, WsTypes, MaxWait
  <2> QED
    BY <2>1 DEF FeedInv
<1>l. /\ Listing \in {"with", "without"}
      /\ RoundStart(active) \in {"reload", "main"} /\ RoundStart(active') \in {"reload", "main"}
  BY DEF Listing, RoundStart
<1>1. CASE LoadInfo
  <2>1. SymbolTypes' /\ kind' = kind
    BY <1>0, <1>1, Zenon DEF LoadInfo, symbolVars, SymbolTypes
  <2>2. active' \in {"empty", "with", "without"} /\ poll' \in {"preload", "reload", "main"}
    BY <1>0, <1>1, <1>l DEF LoadInfo, Started, PollTypes
  <2>3. PollTypes'
    BY <1>0, <1>1, <2>2, Zenon DEF LoadInfo, PollTypes
  <2>4. /\ UNCHANGED <<delay, wait, fails, elapsed>> /\ ws = "off"
        /\ ws' = ws \/ ws' = "connect"
        /\ poll' = "preload" => ws' = ws
    BY <1>0, <1>1 DEF LoadInfo, Started, StartInv, RoundStart
  <2>5. WsTypes' /\ BackoffInv'
    BY <1>0, <2>1, <2>4, WsUnmoved
  <2> QED
    BY <2>1, <2>2, <2>3, <2>4, <2>5 DEF StartInv
<1>2. CASE Preload
  <2>1. SymbolTypes' /\ kind' = kind
    BY <1>0, <1>2, Zenon DEF Preload, symbolVars, SymbolTypes
  <2>2. poll' \in {"reload", "main"} /\ snap' \in Quotes \cup {None}
    BY <1>0, <1>2, <1>l DEF Preload, Started, PollTypes, MergePremium, SymbolTypes
  <2>3. ticker' \in BOOLEAN
    BY <1>0, <1>2, Zenon DEF Preload, SymbolTypes
  <2>4. PollTypes'
    BY <1>0, <1>2, <2>2, <2>3, Zenon DEF Preload, PollTypes
  <2>5. UNCHANGED <<delay, wait, fails, elapsed>> /\ ws = "off" /\ ws' = "connect"
    BY <1>0, <1>2 DEF Preload, Started, StartInv
  <2>6. WsTypes' /\ BackoffInv'
    BY <1>0, <2>1, <2>5, WsUnmoved
  <2> QED
    BY <2>1, <2>2, <2>4, <2>6 DEF StartInv
<1>3. CASE Reload \/ MainAnswer \/ MainFails \/ Premium \/ Publish \/ PublishFails
  <2>1. SymbolTypes' /\ UNCHANGED <<kind, ws, delay, wait, fails, elapsed>>
    BY <1>0, <1>3, Zenon
       DEF Reload, MainAnswer, MainFails, Premium, Publish, PublishFails, symbolVars, wsVars, SymbolTypes
  <2>2. WsTypes' /\ BackoffInv'
    BY <1>0, <2>1, WsUnmoved
  <2>3. PollTypes' /\ poll' \in {"main", "premium", "publish", "sleep"}
    <3>1. CASE Reload
      <4>1. active' \in {"empty", "with", "without"}
        BY <1>0, <1>l, <3>1 DEF Reload, PollTypes
      <4> QED
        BY <1>0, <3>1, <4>1, Zenon DEF Reload, PollTypes
    <3>2. CASE MainAnswer
      <4>1. \A b \in Row \cup {None} : Batch(b) =>
               batch' \in Row \cup {None} /\ poll' \in {"sleep", "publish"}
        BY DEF Batch
      <4>2. [rate |-> market, price |-> Priced] \in Row
        BY <1>0 DEF Priced, Row, PollTypes, SymbolTypes
      <4>3. batch' \in Row \cup {None} /\ poll' \in {"premium", "sleep", "publish"}
        <5>1. CASE AsterAnswer
          BY <1>0, <5>1 DEF AsterAnswer, PollTypes
        <5>2. CASE HyperliquidAnswer
          BY <4>1, <4>2, <5>2 DEF HyperliquidAnswer
        <5>3. CASE ExtendedAnswer
          BY <4>1, <4>2, <5>3 DEF ExtendedAnswer
        <5> QED
          BY <3>2, <5>1, <5>2, <5>3 DEF MainAnswer
      <4>4. active' \in {"empty", "with", "without"}
        BY <1>0, <3>2 DEF MainAnswer, AsterAnswer, HyperliquidAnswer, ExtendedAnswer, PollTypes
      <4>5. ticker' \in BOOLEAN
        BY <1>0, <3>2, Zenon
           DEF MainAnswer, AsterAnswer, HyperliquidAnswer, ExtendedAnswer, PollTypes, SymbolTypes
      <4> QED
        BY <1>0, <3>2, <4>3, <4>4, <4>5, Zenon DEF MainAnswer, PollTypes
    <3>3. CASE MainFails
      BY <1>0, <3>3, Zenon DEF MainFails, PollTypes
    <3>4. CASE Premium
      <4>1. snap' \in Quotes \cup {None}
        BY <1>0, <3>4 DEF Premium, PollTypes, MergePremium, SymbolTypes
      <4>2. /\ batch' \in Row \cup {None}
            /\ poll' \in {"sleep", "publish"}
        BY <3>4, <4>1 DEF Premium, Batch, AsterRows, Row
      <4> QED
        BY <1>0, <3>4, <4>1, <4>2, Zenon DEF Premium, PollTypes
    <3>5. CASE Publish
      BY <1>0, <3>5, Zenon DEF Publish, PollTypes
    <3>6. CASE PublishFails
      BY <1>0, <3>6, Zenon DEF PublishFails, PollTypes
    <3> QED
      BY <1>3, <3>1, <3>2, <3>3, <3>4, <3>5, <3>6
  <2> QED
    BY <2>1, <2>2, <2>3 DEF StartInv
<1>4. CASE Connect \/ CleanClose \/ Reconnect \/ Break
  <2>1. SymbolTypes' /\ PollTypes' /\ kind' = kind /\ poll' = poll
    BY <1>0, <1>4, Zenon
       DEF Connect, CleanClose, Reconnect, Break, symbolVars, pollVars, SymbolTypes, PollTypes
  <2>2. StartInv'
    BY <1>0, <1>4, <2>1 DEF Connect, CleanClose, Reconnect, Break, StartInv
  <2>3. WsTypes' /\ BackoffInv'
    <3>1. CASE Connect
      BY <1>0, <3>1 DEF Connect, WsTypes, BackoffInv, symbolVars
    <3>2. CASE CleanClose
      <4>1. WsTypes'
        BY <1>0, <3>2, FeedAssumption, WaitedType DEF CleanClose, WsTypes
      <4>2. /\ fails' = 0 /\ elapsed' = 0 /\ delay' = 1 /\ ws' = "connect"
        BY <3>2 DEF CleanClose
      <4>3. BackoffInv'
        BY <4>2, DelayZero, WaitedIs DEF BackoffInv
      <4> QED
        BY <4>1, <4>3
    <3>3. CASE Reconnect
      <4>1. /\ ws = "backoff" /\ wait = 0 /\ ws' = "connect" /\ UNCHANGED <<kind, delay, wait, fails, elapsed>>
        BY <3>3 DEF Reconnect, symbolVars
      <4>2. WsTypes' /\ elapsed \in Nat
        BY <1>0, <4>1, WaitedType DEF WsTypes
      <4>3. BackoffInv'
        BY <1>0, <4>1, <4>2 DEF BackoffInv
      <4> QED
        BY <4>2, <4>3
    <3>4. CASE Break
      BY <3>4, BreakGrows
    <3> QED
      BY <1>4, <3>1, <3>2, <3>3, <3>4
  <2> QED
    BY <2>1, <2>2, <2>3
<1>5. CASE Message \/ MarketMoves \/ ListingChanges
  <2>1. SymbolTypes' /\ PollTypes' /\ UNCHANGED <<kind, poll, ws, delay, wait, fails, elapsed>>
    BY <1>0, <1>5, Zenon
       DEF Message, MarketMoves, ListingChanges, symbolVars, pollVars, wsVars, SymbolTypes, PollTypes
  <2> QED
    BY <1>0, <2>1, WsUnmoved DEF StartInv
<1>6. CASE FeedTick
  <2>1. SymbolTypes' /\ ws' = ws
    BY <1>0, <1>6, Zenon DEF FeedTick, symbolVars, SymbolTypes
  <2>2. PollTypes'
    <3>1. poll' \in {"load", "preload", "reload", "main", "premium", "publish", "sleep"}
      BY <1>0, <1>6, <1>l DEF FeedTick, PollTypes
    <3> QED
      BY <1>0, <1>6, <3>1, Zenon DEF FeedTick, PollTypes
  <2>3. StartInv'
    BY <1>0, <1>6, <1>l, <2>1 DEF FeedTick, StartInv
  <2> QED
    BY <1>6, <2>1, <2>2, <2>3, TickGrows
<1>7. CASE UNCHANGED feedVars
  <2>1. SymbolTypes' /\ PollTypes' /\ UNCHANGED <<kind, poll, ws, delay, wait, fails, elapsed>>
    BY <1>0, <1>7, Zenon DEF feedVars, symbolVars, pollVars, wsVars, SymbolTypes, PollTypes
  <2> QED
    BY <1>0, <2>1, WsUnmoved DEF StartInv
<1> QED
  BY <1>1, <1>2, <1>3, <1>4, <1>5, <1>6, <1>7 DEF FeedNext, PollStep, WsStep

-----------------------------------------------------------------------------
(* The collector: either view moves, the other is left alone.               *)

CollectorInv == view \in {"requests", "data"} /\ SentInv /\ FeedInv

LEMMA CollectorInvInit == Init => CollectorInv
  BY SentInvInit, FeedInvInit DEF Init, CollectorInv

LEMMA CollectorInvStep == CollectorInv /\ [Next]_vars => CollectorInv'
<1> SUFFICES ASSUME CollectorInv, [Next]_vars PROVE CollectorInv'
  OBVIOUS
<1>0. SentInv /\ FeedInv
  BY DEF CollectorInv
<1>1. CASE Requests
  <2>1. WindowNext /\ UNCHANGED feedVars /\ view' = view
    BY <1>1 DEF Requests
  <2>2. SentInv' /\ FeedInv'
    BY <1>0, <2>1, SentInvStep, FeedInvStep
  <2> QED
    BY <2>1, <2>2 DEF CollectorInv
<1>2. CASE Data
  <2>1. FeedNext /\ UNCHANGED windowVars /\ view' = view
    BY <1>2 DEF Data
  <2>2. SentInv' /\ FeedInv'
    BY <1>0, <2>1, SentInvStep, FeedInvStep
  <2> QED
    BY <2>1, <2>2 DEF CollectorInv
<1>3. CASE UNCHANGED vars
  <2>1. UNCHANGED windowVars /\ UNCHANGED feedVars /\ view' = view
    BY <1>3 DEF vars
  <2>2. SentInv' /\ FeedInv'
    BY <1>0, <2>1, SentInvStep, FeedInvStep
  <2> QED
    BY <2>1, <2>2 DEF CollectorInv
<1> QED
  BY <1>1, <1>2, <1>3 DEF Next

LEMMA CollectorAlways == Spec => []CollectorInv
  BY CollectorInvInit, CollectorInvStep, PTL DEF Spec

(* Requests, symbol lists, snapshots and back-off keep their types; in      *)
(* particular no sleep of _rate_limit() or _ws_loop() is negative or longer *)
(* than the window or the longest delay.                                    *)
THEOREM TypeCorrect == Spec => []TypeOK
<1>1. CollectorInv => TypeOK
  BY Zenon DEF CollectorInv, SentInv, OvershootInv, WindowInv, FeedInv, TypeOK
<1> QED
  BY <1>1, CollectorAlways, PTL

(* _rate_limit() exceeds rate_limit_per_minute at worst by the factor of    *)
(* the fetches that run side by side, for any limit, window and number of   *)
(* fetches.                                                                 *)
THEOREM OvershootBounded == Spec => []Overshoot
<1>1. CollectorInv => Overshoot
  BY OvershootFollows DEF CollectorInv, SentInv
<1> QED
  BY <1>1, CollectorAlways, PTL

(* With the retries of _fetch_rest() and Aster's back-off, the requests the *)
(* exchange sees in a window are bounded by the attempts of the stamped     *)
(* fetches and of one earlier fetch of each caller.                         *)
THEOREM RequestsBounded == Spec => []SentBounded
<1>1. CollectorInv => SentBounded
  BY SentFollows DEF CollectorInv
<1> QED
  BY <1>1, CollectorAlways, PTL

(* The reconnects of _ws_loop() are spaced by delays that double up to      *)
(* ws_reconnect_delay_max, for any maximum and any number of failures.      *)
THEOREM ReconnectsBackOff == Spec => []BackoffGrows
<1>1. CollectorInv => BackoffGrows
  BY DEF CollectorInv, FeedInv, BackoffInv, BackoffGrows
<1> QED
  BY <1>1, CollectorAlways, PTL
=============================================================================
