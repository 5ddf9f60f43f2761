-------------------------- MODULE TokenBucket_proofs --------------------------
(***************************************************************************)
(* Theorems about TokenBucket, for every delay and with outages: its type  *)
(* invariant, that no token is withheld, that none is handed out twice but *)
(* for what late requests set back, and that for prompt requests the Lua   *)
(* script implements IdealBucket.                                          *)
(***************************************************************************)
EXTENDS TokenBucket, TLAPS

-----------------------------------------------------------------------------
(* Arithmetic of the refill.                                                *)

\* One more tick refills Rate more.
LEMMA RefillOfNextTick ==
    ASSUME NEW n \in Nat
    PROVE  n * Rate \in Nat /\ (n + 1) * Rate = n * Rate + Rate
BY BucketAssumption, SMT

\* Capped() yields a level of the bucket.
LEMMA CappedInRange ==
    ASSUME NEW n \in Nat
    PROVE  Capped(n) \in 0..Capacity /\ Capped(n) <= n
BY BucketAssumption DEF Capped

\* The script computes a level between empty and full, whatever its caller's clock.
LEMMA RefilledInRange ==
    ASSUME bucket \in BucketRec \cup {None}, NEW now \in 0..MaxDelay
    PROVE  Refilled(now) \in 0..Capacity
<1>1. CASE bucket = None
  BY <1>1, BucketAssumption DEF Refilled
<1>2. CASE bucket \in BucketRec
  <2>1. bucket # None
    BY <1>2, NoneAssumption
  <2>2. Elapsed(now) \in Nat
    BY <1>2, BucketAssumption DEF BucketRec, Elapsed
  <2>3. Elapsed(now) * Rate \in Nat
    BY <2>2, RefillOfNextTick
  <2>4. bucket.tokens + Elapsed(now) * Rate \in Nat
    BY <1>2, <2>3, BucketAssumption DEF BucketRec
  <2> QED
    BY <2>1, <2>4, CappedInRange DEF Refilled
<1> QED
  BY <1>1, <1>2

-----------------------------------------------------------------------------
(* Type correctness.  The age of last_refill is bounded only together with  *)
(* the idle time of the key: the clock reading a script stores is at most   *)
(* MaxDelay old, and the key expires after TTL.                             *)

AgeInv ==
    bucket # None =>
        bucket.idle < TTL /\ bucket.idle <= bucket.age /\ bucket.age <= bucket.idle + MaxDelay
StampInv == \A c \in Clients : stamp[c] # None => stamp[c] <= delay
TypeInv == TypeOK /\ AgeInv /\ StampInv

LEMMA TypeInit == Init => TypeInv
<1> SUFFICES ASSUME Init PROVE TypeInv
  OBVIOUS
<1>1. stamp \in [Clients -> 0..MaxDelay \cup {None}]
  BY DEF Init
<1>2. budget \in Int /\ budget <= Capacity
  BY BucketAssumption DEF Init
<1> QED
  BY <1>1, <1>2 DEF Init, TypeInv, TypeOK, AgeInv, StampInv

\* A request in flight is as old as the delay allows, at most.
LEMMA StampType ==
    ASSUME TypeInv, NEW c \in Clients, stamp[c] # None
    PROVE  stamp[c] \in 0..MaxDelay /\ delay \in 0..MaxDelay /\ stamp[c] <= delay
BY DEF TypeInv, TypeOK, StampInv

\* What a late request has refilled again.
LEMMA AgainType ==
    ASSUME bucket \in BucketRec \cup {None}, NEW now \in 0..MaxDelay
    PROVE  Again(now) \in Nat
<1>1. CASE bucket # None /\ bucket.age < now
  <2>1. now - bucket.age \in Nat
    BY <1>1, BucketAssumption DEF BucketRec
  <2> QED BY <1>1, <2>1, RefillOfNextTick DEF Again
<1>2. CASE ~(bucket # None /\ bucket.age < now)
  BY <1>2 DEF Again
<1> QED
  BY <1>1, <1>2

LEMMA TypeStep == TypeInv /\ [Next]_vars => TypeInv'
<1> SUFFICES ASSUME TypeInv, [Next]_vars PROVE TypeInv'
  OBVIOUS
<1> USE BucketAssumption, NoneAssumption
<1>1. ASSUME NEW c \in Clients, Ask(c) PROVE TypeInv'
  BY <1>1 DEF Ask, TypeInv, TypeOK, AgeInv, StampInv, server
<1>2. ASSUME NEW c \in Clients, LoadScript(c) PROVE TypeInv'
  BY <1>2 DEF LoadScript, TypeInv, TypeOK, AgeInv, StampInv
<1>3. ASSUME NEW c \in Clients, Evaluate(c) PROVE TypeInv'
  <2>1. stamp[c] \in 0..MaxDelay /\ bucket \in BucketRec \cup {None}
    BY <1>3, StampType DEF Evaluate, TypeInv, TypeOK
  <2> DEFINE tokens == Refilled(stamp[c])
             taken == IF tokens >= Token THEN Token ELSE 0
             again == Again(stamp[c])
  <2>2. tokens \in 0..Capacity /\ again \in Nat
    BY <2>1, RefilledInRange, AgainType
  <2>3. tokens - taken \in 0..Capacity /\ taken \in Nat
    BY <2>2
  <2>4. /\ bucket' = [tokens |-> tokens - taken, age |-> stamp[c], idle |-> 0]
        /\ verdict' \in {"allow", "deny"}
        /\ budget' = Capped(budget + again) - taken
        /\ stamp' = [stamp EXCEPT ![c] = None]
        /\ upThen' = TRUE /\ UNCHANGED <<delay, server, sha>>
    BY <1>3 DEF Evaluate
  <2> HIDE DEF tokens, taken, again
  <2>5. bucket' \in BucketRec /\ AgeInv'
    BY <2>1, <2>3, <2>4 DEF BucketRec, AgeInv
  <2>6. budget' \in Int /\ budget' <= Capacity
    BY <2>2, <2>3, <2>4 DEF TypeInv, TypeOK, Capped
  <2>7. stamp' \in [Clients -> 0..MaxDelay \cup {None}] /\ StampInv'
    BY <2>4 DEF TypeInv, TypeOK, StampInv
  <2> QED
    BY <2>4, <2>5, <2>6, <2>7 DEF TypeInv, TypeOK, server
<1>4. ASSUME NEW c \in Clients, FailOpen(c) PROVE TypeInv'
  BY <1>4 DEF FailOpen, TypeInv, TypeOK, AgeInv, StampInv, server
<1>5. CASE Stop
  <2>1. /\ up' = FALSE /\ loaded' = FALSE
        /\ UNCHANGED <<delay, stamp, sha, verdict, upThen>>
        /\ UNCHANGED <<bucket, budget>> \/ (bucket' = None /\ budget' = Capacity)
    BY <1>5 DEF Stop
  <2>2. CASE UNCHANGED <<bucket, budget>>
    BY <2>1, <2>2 DEF TypeInv, TypeOK, AgeInv, StampInv
  <2>3. CASE bucket' = None /\ budget' = Capacity
    <3>1. budget' \in Int /\ budget' <= Capacity
      BY <2>3
    <3> QED BY <2>1, <2>3, <3>1 DEF TypeInv, TypeOK, AgeInv, StampInv
  <2> QED BY <2>1, <2>2, <2>3
<1>6. CASE Start
  BY <1>6 DEF Start, TypeInv, TypeOK, AgeInv, StampInv
<1>7. CASE Tick
  <2>1. bucket' \in BucketRec \cup {None} /\ AgeInv'
    <3>1. CASE bucket = None \/ bucket.idle = TTL - 1
      BY <1>7, <3>1 DEF Tick, Aged, AgeInv
    <3>2. CASE ~(bucket = None \/ bucket.idle = TTL - 1)
      <4>1. /\ bucket \in BucketRec /\ bucket.idle < TTL - 1
            /\ bucket.idle <= bucket.age /\ bucket.age <= bucket.idle + MaxDelay
        BY <3>2 DEF TypeInv, TypeOK, AgeInv, BucketRec
      <4>2. bucket' = [bucket EXCEPT !.age = @ + 1, !.idle = @ + 1]
        BY <1>7, <3>2 DEF Tick, Aged
      <4>3. bucket' = [tokens |-> bucket.tokens, age |-> bucket.age + 1, idle |-> bucket.idle + 1]
        BY <4>1, <4>2 DEF BucketRec
      <4> QED
        BY <4>1, <4>3 DEF BucketRec, AgeInv
    <3> QED
      BY <3>1, <3>2
  <2>2. stamp' \in [Clients -> 0..MaxDelay \cup {None}] /\ StampInv'
    BY <1>7 DEF Tick, TypeInv, TypeOK, StampInv
  <2>3. budget' \in Int /\ budget' <= Capacity
    BY <1>7 DEF Tick, Capped, TypeInv, TypeOK
  <2> QED
    BY <1>7, <2>1, <2>2, <2>3 DEF Tick, TypeInv, TypeOK, server
<1>8. CASE UNCHANGED vars
  BY <1>8 DEF vars, server, TypeInv, TypeOK, AgeInv, StampInv
<1> QED
  BY <1>1, <1>2, <1>3, <1>4, <1>5, <1>6, <1>7, <1>8 DEF Next

(* TypeOK holds for every number of clients, tier, delay and TTL, with and  *)
(* without outages: whatever clocks the callers have, the script keeps the  *)
(* bucket between empty and full.                                           *)
THEOREM TypeCorrect == Spec => []TypeOK
<1>1. Spec => []TypeInv
  BY TypeInit, TypeStep, PTL DEF Spec
<1> QED
  BY <1>1, PTL DEF TypeInv

-----------------------------------------------------------------------------
(* No token is withheld.  A script that runs with an old clock sets         *)
(* last_refill back, never forward of what was refilled: the level a later  *)
(* request finds falls by no more than the token that was spent.            *)

LEMMA RefillSplits ==
    ASSUME NEW m \in Nat, NEW n \in Nat
    PROVE  m * Rate \in Nat /\ n * Rate \in Nat /\ (m + n) * Rate = m * Rate + n * Rate
BY BucketAssumption, SMT

LEMMA LevelInRange ==
    ASSUME bucket \in BucketRec \cup {None}
    PROVE  Level \in 0..Capacity
<1>1. CASE bucket = None
  BY <1>1, BucketAssumption DEF Level
<1>2. CASE bucket # None
  <2>1. bucket.tokens \in Nat /\ bucket.age \in Nat
    BY <1>2, BucketAssumption DEF BucketRec
  <2>2. bucket.tokens + bucket.age * Rate \in Nat
    BY <2>1, RefillOfNextTick, BucketAssumption
  <2> QED
    BY <1>2, <2>2, CappedInRange DEF Level
<1> QED
  BY <1>1, <1>2

\* What the script finds at its caller's clock and what is refilled since then
\* make at least the level, and what is refilled again.
LEMMA NothingLost ==
    ASSUME bucket \in BucketRec \cup {None}, NEW now \in 0..MaxDelay
    PROVE  Refilled(now) + now * Rate >= Level + Again(now)
<1> USE BucketAssumption
<1>0. now \in Nat /\ now * Rate \in Nat
  BY RefillOfNextTick
<1>1. CASE bucket = None
  BY <1>0, <1>1 DEF Refilled, Level, Again
<1>2. CASE bucket # None
  <2> DEFINE held == bucket.tokens
             n == bucket.age
  <2>1. held \in 0..Capacity /\ n \in Nat
    BY <1>2 DEF BucketRec
  <2>2. Level = Capped(held + n * Rate)
    BY <1>2 DEF Level
  <2>3. CASE n > now
    <3>1. n - now \in Nat /\ Elapsed(now) = n - now
      BY <1>0, <2>1, <2>3 DEF Elapsed
    <3>2. (n - now) * Rate \in Nat /\ n * Rate = (n - now) * Rate + now * Rate
      <4>1. n = (n - now) + now
        BY <1>0, <2>1
      <4> HIDE DEF n
      <4>2. (n - now) * Rate \in Nat /\ ((n - now) + now) * Rate = (n - now) * Rate + now * Rate
        BY <1>0, <3>1, RefillSplits
      <4> QED BY <4>1, <4>2
    <3>3. Refilled(now) = Capped(held + (n - now) * Rate)
      BY <1>2, <3>1 DEF Refilled
    <3>4. Again(now) = 0
      BY <1>0, <2>1, <2>3 DEF Again
    <3> HIDE DEF held, n
    <3> QED BY <1>0, <2>1, <2>2, <3>2, <3>3, <3>4 DEF Capped
  <2>4. CASE ~(n > now)
    <3>1. Elapsed(now) * Rate = 0
      BY <2>1, <2>4 DEF Elapsed
    <3>2. Refilled(now) = held
      BY <1>2, <2>1, <3>1 DEF Refilled, Capped
    <3>3. now - n \in Nat /\ now = n + (now - n)
      BY <1>0, <2>1, <2>4
    <3>4. Again(now) = (now - n) * Rate
      BY <1>0, <1>2, <2>1, <2>4 DEF Again
    <3> HIDE DEF held, n
    <3>5. n * Rate \in Nat /\ (now - n) * Rate \in Nat /\ now * Rate = n * Rate + (now - n) * Rate
      BY <2>1, <3>3, RefillSplits
    <3> QED BY <2>1, <2>2, <3>2, <3>4, <3>5 DEF Capped
  <2> QED BY <2>3, <2>4
<1> QED
  BY <1>1, <1>2

ShortInv == TypeInv /\ NeverShort

LEMMA ShortInit == Init => ShortInv
<1> SUFFICES ASSUME Init PROVE ShortInv
  OBVIOUS
<1>1. Level = Capacity
  BY DEF Init, Level
<1> QED
  BY <1>1, TypeInit, BucketAssumption DEF Init, ShortInv, NeverShort

LEMMA ShortScript ==
    ASSUME ShortInv, NEW c \in Clients, Evaluate(c)
    PROVE  NeverShort'
<1> USE BucketAssumption, NoneAssumption
<1> DEFINE s == stamp[c]
           tokens == Refilled(s)
           taken == IF tokens >= Token THEN Token ELSE 0
           again == Again(s)
<1>1. s \in 0..MaxDelay /\ bucket \in BucketRec \cup {None} /\ budget \in Int
  BY StampType DEF Evaluate, ShortInv, TypeInv, TypeOK
<1>2. tokens \in 0..Capacity /\ s * Rate \in Nat /\ again \in Nat
  BY <1>1, RefilledInRange, RefillOfNextTick, AgainType
<1>3. tokens + s * Rate >= Level + again /\ Level \in 0..Capacity /\ budget <= Level
  BY <1>1, NothingLost, LevelInRange DEF ShortInv, NeverShort
<1>4. /\ bucket' = [tokens |-> tokens - taken, age |-> s, idle |-> 0]
      /\ budget' = Capped(budget + again) - taken
  BY DEF Evaluate
<1>5. taken \in Nat /\ tokens - taken \in 0..Capacity
  BY <1>2
<1> HIDE DEF s, tokens, taken, again
<1>6. Level' = Capped((tokens - taken) + s * Rate)
  <2>1. bucket' \in BucketRec
    BY <1>1, <1>4, <1>5 DEF BucketRec
  <2> QED BY <1>4, <2>1 DEF Level, Capped
<1> QED
  BY <1>1, <1>2, <1>3, <1>4, <1>5, <1>6 DEF NeverShort, Capped

LEMMA ShortTick ==
    ASSUME ShortInv, Tick
    PROVE  NeverShort'
<1> USE BucketAssumption, NoneAssumption
<1>1. bucket \in BucketRec \cup {None} /\ budget \in Int /\ budget <= Level
  BY DEF ShortInv, TypeInv, TypeOK, NeverShort
<1>2. Level \in 0..Capacity
  BY <1>1, LevelInRange
<1>3. budget' = Capped(budget + Rate)
  BY DEF Tick
<1>4. CASE bucket = None \/ bucket.idle = TTL - 1
  <2>1. Level' = Capacity
    BY <1>4 DEF Tick, Aged, Level
  <2> QED BY <1>1, <1>3, <2>1 DEF NeverShort, Capped
<1>5. CASE ~(bucket = None \/ bucket.idle = TTL - 1)
  <2> DEFINE held == bucket.tokens
             n == bucket.age
  <2>1. bucket \in BucketRec /\ bucket.idle < TTL - 1 /\ n <= bucket.idle + MaxDelay
    BY <1>5 DEF ShortInv, TypeInv, TypeOK, AgeInv, BucketRec
  <2>2. held \in 0..Capacity /\ n \in Nat
    BY <2>1 DEF BucketRec
  <2>3. bucket' = [bucket EXCEPT !.age = @ + 1, !.idle = @ + 1]
    BY <1>5 DEF Tick, Aged
  <2>4. bucket' = [tokens |-> held, age |-> n + 1, idle |-> bucket.idle + 1]
    BY <2>1, <2>3 DEF BucketRec
  <2>5. bucket' # None
    BY <2>1, <2>4 DEF BucketRec
  <2>6. Level' = Capped(held + (n + 1) * Rate)
    BY <2>4, <2>5 DEF Level, Capped
  <2>7. Level = Capped(held + n * Rate)
    BY <1>5 DEF Level
  <2> HIDE DEF held, n
  <2>8. n * Rate \in Nat /\ (n + 1) * Rate = n * Rate + Rate
    BY <2>2, RefillOfNextTick
  <2> QED BY <1>1, <1>3, <2>2, <2>6, <2>7, <2>8 DEF NeverShort, Capped
<1> QED
  BY <1>4, <1>5

LEMMA ShortStep == ShortInv /\ [Next]_vars => ShortInv'
<1> SUFFICES ASSUME ShortInv, [Next]_vars PROVE ShortInv'
  OBVIOUS
<1>0. TypeInv'
  BY TypeStep DEF ShortInv
<1>1. ASSUME NEW c \in Clients, Ask(c) \/ LoadScript(c) \/ FailOpen(c) PROVE NeverShort'
  BY <1>1 DEF Ask, LoadScript, FailOpen, ShortInv, NeverShort, Level
<1>2. ASSUME NEW c \in Clients, Evaluate(c) PROVE NeverShort'
  BY <1>2, ShortScript
<1>3. ASSUME Stop PROVE NeverShort'
  <2>1. CASE UNCHANGED <<bucket, budget>>
    BY <2>1 DEF ShortInv, NeverShort, Level
  <2>2. CASE bucket' = None /\ budget' = Capacity
    BY <2>2, BucketAssumption DEF NeverShort, Level
  <2> QED BY <1>3, <2>1, <2>2 DEF Stop
<1>4. ASSUME Start PROVE NeverShort'
  BY <1>4 DEF Start, ShortInv, NeverShort, Level
<1>5. ASSUME Tick PROVE NeverShort'
  BY <1>5, ShortTick
<1>6. ASSUME UNCHANGED vars PROVE NeverShort'
  BY <1>6 DEF vars, ShortInv, NeverShort, Level
<1> QED
  BY <1>0, <1>1, <1>2, <1>3, <1>4, <1>5, <1>6 DEF Next, ShortInv

(* The bucket never withholds a token: the property of that name holds for  *)
(* every delay, tier and TTL, and however often Redis stops.                *)
THEOREM NothingWithheld == Spec => []NeverShort
<1>1. ShortInv => NeverShort
  BY DEF ShortInv
<1> QED
  BY <1>1, ShortInit, ShortStep, PTL DEF Spec

-----------------------------------------------------------------------------
(* No token is handed out twice, but for what is counted again.  However    *)
(* late a request comes, it finds no more than the count leaves and what it *)
(* sets back itself.                                                        *)

Covered == Refilled(delay) <= budget + Again(delay)
OverInv == TypeInv /\ Covered

\* A request finds more the later its reading is, by what is refilled meanwhile.
LEMMA LaterFindsMore ==
    ASSUME bucket \in BucketRec \cup {None},
           NEW now \in 0..MaxDelay, NEW old \in 0..MaxDelay, now <= old
    PROVE  Refilled(now) + Again(old) <= Refilled(old) + Again(now) + (old - now) * Rate
<1> USE BucketAssumption
<1>0. now \in Nat /\ old \in Nat /\ old - now \in Nat /\ (old - now) * Rate \in Nat
  BY RefillOfNextTick
<1>1. CASE bucket = None
  BY <1>0, <1>1 DEF Refilled, Again
<1>2. CASE bucket # None
  <2> DEFINE held == bucket.tokens
             n == bucket.age
  <2>1. held \in 0..Capacity /\ n \in Nat
    BY <1>2 DEF BucketRec
  <2>2. /\ Refilled(now) = Capped(held + (IF n > now THEN n - now ELSE 0) * Rate)
        /\ Refilled(old) = Capped(held + (IF n > old THEN n - old ELSE 0) * Rate)
        /\ Again(now) = (IF n < now THEN (now - n) * Rate ELSE 0)
        /\ Again(old) = (IF n < old THEN (old - n) * Rate ELSE 0)
    BY <1>2 DEF Refilled, Elapsed, Again
  <2> HIDE DEF held, n
  <2>3. CASE n >= old
    <3>1. /\ n - now \in Nat /\ n - old \in Nat
          /\ (IF n > now THEN n - now ELSE 0) = n - now
          /\ (IF n > old THEN n - old ELSE 0) = n - old
      BY <1>0, <2>1, <2>3
    <3>2. PICK x \in Nat, y \in Nat : x = n - old /\ y = old - now /\ n - now = x + y
      BY <1>0, <2>1, <3>1
    <3>3. x * Rate \in Nat /\ y * Rate \in Nat /\ (x + y) * Rate = x * Rate + y * Rate
      BY <3>2, RefillSplits
    <3>4. /\ Refilled(now) = Capped(held + (x + y) * Rate)
          /\ Refilled(old) = Capped(held + x * Rate)
          /\ Again(now) = 0 /\ Again(old) = 0
      BY <1>0, <2>1, <2>2, <2>3, <3>1, <3>2
    <3> QED BY <2>1, <3>2, <3>3, <3>4 DEF Capped
  <2>4. CASE now <= n /\ n < old
    <3>1. PICK x \in Nat, y \in Nat : x = n - now /\ y = old - n /\ old - now = x + y
      BY <1>0, <2>1, <2>4
    <3>2. x * Rate \in Nat /\ y * Rate \in Nat /\ (x + y) * Rate = x * Rate + y * Rate
      BY <3>1, RefillSplits
    <3>3. (IF n > now THEN n - now ELSE 0) = x /\ (IF n > old THEN n - old ELSE 0) = 0
      BY <1>0, <2>1, <2>4, <3>1
    <3>4. Refilled(now) = Capped(held + x * Rate) /\ Refilled(old) = Capped(held + 0 * Rate)
      BY <2>2, <3>3
    <3>5. Again(now) = 0 /\ Again(old) = y * Rate
      BY <1>0, <2>1, <2>2, <2>4, <3>1
    <3>6. 0 * Rate = 0
      OBVIOUS
    <3> QED BY <2>1, <3>1, <3>2, <3>4, <3>5, <3>6 DEF Capped
  <2>5. CASE n < now
    <3>1. PICK x \in Nat, y \in Nat : x = now - n /\ y = old - now /\ old - n = x + y
      BY <1>0, <2>1, <2>5
    <3>2. x * Rate \in Nat /\ y * Rate \in Nat /\ (x + y) * Rate = x * Rate + y * Rate
      BY <3>1, RefillSplits
    <3>3. (IF n > now THEN n - now ELSE 0) = 0 /\ (IF n > old THEN n - old ELSE 0) = 0
      BY <1>0, <2>1, <2>5
    <3>4. Refilled(now) = Refilled(old) /\ Refilled(old) \in 0..Capacity
      BY <2>2, <3>3, RefilledInRange
    <3>5. Again(now) = x * Rate /\ Again(old) = (x + y) * Rate
      BY <1>0, <2>1, <2>2, <2>5, <3>1
    <3> QED BY <3>1, <3>2, <3>4, <3>5
  <2> QED BY <1>0, <2>1, <2>3, <2>4, <2>5
<1> QED
  BY <1>1, <1>2

LEMMA OverInit == Init => OverInv
BY TypeInit, BucketAssumption DEF Init, OverInv, Covered, Refilled, Again

\* A script leaves to the latest request what it left itself, and what that
\* request sets back.
LEMMA OverScript ==
    ASSUME OverInv, NEW c \in Clients, Evaluate(c)
    PROVE  Covered'
<1> USE BucketAssumption, NoneAssumption
<1> DEFINE s == stamp[c]
           tokens == Refilled(s)
           taken == IF tokens >= Token THEN Token ELSE 0
<1>1. /\ s \in 0..MaxDelay /\ delay \in 0..MaxDelay /\ s <= delay
      /\ bucket \in BucketRec \cup {None} /\ budget \in Int
  BY StampType DEF Evaluate, OverInv, TypeInv, TypeOK
<1>2. tokens \in 0..Capacity /\ Again(s) \in Nat /\ Again(delay) \in Nat /\ Refilled(delay) \in 0..Capacity
  BY <1>1, RefilledInRange, AgainType
<1>3. tokens + Again(delay) <= Refilled(delay) + Again(s) + (delay - s) * Rate
  BY <1>1, LaterFindsMore
<1>4. /\ bucket' = [tokens |-> tokens - taken, age |-> s, idle |-> 0]
      /\ budget' = Capped(budget + Again(s)) - taken /\ delay' = delay
  BY DEF Evaluate
<1>5. taken \in Nat /\ tokens - taken \in 0..Capacity
  BY <1>2
<1> HIDE DEF s, tokens, taken
<1>6. delay - s \in Nat /\ (delay - s) * Rate \in Nat
  <2>1. delay - s \in Nat
    BY <1>1
  <2> QED BY <2>1, RefillOfNextTick
<1>7. Refilled(delay)' = tokens - taken /\ Again(delay)' = (delay - s) * Rate
  <2>1. bucket' \in BucketRec /\ bucket' # None
    BY <1>1, <1>4, <1>5 DEF BucketRec
  <2>2. Elapsed(delay)' = 0
    BY <1>1, <1>4 DEF Elapsed
  <2>3. Elapsed(delay)' * Rate = 0
    BY <2>2
  <2>4. Refilled(delay)' = Capped((tokens - taken) + Elapsed(delay)' * Rate)
    BY <1>4, <2>1 DEF Refilled, Capped
  <2>5. Refilled(delay)' = tokens - taken
    BY <1>5, <2>3, <2>4 DEF Capped
  <2>6. CASE s < delay
    BY <1>1, <1>4, <2>1, <2>5, <2>6 DEF Again
  <2>7. CASE s = delay
    <3>1. (delay - s) * Rate = 0
      BY <1>1, <2>7
    <3> QED BY <1>1, <1>4, <2>1, <2>5, <2>7, <3>1 DEF Again
  <2> QED BY <1>1, <2>6, <2>7
<1>8. Refilled(delay) <= budget + Again(delay)
  BY DEF OverInv, Covered
<1>9. tokens <= budget + Again(s) + (delay - s) * Rate
  BY <1>1, <1>2, <1>3, <1>6, <1>8
<1>10. tokens - taken <= budget' + (delay - s) * Rate
  BY <1>1, <1>2, <1>4, <1>5, <1>6, <1>9 DEF Capped
<1> QED
  BY <1>7, <1>10 DEF Covered

\* A tick adds as much to the count as the latest request finds more, also the
\* tick in which the key expires: by then the bucket would have been full.
LEMMA OverTick ==
    ASSUME OverInv, Tick
    PROVE  Covered'
<1> USE BucketAssumption, NoneAssumption
<1>1. /\ bucket \in BucketRec \cup {None} /\ budget \in Int /\ delay \in Nat /\ delay \in 0..MaxDelay
      /\ Refilled(delay) <= budget + Again(delay)
  BY DEF OverInv, Covered, TypeInv, TypeOK
<1>2. budget' = Capped(budget + Rate) /\ delay' = delay /\ bucket' = Aged
  BY DEF Tick
<1>3. CASE bucket = None
  <2>1. bucket' = None /\ Capacity <= budget
    BY <1>1, <1>2, <1>3 DEF Aged, Refilled, Again
  <2> QED BY <1>1, <1>2, <2>1 DEF Covered, Refilled, Again, Capped
<1>4. CASE bucket # None
  <2> DEFINE held == bucket.tokens
             n == bucket.age
  <2>1. /\ bucket \in BucketRec /\ held \in 0..Capacity /\ n \in Nat
        /\ bucket.idle <= n /\ bucket.idle < TTL /\ n <= bucket.idle + MaxDelay
        /\ bucket.idle \in Nat
    BY <1>1, <1>4 DEF OverInv, TypeInv, AgeInv, BucketRec
  <2>2. CASE bucket.idle = TTL - 1
    <3>1. bucket' = None
      BY <1>2, <2>2 DEF Aged
    <3>2. n - delay \in Nat /\ n + 1 - delay >= TTL - MaxDelay
      BY <1>1, <2>1, <2>2
    <3>3. Elapsed(delay) = n - delay /\ Again(delay) = 0
      BY <1>1, <2>1, <3>2 DEF Elapsed, Again
    <3>4. Refilled(delay) = Capped(held + (n - delay) * Rate)
      BY <1>4, <3>3 DEF Refilled
    <3>5. PICK x \in Nat, y \in Nat : x = n - delay /\ x + 1 = (TTL - MaxDelay) + y
      <4>1. (n - delay) + 1 - (TTL - MaxDelay) \in Nat
        BY <1>1, <2>1, <3>2
      <4> QED BY <1>1, <2>1, <3>2, <4>1
    <3>6. x * Rate \in Nat /\ (x + 1) * Rate = x * Rate + Rate
      BY RefillOfNextTick
    <3>7. PICK z \in Nat : z = TTL - MaxDelay
      OBVIOUS
    <3>8. z * Rate \in Nat /\ y * Rate \in Nat /\ (z + y) * Rate = z * Rate + y * Rate
      BY RefillSplits
    <3>9. x * Rate + Rate >= Capacity
      BY <3>5, <3>6, <3>7, <3>8
    <3>10. Capped(held + x * Rate) <= budget
      BY <1>1, <3>3, <3>4, <3>5
    <3> HIDE DEF held, n
    <3>11. budget' = Capacity
      BY <1>1, <1>2, <2>1, <3>6, <3>9, <3>10 DEF Capped
    <3> QED BY <3>1, <3>11 DEF Covered, Refilled, Again
  <2>3. CASE bucket.idle # TTL - 1
    <3>1. bucket' = [bucket EXCEPT !.age = @ + 1, !.idle = @ + 1]
      BY <1>2, <1>4, <2>3 DEF Aged
    <3>2. bucket' = [tokens |-> held, age |-> n + 1, idle |-> bucket.idle + 1]
      BY <2>1, <3>1 DEF BucketRec
    <3>3. bucket' # None
      <4>1. n + 1 \in 0..(TTL + MaxDelay) /\ bucket.idle + 1 \in 0..TTL
        BY <2>1, <2>3
      <4> HIDE DEF n, held
      <4>2. bucket' \in BucketRec
        BY <2>1, <3>2, <4>1 DEF BucketRec
      <4> QED BY <4>2
    <3>4. CASE n >= delay
      <4>1. n - delay \in Nat /\ Elapsed(delay) = n - delay /\ Again(delay) = 0
        BY <1>1, <2>1, <3>4 DEF Elapsed, Again
      <4>2. Elapsed(delay)' = (n - delay) + 1 /\ Again(delay)' = 0
        BY <1>1, <1>2, <2>1, <3>2, <3>4 DEF Elapsed, Again
      <4>3. Refilled(delay)' = Capped(held + ((n - delay) + 1) * Rate)
        BY <3>2, <3>3, <4>2 DEF Refilled, Capped
      <4>4. Refilled(delay) = Capped(held + (n - delay) * Rate)
        BY <1>4, <4>1 DEF Refilled
      <4>5. PICK x \in Nat : x = n - delay
        BY <4>1
      <4>6. x * Rate \in Nat /\ (x + 1) * Rate = x * Rate + Rate
        BY RefillOfNextTick
      <4>7. Capped(held + x * Rate) <= budget
        BY <1>1, <4>1, <4>4, <4>5
      <4> HIDE DEF held, n
      <4>8. Capped(held + (x * Rate + Rate)) <= budget'
        BY <1>1, <1>2, <2>1, <4>6, <4>7 DEF Capped
      <4>9. budget' \in Int
        BY <1>1, <1>2 DEF Capped
      <4> QED BY <4>2, <4>3, <4>5, <4>6, <4>8, <4>9 DEF Covered
    <3>5. CASE n < delay
      <4>1. PICK x \in Nat : x + 1 = delay - n
        <5> HIDE DEF n
        <5>1. (delay - n) - 1 \in Nat /\ ((delay - n) - 1) + 1 = delay - n
          BY <1>1, <2>1, <3>5
        <5> QED BY <5>1
      <4>2. x * Rate \in Nat /\ (x + 1) * Rate = x * Rate + Rate
        BY RefillOfNextTick
      <4>3. Elapsed(delay) = 0 /\ Again(delay) = (x + 1) * Rate
        <5>1. ~(bucket.age > delay) /\ bucket.age < delay
          BY <1>1, <2>1, <3>5
        <5> QED BY <1>4, <4>1, <5>1 DEF Elapsed, Again
      <4>4. Elapsed(delay)' = 0
        BY <1>1, <1>2, <2>1, <3>2, <3>5 DEF Elapsed
      <4>5. Again(delay)' = x * Rate
        <5>1. CASE n + 1 < delay
          <6>1. delay - (n + 1) = x
            BY <1>1, <2>1, <4>1
          <6> QED BY <1>2, <3>2, <3>3, <5>1, <6>1 DEF Again
        <5>2. CASE n + 1 = delay
          <6>1. x = 0 /\ x * Rate = 0
            BY <1>1, <2>1, <4>1, <5>2
          <6> QED BY <1>1, <1>2, <2>1, <3>2, <3>3, <5>2, <6>1 DEF Again
        <5> QED BY <1>1, <2>1, <3>5, <5>1, <5>2
      <4>6. 0 * Rate = 0
        OBVIOUS
      <4>7. Refilled(delay) = held /\ Refilled(delay)' = held
        <5>1. Refilled(delay) = Capped(held + 0 * Rate) /\ Refilled(delay)' = Capped(held + 0 * Rate)
          BY <1>4, <3>2, <3>3, <4>3, <4>4 DEF Refilled, Capped
        <5> HIDE DEF held
        <5> QED BY <2>1, <4>6, <5>1 DEF Capped
      <4> HIDE DEF held, n
      <4>8. held <= budget + (x * Rate + Rate)
        BY <1>1, <4>2, <4>3, <4>7
      <4>9. held <= budget' + x * Rate
        BY <1>1, <1>2, <2>1, <4>2, <4>8 DEF Capped
      <4> QED BY <4>5, <4>7, <4>9 DEF Covered
    <3> QED BY <1>1, <2>1, <3>4, <3>5
  <2> QED BY <2>2, <2>3
<1> QED
  BY <1>3, <1>4

LEMMA OverStep == OverInv /\ [Next]_vars => OverInv'
<1> SUFFICES ASSUME OverInv, [Next]_vars PROVE OverInv'
  OBVIOUS
<1>0. TypeInv'
  BY TypeStep DEF OverInv
<1>1. ASSUME UNCHANGED <<delay, bucket, budget>> PROVE Covered'
  BY <1>1 DEF OverInv, Covered, Refilled, Elapsed, Again, Capped
<1>2. ASSUME NEW c \in Clients, Ask(c) \/ LoadScript(c) \/ FailOpen(c) PROVE Covered'
  BY <1>1, <1>2 DEF Ask, LoadScript, FailOpen
<1>3. ASSUME NEW c \in Clients, Evaluate(c) PROVE Covered'
  BY <1>3, OverScript
<1>4. ASSUME Stop PROVE Covered'
  <2>1. CASE bucket' = None /\ budget' = Capacity
    BY <2>1, BucketAssumption DEF Covered, Refilled, Again
  <2> QED BY <1>1, <1>4, <2>1 DEF Stop
<1>5. ASSUME Tick PROVE Covered'
  BY <1>5, OverTick
<1>6. ASSUME Start \/ UNCHANGED vars PROVE Covered'
  BY <1>1, <1>6 DEF Start, vars
<1>7. Covered'
  BY <1>2, <1>3, <1>4, <1>5, <1>6 DEF Next
<1> QED
  BY <1>0, <1>7 DEF OverInv

(* However late requests reach the script, and in whatever order, the       *)
(* bucket is overdrawn by no more than the refill of the delay, for every   *)
(* tier whose bucket is full again before its key expires.                  *)
THEOREM OverdrawnBounded == Spec => []NeverOverdrawn
<1>1. OverInv => NeverOverdrawn
  <2> SUFFICES ASSUME OverInv PROVE NeverOverdrawn
    OBVIOUS
  <2> USE BucketAssumption
  <2>1. /\ bucket \in BucketRec \cup {None} /\ budget \in Int /\ delay \in 0..MaxDelay
        /\ Refilled(delay) <= budget + Again(delay)
    BY DEF OverInv, Covered, TypeInv, TypeOK
  <2>2. Refilled(delay) \in 0..Capacity /\ Again(delay) \in Nat
    BY <2>1, RefilledInRange, AgainType
  <2>3. Again(delay) <= delay * Rate
    <3>1. delay \in Nat /\ delay * Rate \in Nat
      BY <2>1, RefillOfNextTick
    <3>2. CASE bucket # None /\ bucket.age < delay
      <4>1. PICK n \in Nat, x \in Nat : n = bucket.age /\ x = delay - n /\ delay = n + x
        BY <2>1, <3>2 DEF BucketRec
      <4>2. n * Rate \in Nat /\ x * Rate \in Nat /\ (n + x) * Rate = n * Rate + x * Rate
        BY RefillSplits
      <4>3. Again(delay) = x * Rate
        BY <3>2, <4>1 DEF Again
      <4> QED BY <4>1, <4>2, <4>3
    <3>3. CASE ~(bucket # None /\ bucket.age < delay)
      BY <3>1, <3>3 DEF Again
    <3> QED BY <3>2, <3>3
  <2>4. delay * Rate \in Nat
    BY <2>1, RefillOfNextTick
  <2> QED
    BY <2>1, <2>2, <2>3, <2>4 DEF NeverOverdrawn
<1> QED
  BY <1>1, OverInit, OverStep, PTL DEF Spec

-----------------------------------------------------------------------------
(* Exactness.  When requests are prompt, the two bounds meet: the count is  *)
(* the level, and what it does in a step the level does too.                *)

ExactInv == ShortInv /\ OverInv

LEMMA PromptExact ==
    ASSUME ExactInv, Prompt
    PROVE  /\ Refilled(0) = Level /\ Again(0) = 0
           /\ budget = Level /\ Level \in 0..Capacity
<1> USE BucketAssumption
<1>1. bucket \in BucketRec \cup {None} /\ budget \in Int /\ delay = 0
  BY DEF ExactInv, OverInv, TypeInv, TypeOK, Prompt
<1>2. Refilled(0) = Level /\ Again(0) = 0
  <2>1. CASE bucket = None
    BY <2>1 DEF Refilled, Level, Again
  <2>2. CASE bucket # None
    <3>1. bucket.age \in Nat
      BY <1>1, <2>2 DEF BucketRec
    <3>2. Elapsed(0) = bucket.age /\ Again(0) = 0
      BY <3>1 DEF Elapsed, Again
    <3> QED BY <2>2, <3>2 DEF Refilled, Level
  <2> QED BY <2>1, <2>2
<1>3. Level \in 0..Capacity
  BY <1>1, LevelInRange
<1>4. Refilled(0) <= budget + Again(0) /\ budget <= Level
  BY <1>1 DEF ExactInv, ShortInv, OverInv, Covered, NeverShort
<1> QED
  BY <1>1, <1>2, <1>3, <1>4

(* Prompt requests see an ideal token bucket: every script is one of its    *)
(* steps, with the same verdict, every tick a refill, everything else a     *)
(* stutter.                                                                 *)
THEOREM ScriptImplementsIdeal == Spec => ImplementsIdeal
<1> DEFINE level == IF Prompt THEN Level ELSE Capacity
           answer == IF Prompt THEN verdict ELSE "none"
<1>1. Init => Ideal!Init
  BY DEF Init, Ideal!Init, Level
<1>2. ExactInv /\ Prompt => budget = Level
  BY PromptExact
<1>3. (ExactInv /\ Prompt => budget = Level)'
  BY <1>2, PTL
<1>4. ExactInv /\ ExactInv' /\ [Next]_vars => [Ideal!Next]_<<level, answer>>
  <2> SUFFICES ASSUME ExactInv, ExactInv', [Next]_vars PROVE [Ideal!Next]_<<level, answer>>
    OBVIOUS
  <2>1. delay' = delay
    BY DEF Next, Ask, LoadScript, Evaluate, FailOpen, Stop, Start, Tick, vars
  <2>2. CASE ~Prompt
    BY <2>1, <2>2 DEF Prompt
  <2>3. CASE Prompt
    <3>1. /\ budget = Level /\ Level \in 0..Capacity
          /\ Refilled(0) = Level /\ Again(0) = 0
      BY <2>3, PromptExact
    <3>2. Prompt' /\ budget' = Level'
      BY <1>3, <2>1, <2>3 DEF Prompt
    <3>3. /\ Ideal!Next <=>
                \/ Level >= Token /\ Level' = Level - Token /\ verdict' = "allow"
                \/ Level < Token /\ Level' = Level /\ verdict' = "deny"
                \/ Level' = Capped(Level + Rate) /\ verdict' = verdict
                \/ Level' = Capacity /\ verdict' = verdict
                \/ Level' = Level /\ verdict' = "open"
          /\ Level' = Level /\ verdict' = verdict => UNCHANGED <<level, answer>>
      BY <2>3, <3>2 DEF Ideal!Next, Ideal!Allow, Ideal!Deny, Ideal!Refill, Ideal!Lose, Ideal!Open,
                        Ideal!Capped, Capped
    <3> HIDE DEF level, answer
    <3>4. ASSUME NEW c \in Clients, Ask(c) \/ LoadScript(c) PROVE UNCHANGED <<level, answer>>
      BY <3>1, <3>2, <3>3, <3>4 DEF Ask, LoadScript
    <3>5. ASSUME NEW c \in Clients, Evaluate(c) PROVE Ideal!Next
      <4>1. stamp[c] = 0
        BY <2>3, <3>5, StampType DEF Evaluate, ExactInv, ShortInv, Prompt
      <4> DEFINE taken == IF Level >= Token THEN Token ELSE 0
      <4>2. /\ budget' = Capped(Level + 0) - taken
            /\ verdict' = IF Level >= Token THEN "allow" ELSE "deny"
        BY <3>1, <3>5, <4>1 DEF Evaluate
      <4>3. Level' = Level - taken
        BY <3>1, <3>2, <4>2, BucketAssumption DEF Capped
      <4>4. CASE Level >= Token
        BY <3>3, <4>2, <4>3, <4>4
      <4>5. CASE ~(Level >= Token)
        BY <3>1, <3>3, <4>2, <4>3, <4>5, BucketAssumption
      <4> QED BY <4>4, <4>5
    <3>6. ASSUME NEW c \in Clients, FailOpen(c) PROVE Ideal!Next
      BY <3>1, <3>2, <3>3, <3>6 DEF FailOpen
    <3>7. CASE Stop
      <4>1. verdict' = verdict /\ (Level' = Level \/ Level' = Capacity)
        BY <3>1, <3>2, <3>7 DEF Stop
      <4> QED BY <3>3, <4>1
    <3>8. CASE Tick
      BY <3>1, <3>2, <3>3, <3>8 DEF Tick
    <3>9. CASE Start \/ UNCHANGED vars
      BY <3>1, <3>2, <3>3, <3>9 DEF Start, vars
    <3> QED
      BY <3>4, <3>5, <3>6, <3>7, <3>8, <3>9 DEF Next
  <2> QED
    BY <2>2, <2>3
<1> QED
  BY <1>1, <1>4, ShortInit, ShortStep, OverInit, OverStep, PTL
     DEF Spec, ImplementsIdeal, Ideal!Spec, ExactInv

=============================================================================
