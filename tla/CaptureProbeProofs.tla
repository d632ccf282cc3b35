------------------------- MODULE CaptureProbeProofs -------------------------
(***************************************************************************)
(* Proofs about CaptureProbe, for all periods, fan-out capacities, picture  *)
(* sizes and durations, and for tasks that are late by any time.            *)
(***************************************************************************)
EXTENDS CaptureProbe, TLAPS

USE ProbeAssumption

----------------------------------------------------------------------------
(* The ticker *)

\* What a quotient is, for any divisor.
LEMMA Quotient ==
    ASSUME NEW n \in Nat, NEW p \in Nat \ {0}
    PROVE  /\ n \div p \in Nat /\ n % p \in Nat /\ n % p < p
           /\ n = p * (n \div p) + (n % p)
OBVIOUS

\* A multiple of a period that is no period away is no time away.
LEMMA NoPeriods ==
    ASSUME NEW k \in Int, NEW p \in Nat \ {0}, p * k < p, p * k > -p
    PROVE  k = 0
<1>1. CASE k >= 1
  <2>1. p * (k - 1) >= 0
    BY <1>1
  <2>2. p * (k - 1) = p * k - p
    OBVIOUS
  <2> QED BY <2>1, <2>2
<1>2. CASE k <= -1
  <2>1. p * (-1 - k) >= 0
    BY <1>2
  <2>2. p * (-1 - k) = -p - p * k
    OBVIOUS
  <2> QED BY <2>1, <2>2
<1> QED BY <1>1, <1>2

\* A multiple has no remainder.
LEMMA Multiple ==
    ASSUME NEW d \in Nat, NEW p \in Nat \ {0}
    PROVE  (d * p) % p = 0
<1> DEFINE n == d * p  q == n \div p  r == n % p
<1>1. n \in Nat
  OBVIOUS
<1> HIDE DEF n
<1>2. q \in Nat /\ r \in Nat /\ r < p /\ n = p * q + r
  BY <1>1, Quotient
<1> HIDE DEF q, r
<1> DEFINE k == d - q
<1>3. k \in Int /\ r = p * k
  BY <1>2 DEF n
<1> HIDE DEF k
<1>4. p * k < p /\ p * k > -p
  BY <1>2, <1>3
<1>5. k = 0
  BY <1>3, <1>4, NoPeriods
<1>6. r = 0
  BY <1>3, <1>5
<1> QED BY <1>6 DEF n, r

\* A larger number of periods takes no less time.
LEMMA MorePeriods ==
    ASSUME NEW m \in Int, NEW n \in Int, m <= n, NEW p \in Nat \ {0}
    PROVE  m * p <= n * p
<1>1. (n - m) * p >= 0
  OBVIOUS
<1>2. (n - m) * p = n * p - m * p
  OBVIOUS
<1> QED BY <1>1, <1>2

\* A later multiple of a period is at least one period later.
LEMMA OnePeriodMore ==
    ASSUME NEW m \in Int, NEW n \in Int, m < n, NEW p \in Nat \ {0}
    PROVE  m * p + p <= n * p /\ m * p \in Int /\ n * p \in Int
<1>1. (m + 1) * p <= n * p
  BY MorePeriods
<1>2. (m + 1) * p = m * p + p
  OBVIOUS
<1> QED BY <1>1, <1>2

\* MissedTickBehavior::Skip (simulate.rs): the next tick is still to come, a whole number
\* of periods from its start, and later than every tick that is due.
LEMMA NextTick ==
    ASSUME NEW k \in Kind, begun[k] \in Nat, clock \in Nat, begun[k] <= clock,
           NEW d \in Nat, begun[k] + d * Period[k] <= clock
    PROVE  /\ NextDue(k) \in Nat /\ clock < NextDue(k)
           /\ \E e \in Nat : e > d /\ NextDue(k) = begun[k] + e * Period[k]
<1> DEFINE p == Period[k]  n == clock - begun[k]
<1>1. p \in Nat \ {0} /\ n \in Nat
  OBVIOUS
<1>2. NextDue(k) = begun[k] + (n \div p + 1) * p
  BY DEF NextDue
<1> HIDE DEF p, n
<1>3. PICK q \in Nat, r \in Nat : q = n \div p /\ r < p /\ n = p * q + r
  <2>1. /\ n \div p \in Nat /\ n % p \in Nat
        /\ n % p < p /\ n = p * (n \div p) + (n % p)
    BY <1>1, Quotient
  <2> QED BY <2>1, Zenon
<1>4. (q + 1) * p = p * q + p
  BY <1>1
<1>5. NextDue(k) \in Nat /\ clock < NextDue(k)
  <2>1. clock = begun[k] + n
    BY DEF n
  <2>2. p * q \in Nat
    BY <1>1
  <2> QED BY <1>1, <1>2, <1>3, <1>4, <2>1, <2>2
<1>6. d < q + 1
  <2>1. SUFFICES ASSUME q + 1 <= d PROVE FALSE
    OBVIOUS
  <2>2. (q + 1) * p <= d * p
    BY <1>1, <2>1, MorePeriods
  <2>3. d * p <= n /\ d * p \in Nat
    BY <1>1 DEF n, p
  <2> QED BY <1>1, <1>3, <1>4, <2>2, <2>3
<1> QED BY <1>2, <1>3, <1>5, <1>6 DEF p

----------------------------------------------------------------------------
(* The stamps *)

\* What the product is in whole chunks, and that it grows with their number.
LEMMA Products ==
    ASSUME NEW n \in Int
    PROVE  /\ Product(n) = (n * Period["audio"]) * Rate
           /\ Product(n) \in Int /\ n * Period["audio"] \in Int
           /\ Product(n - 1) < Product(n)
<1> DEFINE p == Period["audio"]  c == ChunkFrames * Nanos
<1>1. p \in Nat \ {0} /\ Rate \in Nat \ {0} /\ c = p * Rate /\ c \in Nat \ {0}
  BY ClockAssumption DEF Kind
<1>2. Product(n) = n * c /\ Product(n - 1) = (n - 1) * c
  BY DEF Product
<1>3. n * (p * Rate) = (n * p) * Rate
  BY <1>1
<1> HIDE DEF p, c
<1>4. (n - 1) * c = n * c - c /\ n * c \in Int
  BY <1>1
<1> QED BY <1>1, <1>2, <1>3, <1>4 DEF p, c

\* A multiple, divided, is what was multiplied.
LEMMA Divides ==
    ASSUME NEW m \in Nat, NEW d \in Nat \ {0}
    PROVE  (m * d) \div d = m
<1> DEFINE n == m * d  q == n \div d  t == n % d
<1>1. n \in Nat
  OBVIOUS
<1>2. t = 0
  BY Multiple
<1> HIDE DEF n
<1>3. q \in Nat /\ n = d * q + t
  BY <1>1, Quotient
<1> HIDE DEF q, t
<1> DEFINE k == q - m
<1>4. k \in Int /\ d * k = 0
  BY <1>2, <1>3 DEF n
<1> HIDE DEF k
<1>5. k = 0
  BY <1>4, NoPeriods
<1> QED BY <1>3, <1>5 DEF k, q, n

\* synth_loop (simulate.rs): as long as the product fits, the stamp of a chunk is that of
\* its number, to the nanosecond.
LEMMA ExactStamp ==
    ASSUME sent["audio"] \in Nat, anchor \in Nat, Product(sent["audio"]) < Wrap
    PROVE  Stamp("audio") = anchor + sent["audio"] * Period["audio"]
<1> DEFINE n == sent["audio"]  m == n * Period["audio"]  x == Product(n)
<1>1. Period["audio"] \in Nat \ {0} /\ Rate \in Nat \ {0} /\ Wrap \in Nat \ {0}
  BY ClockAssumption DEF Kind
<1>2. m \in Nat /\ x = m * Rate
  <2>1. x = m * Rate
    BY Products
  <2> QED BY <1>1, <2>1
<1>3. x \in Nat
  BY <1>1, <1>2
<1>4. Stamp("audio") = anchor + (x % Wrap) \div Rate
  BY DEF Stamp
<1> HIDE DEF m, x
<1>5. x % Wrap = x
  BY <1>1, <1>3 DEF x
<1>6. x \div Rate = m
  BY <1>1, <1>2, Divides
<1> QED BY <1>4, <1>5, <1>6 DEF m

\* What fits after a chunk was published did before.
LEMMA StillUnwrapped ==
    ASSUME NEW k \in Kind, sent[k] \in Nat, sent'[k] = sent[k] + 1, Unwrapped(k)'
    PROVE  Unwrapped(k) /\ (k = "audio" => Product(sent["audio"]) < Wrap)
<1>1. CASE k = "audio"
  <2> DEFINE n == sent["audio"]
  <2>1. n \in Nat /\ sent'["audio"] - 1 = n
    BY <1>1
  <2>2. Product(n) < Wrap
    BY <1>1, <2>1 DEF Unwrapped, Product
  <2>3. Product(n - 1) < Product(n) /\ Product(n) \in Int /\ Product(n - 1) \in Int /\ Wrap \in Nat
    <3>1. n \in Int /\ n - 1 \in Int
      BY <2>1
    <3>2. Product(n - 1) \in Int
      BY <3>1, Products, Zenon
    <3>3. Product(n) \in Int /\ Product(n - 1) < Product(n)
      BY <3>1, Products, Zenon
    <3> QED BY <3>2, <3>3, ClockAssumption
  <2>4. Product(n - 1) < Wrap
    BY <2>2, <2>3
  <2> QED BY <1>1, <2>2, <2>4 DEF Unwrapped
<1>2. CASE k # "audio"
  BY <1>2 DEF Unwrapped
<1> QED BY <1>1, <1>2

----------------------------------------------------------------------------
(* The fan-out *)

\* tx.send keeps what was there but for the oldest item of a full fan-out, and every item
\* its number.
LEMMA Published ==
    ASSUME TypeOK, NEW k \in Kind, NEW stamp \in Nat, Publishes(k, stamp)
    PROVE  /\ sent' \in [Kind -> Nat] /\ kept' \in [Kind -> Seq(Nat)]
           /\ sent'[k] = sent[k] + 1
           /\ \A j \in Kind \ {k} : sent'[j] = sent[j] /\ kept'[j] = kept[j]
           /\ Len(kept'[k]) \in 1..Capacity[k] /\ kept'[k][Len(kept'[k])] = stamp
           /\ \E drop \in {0, 1} :
                /\ Len(kept'[k]) = Len(kept[k]) + 1 - drop
                /\ \A i \in 1..Len(kept'[k]) - 1 :
                     i + drop \in 1..Len(kept[k]) /\ kept'[k][i] = kept[k][i + drop]
<1> DEFINE s == kept[k]  t == kept'[k]
<1>1. s \in Seq(Nat) /\ Len(s) \in Nat /\ Len(s) <= Capacity[k] /\ Capacity[k] \in Nat \ {0}
  BY DEF TypeOK
<1>2. /\ sent' = [sent EXCEPT ![k] = sent[k] + 1]
      /\ kept' = [kept EXCEPT ![k] =
                    IF Len(s) = Capacity[k] THEN Append(Tail(s), stamp) ELSE Append(s, stamp)]
  BY DEF Publishes
<1>3. t = IF Len(s) = Capacity[k] THEN Append(Tail(s), stamp) ELSE Append(s, stamp)
  BY <1>2 DEF TypeOK
<1> HIDE DEF s, t
<1>4. CASE Len(s) = Capacity[k]
  <2>1. /\ t \in Seq(Nat) /\ Len(t) = Len(s) /\ t[Len(t)] = stamp
        /\ \A i \in 1..Len(t) - 1 : i + 1 \in 1..Len(s) /\ t[i] = s[i + 1]
    <3>1. t = Append(Tail(s), stamp) /\ Len(s) >= 1
      BY <1>1, <1>3, <1>4
    <3>2. /\ Tail(s) \in Seq(Nat) /\ Len(Tail(s)) = Len(s) - 1
          /\ \A i \in 1..Len(s) - 1 : Tail(s)[i] = s[i + 1]
      BY <1>1, <3>1
    <3> QED BY <1>1, <3>1, <3>2
  <2> QED BY <1>1, <1>2, <1>4, <2>1 DEF TypeOK, s, t
<1>5. CASE Len(s) # Capacity[k]
  <2>0. t = Append(s, stamp)
    BY <1>3, <1>5
  <2>1. /\ t \in Seq(Nat) /\ Len(t) = Len(s) + 1 /\ t[Len(t)] = stamp
        /\ \A i \in 1..Len(t) - 1 : i + 0 \in 1..Len(s) /\ t[i] = s[i + 0]
    <3>1. t \in Seq(Nat) /\ Len(t) = Len(s) + 1 /\ t[Len(t)] = stamp
      BY <1>1, <2>0
    <3>2. ASSUME NEW i \in 1..Len(t) - 1 PROVE i \in 1..Len(s) /\ t[i] = s[i] /\ i + 0 = i
      BY <1>1, <2>0, <3>1
    <3> QED BY <3>1, <3>2
  <2>2. /\ sent' \in [Kind -> Nat] /\ sent'[k] = sent[k] + 1
        /\ \A j \in Kind \ {k} : sent'[j] = sent[j]
    BY <1>2 DEF TypeOK
  <2>3. kept' = [kept EXCEPT ![k] = t]
    BY <1>2, <1>3
  <2>4. /\ kept' \in [Kind -> Seq(Nat)] /\ \A j \in Kind \ {k} : kept'[j] = kept[j]
    BY <2>1, <2>3 DEF TypeOK
  <2>5. Len(t) \in 1..Capacity[k]
    BY <1>1, <1>5, <2>1
  <2> QED BY <2>1, <2>2, <2>4, <2>5 DEF s, t
<1> QED BY <1>4, <1>5

----------------------------------------------------------------------------
(* The pattern *)

\* Where the square moves, and how far: it always moves in a picture that has room.
LEMMA SquareMoves ==
    ASSUME NEW s \in Sizes
    PROVE  /\ s[1] \in Nat \ {0} /\ s[2] \in Nat \ {0}
           /\ Side(s) \in Nat \ {0} /\ Step(s) \in Nat \ {0}
           /\ Side(s) <= s[1] /\ Side(s) <= s[2]
           /\ s[1] > 2 => Step(s) < AtLeast1(s[1] - Side(s))
           /\ s[2] > 2 => Step(s) < AtLeast1(s[2] - Side(s))
<1>1. s[1] \in Nat \ {0} /\ s[2] \in Nat \ {0}
  OBVIOUS
<1> DEFINE w == s[1]  h == s[2]  m == Least(w, h)
<1>2. m \in Nat \ {0} /\ m <= w /\ m <= h
  BY <1>1 DEF Least
<1>3. Side(s) = AtLeast1(m \div 8)
  BY DEF Side
<1> HIDE DEF m, w, h
<1>4. /\ Side(s) \in Nat \ {0} /\ Side(s) <= m
      /\ Side(s) = 1 \/ 8 * Side(s) <= m
  BY <1>2, <1>3 DEF AtLeast1
<1>5. /\ Step(s) \in Nat \ {0} /\ Step(s) <= Side(s)
      /\ Side(s) = 1 => Step(s) = 1
  BY <1>4 DEF Step, AtLeast1
<1>6. /\ w > 2 => Step(s) < w - Side(s)
      /\ h > 2 => Step(s) < h - Side(s)
  BY <1>1, <1>2, <1>4, <1>5 DEF w, h
<1> QED BY <1>1, <1>2, <1>4, <1>5, <1>6 DEF AtLeast1, w, h

\* render_pattern (simulate.rs): every slice of every row of the square is in range, in
\* the smallest picture too.
LEMMA SquareInside ==
    ASSUME NEW s \in Sizes, NEW index \in Nat
    PROVE  LET q == Square(s, index)
           IN  q[1] < q[3] /\ q[3] <= s[1] /\ q[2] < q[4] /\ q[4] <= s[2]
<1>1. ASSUME NEW extent \in Nat \ {0}, Side(s) <= extent
      PROVE  LET x == Offset(extent, s, index)
             IN  x < Least(x + Side(s), extent) /\ Least(x + Side(s), extent) <= extent
  <2> DEFINE m == AtLeast1(extent - Side(s))  n == index * Step(s)
  <2>1. m \in Nat \ {0} /\ n \in Nat /\ Side(s) \in Nat \ {0}
    BY SquareMoves DEF AtLeast1
  <2>2. extent > Side(s) => m = extent - Side(s)
    BY <2>1 DEF AtLeast1
  <2>3. extent = Side(s) => m = 1
    BY <2>1 DEF AtLeast1
  <2>4. Offset(extent, s, index) = n % m
    BY DEF Offset
  <2> HIDE DEF m, n
  <2>5. n % m \in Nat /\ n % m < m
    BY <2>1, Quotient
  <2> DEFINE x == n % m
  <2> HIDE DEF x
  <2>6. x \in Nat /\ x < m /\ Offset(extent, s, index) = x
    BY <2>4, <2>5 DEF x
  <2> QED BY <1>1, <2>1, <2>2, <2>3, <2>6 DEF Least
<1> DEFINE q == Square(s, index)
<1>2. /\ q[1] = Offset(s[1], s, index) /\ q[2] = Offset(s[2], s, index)
      /\ q[3] = Least(Offset(s[1], s, index) + Side(s), s[1])
      /\ q[4] = Least(Offset(s[2], s, index) + Side(s), s[2])
  BY DEF Square
<1> HIDE DEF q
<1>3. q[1] < q[3] /\ q[3] <= s[1] /\ q[2] < q[4] /\ q[4] <= s[2]
  BY <1>1, <1>2, SquareMoves
<1> QED BY <1>3 DEF q

\* One more step in a cycle longer than the step ends elsewhere.
LEMMA StepsApart ==
    ASSUME NEW n \in Nat, NEW m \in Nat \ {0}, NEW step \in Nat \ {0}, step < m
    PROVE  (n + step) % m # n % m
<1> DEFINE later == n + step
           q == n \div m      r == n % m
           p == later \div m  t == later % m
<1>1. q \in Nat /\ r \in Nat /\ r < m /\ n = m * q + r
  BY Quotient
<1>2. later \in Nat
  OBVIOUS
<1> HIDE DEF later
<1>3. p \in Nat /\ t \in Nat /\ t < m /\ later = m * p + t
  BY <1>2, Quotient
<1> HIDE DEF q, r, p, t
<1>4. SUFFICES ASSUME t = r PROVE FALSE
  BY DEF later, r, t
<1> DEFINE k == p - q
<1>5. k \in Int /\ step = m * k
  BY <1>1, <1>3, <1>4 DEF later
<1> HIDE DEF k
<1>6. m * k < m /\ m * k > -m
  BY <1>5
<1>7. k = 0
  BY <1>5, <1>6, NoPeriods
<1> QED BY <1>5, <1>7

\* simulate.rs: the next frame's square is elsewhere unless there is nowhere to move.
LEMMA NextSquareDiffers ==
    ASSUME NEW s \in Sizes, NEW index \in Nat, s[1] > 2 \/ s[2] > 2
    PROVE  Square(s, index + 1) # Square(s, index)
<1>1. ASSUME NEW extent \in Nat \ {0}, Step(s) < AtLeast1(extent - Side(s))
      PROVE  Offset(extent, s, index + 1) # Offset(extent, s, index)
  <2> DEFINE m == AtLeast1(extent - Side(s))  n == index * Step(s)
  <2>1. /\ m \in Nat \ {0} /\ n \in Nat /\ Step(s) \in Nat \ {0}
        /\ (index + 1) * Step(s) = n + Step(s)
    BY SquareMoves DEF AtLeast1
  <2>2. /\ Offset(extent, s, index) = n % m
        /\ Offset(extent, s, index + 1) = (n + Step(s)) % m
    BY <2>1 DEF Offset
  <2> HIDE DEF m, n
  <2> QED BY <1>1, <2>1, <2>2, StepsApart DEF m
<1> DEFINE a == Square(s, index + 1)  b == Square(s, index)
<1>2. /\ a[1] = Offset(s[1], s, index + 1) /\ a[2] = Offset(s[2], s, index + 1)
      /\ b[1] = Offset(s[1], s, index) /\ b[2] = Offset(s[2], s, index)
  BY DEF Square
<1> HIDE DEF a, b
<1>3. a # b
  BY <1>1, <1>2, SquareMoves
<1> QED BY <1>3 DEF a, b

----------------------------------------------------------------------------
(* The invariant, action by action *)

\* What the types say of one source and its watcher.
LEMMA KindTypes ==
    ASSUME TypeOK, NEW k \in Kind
    PROVE  /\ clock \in Nat /\ Period[k] \in Nat \ {0}
           /\ begun[k] \in Int /\ begun[k] >= -1 /\ due[k] \in Nat
           /\ anchor \in Int /\ anchor >= -1
           /\ sent[k] \in Nat /\ next[k] \in Nat /\ from[k] \in Nat
           /\ kept[k] \in Seq(Nat) /\ Len(kept[k]) \in Nat /\ Len(kept[k]) <= Capacity[k]
           /\ \A i \in 1..Len(kept[k]) : kept[k][i] \in Nat
           /\ stats[k].count \in Nat /\ stats[k].lagged \in Nat /\ stats[k].last \in Int
           /\ stats[k].monotonic \in BOOLEAN
           /\ Oldest(k) = sent[k] - Len(kept[k])
<1>1. /\ clock \in Nat /\ Period[k] \in Nat \ {0} /\ begun[k] \in Int /\ begun[k] >= -1
      /\ anchor \in Int /\ anchor >= -1
  BY DEF TypeOK
<1>2. due[k] \in Nat /\ sent[k] \in Nat /\ next[k] \in Nat /\ from[k] \in Nat
  BY DEF TypeOK
<1>3. /\ kept[k] \in Seq(Nat) /\ Len(kept[k]) \in Nat /\ Len(kept[k]) <= Capacity[k]
      /\ \A i \in 1..Len(kept[k]) : kept[k][i] \in Nat
  <2>1. kept[k] \in Seq(Nat) /\ Len(kept[k]) <= Capacity[k]
    BY DEF TypeOK
  <2> QED BY <2>1
<1>4. stats[k] \in Stats
  BY DEF TypeOK
<1>5. stats[k].count \in Nat /\ stats[k].lagged \in Nat /\ stats[k].last \in Int
  BY <1>4 DEF Stats
<1>6. stats[k].monotonic \in BOOLEAN
  BY <1>4 DEF Stats
<1> QED BY <1>1, <1>2, <1>3, <1>5, <1>6 DEF Oldest

\* Every picture size has its square inside the frame to come, whichever it is.
LEMMA SquareAlwaysFits ==
    ASSUME TypeOK
    PROVE  SquareFits
<1>1. sent["video"] \in Nat
  BY KindTypes DEF Kind
<1> QED BY <1>1, SquareInside DEF SquareFits

\* A source and its watcher that a step leaves alone stay right as time goes on.
LEMMA Untouched ==
    ASSUME TypeOK, NEW k \in Kind, clock' \in Nat, clock <= clock',
           UNCHANGED <<begun[k], due[k], sent[k], kept[k], next[k], stats[k]>>
    PROVE  /\ Unwrapped(k)' = Unwrapped(k)
           /\ Increasing(k) => Increasing(k)'
           /\ Ticked(k) => Ticked(k)'
           /\ (k = "audio" => anchor' = anchor) =>
                /\ LastIsBehind(k) => LastIsBehind(k)'
                /\ k = "audio" /\ Anchored => Anchored'
                /\ k = "audio" /\ StampedByNumber => StampedByNumber'
<1>0. clock \in Nat /\ begun[k] \in Int /\ anchor \in Int
  BY KindTypes
<1>1. Ticked(k) => Ticked(k)'
  BY <1>0 DEF Ticked
<1>2. Increasing(k) => Increasing(k)'
  BY DEF Increasing
<1>3. Unwrapped(k)' = Unwrapped(k)
  BY Zenon DEF Unwrapped, Product
<1>4. SUFFICES ASSUME k = "audio" => anchor' = anchor
               PROVE  /\ LastIsBehind(k) => LastIsBehind(k)'
                      /\ k = "audio" /\ Anchored => Anchored'
                      /\ k = "audio" /\ StampedByNumber => StampedByNumber'
  BY <1>1, <1>2, <1>3, Zenon
<1>5. LastIsBehind(k) => LastIsBehind(k)'
  BY <1>4 DEF LastIsBehind, Oldest, Kind
<1>6. k = "audio" /\ Anchored => Anchored'
  BY <1>0, <1>4 DEF Anchored
<1>7. k = "audio" /\ StampedByNumber => StampedByNumber'
  BY <1>4 DEF StampedByNumber, Oldest
<1> QED BY <1>5, <1>6, <1>7

\* Sources that a step leaves alone are still as generated, if what their watchers
\* read is.
LEMMA Unmoved ==
    ASSUME TypeOK, clock' \in Nat, clock <= clock', Generated,
           UNCHANGED <<simulate, begun, anchor, due, sent, kept>>,
           \A k \in Kind : simulate /\ Unwrapped(k) => Increasing(k)' /\ LastIsBehind(k)'
    PROVE  NeverRegresses' /\ Generated'
<1>1. \A k \in Kind : Unwrapped(k)' = Unwrapped(k)
  BY Zenon DEF Unwrapped, Product
<1>2. ASSUME NEW k \in Kind PROVE Ticked(k) => Ticked(k)'
  <2>1. clock \in Nat /\ begun[k] \in Int
    BY KindTypes
  <2> QED BY <2>1 DEF Ticked
<1>3. Anchored => Anchored'
  <2>1. clock \in Nat /\ anchor \in Int
    BY KindTypes DEF Kind
  <2> QED BY <2>1 DEF Anchored
<1>4. StampedByNumber => StampedByNumber'
  BY DEF StampedByNumber, Oldest
<1> QED BY <1>1, <1>2, <1>3, <1>4 DEF NeverRegresses, Generated, Kind

\* Time passes, the probe is refused or judged: sources and watchers stay as they are.
LEMMA MainStep ==
    ASSUME ProbeInv, Passes \/ OpenFails \/ Judges \/ UNCHANGED vars
    PROVE  ProbeInv'
<1> USE DEF vars, sourceVars, watchVars
<1>1. /\ UNCHANGED <<simulate, begun, anchor, due, sent, kept>>
      /\ UNCHANGED <<from, next, watch, deadline, stats>>
  BY DEF Passes, OpenFails, Judges
<1>2. TypeOK /\ Subscribed
  BY DEF ProbeInv
<1>3. /\ clock' \in Nat /\ clock <= clock' /\ clock' <= MaxClock
      /\ deadline = -1 => clock' + Duration <= MaxClock
  <2>1. CASE Passes
    BY <1>2, <2>1 DEF Passes, TypeOK
  <2>2. CASE OpenFails \/ Judges \/ UNCHANGED vars
    BY <1>2, <2>2 DEF OpenFails, Judges, TypeOK, Subscribed
  <2> QED BY <2>1, <2>2
<1>4. TypeOK'
  <2>1. exit' \in {"none", "unopened", "empty", "regressed", "ok"}
    BY <1>2 DEF Passes, OpenFails, Judges, Verdict, TypeOK
  <2> QED BY <1>1, <1>2, <1>3, <2>1 DEF TypeOK
<1>5. Reported' /\ Subscribed'
  BY <1>1, <1>3 DEF ProbeInv, Reported, Subscribed
<1>6. NeverRegresses' /\ Generated'
  <2>1. ASSUME NEW k \in Kind, simulate, Unwrapped(k)
        PROVE  Increasing(k)' /\ LastIsBehind(k)'
    BY <1>1, <1>2, <1>3, <2>1, Untouched DEF ProbeInv, NeverRegresses, Generated
  <2> QED BY <1>1, <1>2, <1>3, <2>1, Unmoved DEF ProbeInv
<1> QED BY <1>4, <1>5, <1>6, SquareAlwaysFits, PTL DEF ProbeInv

\* A receiver that moves on, to its subscription or over a gap, keeps its last stamp
\* behind what it has yet to read.
LEMMA MovesOn ==
    ASSUME TypeOK, NEW k \in Kind, LastIsBehind(k), next'[k] \in Nat, next[k] <= next'[k],
           UNCHANGED <<anchor, due[k], sent[k], kept[k]>>, stats'[k].last = stats[k].last
    PROVE  LastIsBehind(k)'
<1> DEFINE m == next[k] * Period[k]  n == next'[k] * Period[k]
<1>1. /\ next[k] \in Nat /\ Period[k] \in Nat \ {0} /\ anchor \in Int
      /\ stats[k].last \in Int /\ Oldest(k) \in Int /\ Oldest(k)' = Oldest(k)
  BY KindTypes DEF Oldest
<1>2. m <= n /\ m \in Nat /\ n \in Nat
  BY <1>1, MorePeriods
<1>3. k = "audio" /\ anchor # -1 => stats[k].last < anchor + m
  BY DEF LastIsBehind
<1> HIDE DEF m, n
<1>4. k = "audio" /\ anchor # -1 => stats[k].last < anchor + n
  BY <1>1, <1>2, <1>3
<1> QED BY <1>1, <1>4 DEF LastIsBehind, n

\* Both watchers subscribe at the end of what was published.
LEMMA SubscribeStep ==
    ASSUME ProbeInv, Subscribes
    PROVE  ProbeInv'
<1> USE DEF sourceVars
<1>1. TypeOK /\ Subscribed /\ Reported /\ NeverRegresses /\ Generated
  BY DEF ProbeInv
<1>2. deadline = -1 /\ next = from /\ clock + Duration <= MaxClock
  BY <1>1 DEF Subscribed, Subscribes, Kind
<1>3. /\ UNCHANGED <<simulate, clock, begun, anchor, due, sent, kept, stats>>
      /\ from' = sent /\ next' = sent /\ deadline' = clock + Duration
      /\ watch' = [k \in Kind |-> "waiting"] /\ exit' = exit
  BY DEF Subscribes
<1>4. TypeOK'
  BY <1>1, <1>2, <1>3 DEF TypeOK
<1>5. Subscribed'
  BY <1>1, <1>2, <1>3 DEF Subscribed, TypeOK
<1>6. Reported'
  <2>1. ASSUME NEW k \in Kind PROVE stats[k].count + stats[k].lagged = 0
    BY <1>1, <1>2, KindTypes DEF Reported
  <2> QED BY <1>1, <1>3, <2>1, KindTypes DEF Reported
<1>7. ASSUME NEW k \in Kind, LastIsBehind(k) PROVE LastIsBehind(k)'
  BY <1>1, <1>3, <1>7, KindTypes, MovesOn DEF Reported
<1>8. NeverRegresses' /\ Generated'
  <2>1. clock' \in Nat /\ clock <= clock'
    BY <1>1, <1>3 DEF TypeOK
  <2>2. ASSUME NEW k \in Kind, simulate, Unwrapped(k)
        PROVE  Increasing(k)' /\ LastIsBehind(k)'
    BY <1>1, <1>3, <1>7, <2>2 DEF NeverRegresses, Generated, Increasing
  <2> QED BY <1>1, <1>3, <2>1, <2>2, Unmoved
<1> QED BY <1>4, <1>5, <1>6, <1>8, SquareAlwaysFits, PTL DEF ProbeInv

\* A watcher that lags goes on with the oldest item there is.
LEMMA LagStep ==
    ASSUME ProbeInv, NEW k \in Kind, Lags(k)
    PROVE  ProbeInv'
<1> USE DEF sourceVars
<1>1. TypeOK /\ Subscribed /\ Reported /\ NeverRegresses /\ Generated
  BY DEF ProbeInv
<1> DEFINE gap == Oldest(k) - next[k]
<1>2. /\ gap \in Nat /\ gap > 0 /\ Oldest(k) \in Nat
      /\ Oldest(k) = next[k] + gap /\ Oldest(k) <= sent[k]
  <2>1. /\ next[k] \in Nat /\ sent[k] \in Nat /\ Len(kept[k]) \in Nat
        /\ Oldest(k) = sent[k] - Len(kept[k])
    BY <1>1, KindTypes
  <2>2. next[k] < Oldest(k)
    BY DEF Lags
  <2> DEFINE len == Len(kept[k])  old == Oldest(k)  pos == next[k]
  <2>3. pos \in Nat /\ sent[k] \in Nat /\ len \in Nat /\ old = sent[k] - len /\ pos < old
    BY <2>1, <2>2
  <2>4. gap = old - pos
    OBVIOUS
  <2> HIDE DEF len, old, pos, gap
  <2>5. gap \in Nat /\ gap > 0 /\ old \in Nat /\ old = pos + gap /\ old <= sent[k]
    BY <2>3, <2>4
  <2> QED BY <2>5 DEF old, pos
<1>3. /\ stats' = [stats EXCEPT ![k].lagged = stats[k].lagged + gap]
      /\ next' = [next EXCEPT ![k] = Oldest(k)]
      /\ watch' = [watch EXCEPT ![k] = AfterItem]
      /\ UNCHANGED <<simulate, clock, begun, anchor, due, sent, kept, from, deadline, exit>>
      /\ watch[k] = "waiting"
  BY DEF Lags, LaggedBy, Ready
<1> HIDE DEF gap
<1>4. AfterItem \in {"waiting", "done"}
  BY DEF AfterItem
<1>5. \A j \in Kind : /\ stats'[j].count = stats[j].count /\ stats'[j].last = stats[j].last
                      /\ stats'[j].lagged = stats[j].lagged + (IF j = k THEN gap ELSE 0)
                      /\ next'[j] = IF j = k THEN Oldest(k) ELSE next[j]
  <2>1. ASSUME NEW j \in Kind
        PROVE  /\ stats'[j].count = stats[j].count /\ stats'[j].last = stats[j].last
               /\ stats'[j].lagged = IF j = k THEN stats[j].lagged + gap ELSE stats[j].lagged
    <3>1. stats[j] \in Stats /\ stats \in [Kind -> Stats]
      BY <1>1 DEF TypeOK
    <3> QED BY <1>3, <3>1 DEF Stats
  <2>2. ASSUME NEW j \in Kind PROVE next'[j] = IF j = k THEN Oldest(k) ELSE next[j]
    BY <1>1, <1>3 DEF TypeOK
  <2>3. ASSUME NEW j \in Kind PROVE stats[j].lagged \in Nat
    BY <1>1, KindTypes
  <2> QED BY <1>2, <2>1, <2>2, <2>3
<1>6. \A j \in Kind : stats'[j].monotonic = stats[j].monotonic
  BY <1>1, <1>3, Zenon DEF TypeOK, Stats
<1>7. TypeOK'
  <2>1. next' \in [Kind -> Nat] /\ watch' \in [Kind -> {"absent", "waiting", "done"}]
    BY <1>1, <1>2, <1>3, <1>4 DEF TypeOK
  <2>2. stats' \in [Kind -> Stats]
    <3>1. stats[k] \in Stats /\ stats[k].lagged \in Nat
      BY <1>1, KindTypes DEF TypeOK
    <3>2. [stats[k] EXCEPT !.lagged = stats[k].lagged + gap] \in Stats
      BY <1>2, <3>1 DEF Stats
    <3> QED BY <1>1, <1>3, <3>2 DEF TypeOK
  <2> QED BY <1>1, <1>3, <2>1, <2>2 DEF TypeOK
<1>8. Reported'
  <2>1. ASSUME NEW j \in Kind
        PROVE  /\ stats[j].count + stats[j].lagged = next[j] - from[j] /\ next[j] <= sent[j]
               /\ stats[j].count \in Nat /\ stats[j].lagged \in Nat
               /\ next[j] \in Nat /\ from[j] \in Nat
    BY <1>1, KindTypes DEF Reported
  <2>2. ASSUME NEW j \in Kind
        PROVE  stats'[j].count + stats'[j].lagged = next'[j] - from'[j] /\ next'[j] <= sent'[j]
    <3>1. UNCHANGED <<sent, from>>
      BY <1>3
    <3>2. CASE j = k
      <4>1. /\ stats'[k].count = stats[k].count /\ stats'[k].lagged = stats[k].lagged + gap
            /\ next'[k] = Oldest(k) /\ from'[k] = from[k] /\ sent'[k] = sent[k]
        BY <1>5, <3>1
      <4>2. /\ stats[k].count + stats[k].lagged = next[k] - from[k]
            /\ stats[k].count \in Nat /\ stats[k].lagged \in Nat
            /\ next[k] \in Nat /\ from[k] \in Nat
        BY <2>1
      <4>3. /\ stats'[k].count + stats'[k].lagged = next'[k] - from'[k]
            /\ next'[k] <= sent'[k]
        BY <1>2, <4>1, <4>2
      <4> QED BY <3>2, <4>3
    <3>3. CASE j # k
      BY <1>5, <2>1, <3>1, <3>3
    <3> QED BY <3>2, <3>3
  <2> QED BY <2>2 DEF Reported
<1>9. Subscribed'
  BY <1>1, <1>3, <1>4 DEF Subscribed, TypeOK
<1>10. NeverRegresses' /\ Generated'
  <2>1. ASSUME NEW j \in Kind, LastIsBehind(j) PROVE LastIsBehind(j)'
    <3>1. next'[j] \in Nat /\ next[j] <= next'[j] /\ stats'[j].last = stats[j].last
      <4>1. next[j] \in Nat
        BY <1>1, KindTypes
      <4>2. next[k] <= Oldest(k)
        BY <1>1, <1>2, KindTypes
      <4> QED BY <1>2, <1>5, <4>1, <4>2
    <3>2. UNCHANGED <<anchor, due[j], sent[j], kept[j]>>
      BY <1>3
    <3> QED BY <1>1, <2>1, <3>1, <3>2, MovesOn
  <2>2. clock' \in Nat /\ clock <= clock'
    BY <1>1, <1>3 DEF TypeOK
  <2>3. ASSUME NEW j \in Kind, simulate, Unwrapped(j)
        PROVE  Increasing(j)' /\ LastIsBehind(j)'
    BY <1>1, <1>3, <1>6, <2>1, <2>3 DEF NeverRegresses, Generated, Increasing
  <2> QED BY <1>1, <1>3, <2>2, <2>3, Unmoved
<1> QED BY <1>7, <1>8, <1>9, <1>10, SquareAlwaysFits, PTL DEF ProbeInv

\* A watcher gives up at the deadline.
LEMMA TimeOutStep ==
    ASSUME ProbeInv, NEW k \in Kind, TimesOut(k)
    PROVE  ProbeInv'
<1> USE DEF sourceVars
<1>1. TypeOK /\ Subscribed /\ Reported /\ NeverRegresses /\ Generated
  BY DEF ProbeInv
<1>2. /\ UNCHANGED <<simulate, clock, begun, anchor, due, sent, kept, from, next, deadline, stats, exit>>
      /\ watch' = [watch EXCEPT ![k] = "done"] /\ watch[k] = "waiting"
  BY DEF TimesOut
<1>3. TypeOK' /\ Subscribed'
  BY <1>1, <1>2 DEF TypeOK, Subscribed
<1>4. Reported'
  BY <1>1, <1>2 DEF Reported
<1>5. clock' \in Nat /\ clock <= clock'
  BY <1>1, <1>2 DEF TypeOK
<1>6. NeverRegresses' /\ Generated'
  <2>1. ASSUME NEW j \in Kind, simulate, Unwrapped(j)
        PROVE  Increasing(j)' /\ LastIsBehind(j)'
    BY <1>1, <1>2, <1>5, <2>1, Untouched DEF NeverRegresses, Generated
  <2> QED BY <1>1, <1>2, <1>5, <2>1, Unmoved
<1> QED BY <1>3, <1>4, <1>6, SquareAlwaysFits, PTL DEF ProbeInv

\* A watcher counts the next item: on a simulated source it is later than the last one.
LEMMA CountStep ==
    ASSUME ProbeInv, NEW k \in Kind, Counts(k)
    PROVE  ProbeInv'
<1> USE DEF sourceVars
<1>1. TypeOK /\ Subscribed /\ Reported /\ NeverRegresses /\ Generated
  BY DEF ProbeInv
<1> DEFINE at == next[k] - Oldest(k) + 1
           stamp == kept[k][at]
           mono == stats[k].monotonic /\ stamp > stats[k].last
           new == [count |-> stats[k].count + 1, lagged |-> stats[k].lagged,
                   monotonic |-> mono, last |-> stamp]
<1>2. /\ at \in 1..Len(kept[k]) /\ stamp \in Nat /\ Oldest(k) + at = next[k] + 1
      /\ next[k] + 1 <= sent[k] /\ next[k] \in Nat /\ Oldest(k) \in Int
  <2>1. /\ next[k] \in Nat /\ sent[k] \in Nat /\ Len(kept[k]) \in Nat
        /\ Oldest(k) = sent[k] - Len(kept[k])
        /\ \A i \in 1..Len(kept[k]) : kept[k][i] \in Nat
    BY <1>1, KindTypes
  <2>2. next[k] < sent[k] /\ next[k] >= Oldest(k)
    BY DEF Counts, Ready
  <2> DEFINE len == Len(kept[k])  old == Oldest(k)  pos == next[k]
  <2>3. /\ at = pos - old + 1 /\ pos \in Nat /\ sent[k] \in Nat /\ len \in Nat
        /\ old = sent[k] - len /\ pos < sent[k] /\ pos >= old
    BY <2>1, <2>2
  <2> HIDE DEF len, old, pos, at
  <2>4. at \in 1..len /\ old + at = pos + 1 /\ pos + 1 <= sent[k] /\ old \in Int
    BY <2>3
  <2>5. kept[k][at] \in Nat
    BY <2>1, <2>4 DEF len
  <2> QED BY <2>3, <2>4, <2>5 DEF len, old, pos
<1>3. /\ stats' = [stats EXCEPT ![k] = new]
      /\ next' = [next EXCEPT ![k] = next[k] + 1]
      /\ watch' = [watch EXCEPT ![k] = AfterItem] /\ watch[k] = "waiting"
      /\ UNCHANGED <<simulate, clock, begun, anchor, due, sent, kept, from, deadline, exit>>
  BY DEF Counts, Ready
<1> HIDE DEF at, stamp, mono
<1>4. stats'[k] = new /\ \A j \in Kind \ {k} : stats'[j] = stats[j] /\ next'[j] = next[j]
  BY <1>1, <1>3 DEF TypeOK
<1>5. next'[k] = next[k] + 1 /\ AfterItem \in {"waiting", "done"}
  BY <1>1, <1>3 DEF TypeOK, AfterItem
<1>6. TypeOK'
  <2>1. mono \in BOOLEAN
    BY DEF mono
  <2>2. new \in Stats
    <3>1. stats[k].count \in Nat /\ stats[k].lagged \in Nat
      BY <1>1, KindTypes
    <3> QED BY <1>2, <2>1, <3>1 DEF Stats
  <2>3. stats' \in [Kind -> Stats]
    BY <1>1, <1>3, <2>2 DEF TypeOK
  <2>4. next' \in [Kind -> Nat]
    <3>1. next' = [next EXCEPT ![k] = next[k] + 1] /\ next \in [Kind -> Nat]
      BY <1>1, <1>3 DEF TypeOK
    <3> QED BY <3>1
  <2>5. watch' \in [Kind -> {"absent", "waiting", "done"}]
    BY <1>1, <1>3, <1>5 DEF TypeOK
  <2> QED BY <1>1, <1>3, <2>3, <2>4, <2>5 DEF TypeOK
<1>7. Subscribed'
  BY <1>1, <1>3, <1>5 DEF Subscribed, TypeOK
<1>8. stats'[k].count = stats[k].count + 1 /\ stats'[k].lagged = stats[k].lagged
      /\ stats'[k].last = stamp /\ stats'[k].monotonic = mono
  BY <1>4
<1>9. Reported'
  <2>1. ASSUME NEW j \in Kind
        PROVE  /\ stats[j].count + stats[j].lagged = next[j] - from[j] /\ next[j] <= sent[j]
               /\ stats[j].count \in Nat /\ stats[j].lagged \in Nat
               /\ next[j] \in Nat /\ from[j] \in Nat
    BY <1>1, KindTypes DEF Reported
  <2>2. ASSUME NEW j \in Kind
        PROVE  stats'[j].count + stats'[j].lagged = next'[j] - from'[j] /\ next'[j] <= sent'[j]
    <3>1. UNCHANGED <<sent, from>>
      BY <1>3
    <3>2. CASE j = k
      <4>1. stats[k].count + stats[k].lagged = next[k] - from[k]
            /\ stats[k].count \in Nat /\ stats[k].lagged \in Nat
            /\ next[k] \in Nat /\ from[k] \in Nat
        BY <2>1
      <4>2. stats'[k].count + stats'[k].lagged = next'[k] - from[k]
        BY <1>5, <1>8, <4>1
      <4> QED BY <1>2, <1>5, <3>1, <3>2, <4>2
    <3>3. CASE j # k
      BY <1>4, <2>1, <3>1, <3>3
    <3> QED BY <3>2, <3>3
  <2> QED BY <2>2 DEF Reported
<1>10. clock' \in Nat /\ clock <= clock'
  BY <1>1, <1>3 DEF TypeOK
<1>11. ASSUME NEW j \in Kind, j # k
       PROVE  /\ Increasing(j) => Increasing(j)'
              /\ LastIsBehind(j) => LastIsBehind(j)'
  BY <1>1, <1>3, <1>4, <1>10, <1>11, Untouched
<1>12. ASSUME simulate, Unwrapped(k)
       PROVE  Increasing(k)' /\ LastIsBehind(k)'
  <2>1. /\ Increasing(k) /\ LastIsBehind(k) /\ Anchored
        /\ k = "audio" => StampedByNumber
    BY <1>1, <1>12 DEF Generated, NeverRegresses
  <2>3. stats[k].last < stamp
    BY <1>2, <2>1 DEF LastIsBehind, stamp
  <2>4. Increasing(k)'
    <3>1. mono
      BY <1>2, <1>1, <2>1, <2>3, KindTypes DEF Increasing, mono
    <3> QED BY <1>3, <1>8, <2>1, <3>1 DEF Increasing
  <2>5. LastIsBehind(k)'
    <3>1. k = "video" => stamp < due[k]
      BY <1>2, <2>1 DEF LastIsBehind, stamp
    <3>2. k = "audio" => anchor # -1
      BY <1>1, <1>2, <2>1, KindTypes DEF Anchored
    <3>3. k = "audio" => stamp < anchor + (next[k] + 1) * Period[k]
      <4>1. /\ next[k] \in Nat /\ Period[k] \in Nat \ {0} /\ anchor \in Int
            /\ Oldest(k) + at - 1 = next[k]
        <5>1. at \in Int
          BY <1>1, <1>2, KindTypes
        <5>2. Oldest(k) + at - 1 = next[k]
          BY <1>2, <5>1
        <5> QED BY <1>1, <5>2, KindTypes
      <4>2. k = "audio" => stamp = anchor + next[k] * Period[k]
        BY <1>2, <2>1, <4>1 DEF StampedByNumber, stamp
      <4>3. (next[k] + 1) * Period[k] = next[k] * Period[k] + Period[k]
        BY <4>1
      <4>4. next[k] * Period[k] \in Nat
        BY <4>1
      <4> QED BY <4>1, <4>2, <4>3, <4>4
    <3>4. \A i \in 1..Len(kept[k]) : Oldest(k) + i > next[k] + 1 => stamp < kept[k][i]
      <4>1. ASSUME NEW i \in 1..Len(kept[k]), Oldest(k) + i > next[k] + 1 PROVE at < i
        BY <1>2, <4>1
      <4> QED BY <1>2, <2>1, <4>1 DEF Increasing, stamp
    <3>5. k = "video" => \A i \in 1..Len(kept[k]) : kept[k][i] < due[k]
      BY <2>1 DEF LastIsBehind
    <3>6. /\ stats'[k].last = stamp /\ next'[k] = next[k] + 1 /\ Oldest(k)' = Oldest(k)
          /\ UNCHANGED <<kept, due, anchor>>
      BY <1>3, <1>5, <1>8 DEF Oldest
    <3> HIDE DEF new
    <3> QED BY <3>1, <3>2, <3>3, <3>4, <3>5, <3>6 DEF LastIsBehind
  <2> QED BY <2>4, <2>5
<1>13. NeverRegresses' /\ Generated'
  <2>1. ASSUME NEW j \in Kind, simulate, Unwrapped(j)
        PROVE  Increasing(j)' /\ LastIsBehind(j)'
    BY <1>1, <1>11, <1>12, <2>1 DEF NeverRegresses, Generated
  <2> QED BY <1>1, <1>3, <1>10, <2>1, Unmoved
<1> QED BY <1>6, <1>7, <1>9, <1>13, SquareAlwaysFits, PTL DEF ProbeInv

\* A generator task runs for the first time and starts its ticker.
LEMMA BeginStep ==
    ASSUME ProbeInv, NEW k \in Kind, StartsTicker(k)
    PROVE  ProbeInv'
<1> USE DEF watchVars
<1>1. TypeOK /\ Subscribed /\ Reported /\ NeverRegresses /\ Generated
  BY DEF ProbeInv
<1>2. /\ UNCHANGED <<clock, sent, kept, from, next, watch, deadline, stats, exit>>
      /\ UNCHANGED <<simulate, anchor>>
      /\ begun' = [begun EXCEPT ![k] = clock] /\ due' = [due EXCEPT ![k] = clock]
      /\ simulate /\ begun[k] = -1
  BY DEF StartsTicker
<1>3. TypeOK'
  <2>1. begun' \in [Kind -> -1..MaxClock] /\ due' \in [Kind -> Nat]
    BY <1>1, <1>2 DEF TypeOK
  <2> QED BY <1>1, <1>2, <2>1 DEF TypeOK
<1>4. Reported' /\ Subscribed'
  BY <1>1, <1>2 DEF Reported, Subscribed
<1>5. /\ begun'[k] = clock /\ due'[k] = clock /\ clock \in Nat /\ clock' = clock
      /\ \A j \in Kind \ {k} : begun'[j] = begun[j] /\ due'[j] = due[j]
  BY <1>1, <1>2 DEF TypeOK
<1>6. /\ Anchored /\ \A j \in Kind : Ticked(j)
      /\ Unwrapped("audio") => StampedByNumber
      /\ \A j \in Kind : Unwrapped(j) => Increasing(j) /\ LastIsBehind(j)
  BY <1>1, <1>2 DEF NeverRegresses, Generated
<1>7. sent[k] = 0 /\ kept[k] = <<>> /\ due[k] = 0 /\ Len(kept[k]) = 0
  BY <1>2, <1>6 DEF Ticked
<1>8. \A j \in Kind : Unwrapped(j)' = Unwrapped(j)
  BY <1>2, Zenon DEF Unwrapped, Product
<1>9. \A j \in Kind : Increasing(j) => Increasing(j)'
  BY <1>2 DEF Increasing
<1>10. StampedByNumber => StampedByNumber'
  BY <1>2 DEF StampedByNumber, Oldest
<1>11. Anchored'
  BY <1>2, <1>5, <1>6, Zenon DEF Anchored, Kind
<1>12. ASSUME NEW j \in Kind PROVE Ticked(j)'
  <2>1. CASE j = k
    <3>1. 0 \in 0..due'[k] /\ due'[k] = begun'[k] + 0 * Period[k] /\ sent'[k] <= 0
      BY <1>1, <1>2, <1>5, <1>7, KindTypes
    <3>2. begun'[k] <= clock' /\ begun'[k] # -1
      BY <1>5
    <3> QED BY <2>1, <3>1, <3>2 DEF Ticked
  <2>2. CASE j # k
    BY <1>2, <1>5, <1>6, <2>2 DEF Ticked
  <2> QED BY <2>1, <2>2
<1>13. ASSUME NEW j \in Kind, Unwrapped(j) PROVE LastIsBehind(j)'
  <2>1. LastIsBehind(j) /\ stats[j].last \in Int /\ due[j] \in Nat
    BY <1>1, <1>6, <1>13, KindTypes
  <2>2. due[j] <= due'[j]
    BY <1>5, <1>7, <2>1
  <2>3. \A i \in 1..Len(kept[j]) : kept[j][i] \in Nat
    BY <1>1, KindTypes
  <2>4. due'[j] \in Nat
    BY <1>5, <2>1
  <2> QED BY <1>2, <2>1, <2>2, <2>3, <2>4 DEF LastIsBehind, Oldest
<1>14. NeverRegresses' /\ Generated'
  BY <1>2, <1>6, <1>8, <1>9, <1>10, <1>11, <1>12, <1>13, Zenon
     DEF NeverRegresses, Generated, Kind
<1> QED BY <1>3, <1>4, <1>14, SquareAlwaysFits, PTL DEF ProbeInv

\* The audio generator reads its anchor, some time after its ticker started.
LEMMA AnchorStep ==
    ASSUME ProbeInv, Anchors
    PROVE  ProbeInv'
<1> USE DEF watchVars
<1>1. TypeOK /\ Subscribed /\ Reported /\ NeverRegresses /\ Generated
  BY DEF ProbeInv
<1>2. /\ UNCHANGED <<clock, sent, kept, from, next, watch, deadline, stats, exit>>
      /\ UNCHANGED <<simulate, begun, due>>
      /\ anchor' = clock /\ anchor = -1 /\ begun["audio"] # -1
  BY DEF Anchors
<1>3. clock \in 0..MaxClock /\ clock \in Nat
  BY <1>1 DEF TypeOK
<1>4. TypeOK'
  BY <1>1, <1>2, <1>3 DEF TypeOK
<1>5. Reported' /\ Subscribed'
  BY <1>1, <1>2 DEF Reported, Subscribed
<1>6. ASSUME simulate
      PROVE  /\ Anchored /\ \A j \in Kind : Ticked(j)
             /\ \A j \in Kind : Unwrapped(j) => Increasing(j) /\ LastIsBehind(j)
  BY <1>1, <1>6 DEF NeverRegresses, Generated
<1>7. \A j \in Kind : Unwrapped(j)' = Unwrapped(j)
  BY <1>2, Zenon DEF Unwrapped, Product
<1>8. \A j \in Kind : (Increasing(j) => Increasing(j)') /\ (Ticked(j) => Ticked(j)')
  BY <1>2 DEF Increasing, Ticked
<1>9. ASSUME simulate PROVE StampedByNumber' /\ Anchored'
  <2>1. sent["audio"] = 0 /\ kept["audio"] = <<>> /\ Len(kept["audio"]) = 0
    BY <1>2, <1>6, <1>9 DEF Anchored
  <2>2. begun["audio"] <= clock
    BY <1>2, <1>6, <1>9 DEF Ticked, Kind
  <2>3. StampedByNumber'
    BY <1>2, <2>1 DEF StampedByNumber
  <2>4. Anchored'
    BY <1>2, <1>3, <2>2 DEF Anchored
  <2> QED BY <2>3, <2>4
<1>10. ASSUME NEW j \in Kind, simulate, Unwrapped(j) PROVE LastIsBehind(j)'
  <2>1. LastIsBehind(j)
    BY <1>6, <1>10
  <2>2. next[j] \in Nat /\ next[j] * Period[j] \in Nat
    BY <1>1, KindTypes
  <2>3. j = "audio" => stats[j].last = -1
    BY <1>2, <2>1 DEF LastIsBehind
  <2>4. j = "audio" => stats[j].last < clock + next[j] * Period[j]
    BY <1>3, <2>2, <2>3
  <2>5. anchor' # -1
    BY <1>2, <1>3
  <2> QED BY <1>2, <2>1, <2>4, <2>5 DEF LastIsBehind, Oldest
<1>11. NeverRegresses' /\ Generated'
  BY <1>2, <1>6, <1>7, <1>8, <1>9, <1>10, Zenon DEF NeverRegresses, Generated
<1> QED BY <1>4, <1>5, <1>11, SquareAlwaysFits, PTL DEF ProbeInv

\* What publishing one item changes of the types, the reports and the subscriptions.
LEMMA PublishStep ==
    ASSUME ProbeInv, NEW k \in Kind, NEW stamp \in Nat, Publishes(k, stamp),
           UNCHANGED <<simulate, clock, begun, anchor, watchVars, exit>>, due' \in [Kind -> Nat]
    PROVE  TypeOK' /\ Reported' /\ Subscribed'
<1> USE DEF watchVars
<1>1. TypeOK /\ Subscribed /\ Reported
  BY DEF ProbeInv
<1>2. /\ sent' \in [Kind -> Nat] /\ kept' \in [Kind -> Seq(Nat)]
      /\ sent'[k] = sent[k] + 1 /\ Len(kept'[k]) <= Capacity[k]
      /\ \A j \in Kind \ {k} : sent'[j] = sent[j] /\ kept'[j] = kept[j]
  BY <1>1, Published
<1>3. TypeOK'
  BY <1>1, <1>2 DEF TypeOK
<1>4. Reported'
  <2>1. \A j \in Kind : /\ sent[j] <= sent'[j] /\ sent[j] \in Nat
                         /\ sent'[j] \in Nat /\ next[j] \in Nat
    <3>1. ASSUME NEW j \in Kind PROVE sent[j] \in Nat /\ next[j] \in Nat
      BY <1>1, KindTypes
    <3>2. ASSUME NEW j \in Kind PROVE sent'[j] = sent[j] + 1 \/ sent'[j] = sent[j]
      BY <1>2
    <3> QED BY <3>1, <3>2
  <2>2. UNCHANGED <<stats, next, from>>
    OBVIOUS
  <2> QED BY <1>1, <2>1, <2>2 DEF Reported
<1> QED BY <1>1, <1>3, <1>4 DEF Subscribed

\* A camera or a microphone publishes, with whatever stamp.
LEMMA CaptureStep ==
    ASSUME ProbeInv, NEW k \in Kind, Captures(k)
    PROVE  ProbeInv'
<1>1. PICK stamp \in Nat : Publishes(k, stamp)
  BY DEF Captures, ProbeInv, TypeOK
<1>2. UNCHANGED <<simulate, clock, begun, anchor, watchVars, exit>> /\ due' = due /\ ~simulate
  BY DEF Captures
<1>3. TypeOK' /\ Reported' /\ Subscribed'
  BY <1>1, <1>2, PublishStep DEF ProbeInv, TypeOK
<1>4. NeverRegresses' /\ Generated'
  BY <1>2 DEF NeverRegresses, Generated
<1> QED BY <1>3, <1>4, SquareAlwaysFits, PTL DEF ProbeInv

\* A generator publishes at a tick, however late it comes: as long as the product fits,
\* its stamp is later than those before it.
LEMMA TickStep ==
    ASSUME ProbeInv, NEW k \in Kind, Ticks(k)
    PROVE  ProbeInv'
<1> USE DEF watchVars
<1>1. TypeOK /\ Subscribed /\ Reported /\ NeverRegresses /\ Generated
  BY DEF ProbeInv
<1>2. /\ UNCHANGED <<clock, begun, anchor, from, next, watch, deadline, stats, exit>>
      /\ due' = [due EXCEPT ![k] = NextDue(k)] /\ Publishes(k, Stamp(k))
      /\ simulate /\ simulate' = simulate
      /\ begun[k] # -1 /\ (k = "audio" => anchor # -1) /\ clock >= due[k]
  BY DEF Ticks
<1> DEFINE stamp == Stamp(k)
<1>3. Ticked(k) /\ Anchored
  BY <1>1, <1>2 DEF Generated
<1>4. /\ clock \in Nat /\ begun[k] \in Nat /\ anchor \in Int /\ due[k] \in Nat
      /\ Period[k] \in Nat \ {0} /\ k = "audio" => anchor \in Nat
      /\ sent[k] \in Nat /\ next[k] \in Nat /\ next[k] <= sent[k]
      /\ Len(kept[k]) \in Nat /\ Oldest(k) = sent[k] - Len(kept[k])
      /\ stats[k].last \in Int
      /\ \A i \in 1..Len(kept[k]) : kept[k][i] \in Nat
  BY <1>1, <1>2, KindTypes DEF Reported
<1>5. PICK d \in Nat : due[k] = begun[k] + d * Period[k] /\ sent[k] <= d
  BY <1>2, <1>3 DEF Ticked
<1>6. /\ NextDue(k) \in Nat /\ clock < NextDue(k)
      /\ \E e \in Nat : e > d /\ NextDue(k) = begun[k] + e * Period[k]
  <2>1. begun[k] <= clock
    BY <1>2, <1>3 DEF Ticked
  <2> QED BY <1>2, <1>4, <1>5, <2>1, NextTick
<1>7. PICK e \in Nat : e > d /\ NextDue(k) = begun[k] + e * Period[k]
  BY <1>6
<1>8. stamp \in Nat
  <2>1. CASE k = "video"
    BY <1>4, <2>1 DEF Stamp
  <2>2. CASE k = "audio"
    <3> DEFINE x == Product(sent["audio"])  y == x % Wrap  z == y \div Rate
    <3>1. stamp = anchor + z /\ anchor \in Nat /\ Wrap \in Nat \ {0} /\ Rate \in Nat \ {0}
      BY <1>4, <2>2, ClockAssumption DEF Stamp
    <3>2. x \in Nat
      <4>1. sent["audio"] \in Nat /\ ChunkFrames * Nanos \in Nat
        BY <1>4, <2>2, ClockAssumption
      <4> QED BY <4>1 DEF Product
    <3> HIDE DEF x, stamp
    <3>3. y \in Nat
      BY <3>1, <3>2, Quotient
    <3> HIDE DEF y
    <3>4. z \in Nat
      BY <3>1, <3>3, Quotient
    <3> HIDE DEF z
    <3> QED BY <3>1, <3>4
  <2> QED BY <2>1, <2>2 DEF Kind
<1> HIDE DEF stamp
<1>9. /\ sent'[k] = sent[k] + 1
      /\ \A j \in Kind \ {k} : sent'[j] = sent[j] /\ kept'[j] = kept[j]
      /\ Len(kept'[k]) \in 1..Capacity[k] /\ kept'[k][Len(kept'[k])] = stamp
  BY <1>1, <1>2, <1>8, Published DEF stamp
<1>10. PICK drop \in {0, 1} :
         /\ Len(kept'[k]) = Len(kept[k]) + 1 - drop
         /\ \A i \in 1..Len(kept'[k]) - 1 :
              i + drop \in 1..Len(kept[k]) /\ kept'[k][i] = kept[k][i + drop]
  BY <1>1, <1>2, <1>8, Published DEF stamp
<1>11. TypeOK' /\ Reported' /\ Subscribed'
  <2>1. due' \in [Kind -> Nat]
    BY <1>1, <1>2, <1>6 DEF TypeOK
  <2> QED BY <1>2, <1>8, <2>1, PublishStep DEF stamp
<1>12. Oldest(k)' = Oldest(k) + drop /\ Len(kept'[k]) \in Nat /\ Len(kept'[k]) >= 1
       /\ due'[k] = NextDue(k)
  <2>1. due'[k] = NextDue(k)
    BY <1>1, <1>2 DEF TypeOK
  <2>2. Oldest(k)' = sent'[k] - Len(kept'[k])
    BY DEF Oldest
  <2>3. Len(kept'[k]) \in Nat /\ Len(kept'[k]) >= 1
    BY <1>4, <1>9
  <2> QED BY <1>4, <1>9, <1>10, <2>1, <2>2, <2>3
<1> DEFINE old == kept[k]  new == kept'[k]  next1 == NextDue(k)
<1>13. \A i \in 1..Len(new) : i = Len(new) \/ (i + drop \in 1..Len(old) /\ new[i] = old[i + drop])
  <2>1. \A i \in 1..Len(new) - 1 : i + drop \in 1..Len(old) /\ new[i] = old[i + drop]
    BY <1>10
  <2> HIDE DEF old, new
  <2> QED BY <1>12, <2>1
<1>14. Ticked(k)'
  <2>1. e \in Nat /\ NextDue(k) = begun[k] + e * Period[k] /\ sent'[k] <= e
    BY <1>4, <1>5, <1>7, <1>9
  <2>2. e * 1 <= e * Period[k]
    <3>1. (Period[k] - 1) * e >= 0
      BY <1>4
    <3>2. (Period[k] - 1) * e = e * Period[k] - e
      BY <1>4
    <3> QED BY <3>1, <3>2
  <2>3. e \in 0..due'[k]
    BY <1>4, <1>12, <2>1, <2>2
  <2>4. begun'[k] = begun[k] /\ begun[k] # -1 /\ begun[k] <= clock /\ clock' = clock
    BY <1>2, <1>3 DEF Ticked
  <2> QED BY <1>12, <2>1, <2>3, <2>4 DEF Ticked
<1>15. k = "audio" => Anchored'
  BY <1>2, <1>3 DEF Anchored
\* What was read and what is kept stays in order, as long as the product fits.
<1>16. ASSUME Unwrapped(k)'
       PROVE  Increasing(k)' /\ LastIsBehind(k)' /\ (k = "audio" => StampedByNumber')
  <2>1. Unwrapped(k) /\ (k = "audio" => Product(sent["audio"]) < Wrap)
    BY <1>4, <1>9, <1>16, StillUnwrapped
  <2>2. Increasing(k) /\ LastIsBehind(k) /\ (k = "audio" => StampedByNumber)
    BY <1>1, <1>2, <2>1 DEF Generated, NeverRegresses
  \* The stamp: not before this tick for a frame, that of its number for a chunk.
  <2>3. /\ \A i \in 1..Len(kept[k]) : kept[k][i] < stamp
        /\ stats[k].last < stamp
        /\ k = "video" => stamp < NextDue(k)
        /\ k = "audio" => stamp = anchor + sent[k] * Period[k]
    <3>1. CASE k = "video"
      <4>1. stamp = clock
        BY <3>1 DEF Stamp, stamp
      <4>2. clock \in Nat /\ due[k] \in Nat /\ due[k] <= clock /\ clock < NextDue(k)
        BY <1>2, <1>4, <1>6
      <4>3. stats[k].last < due[k] /\ stats[k].last \in Int
        BY <1>4, <2>2, <3>1 DEF LastIsBehind
      <4>4. ASSUME NEW i \in 1..Len(kept[k]) PROVE kept[k][i] < clock
        <5>1. kept[k][i] < due[k] /\ kept[k][i] \in Nat
          BY <1>4, <2>2, <3>1 DEF LastIsBehind
        <5> QED BY <4>2, <5>1
      <4>5. k # "audio"
        BY <3>1
      <4> QED BY <4>1, <4>2, <4>3, <4>4, <4>5
    <3>2. CASE k = "audio"
      <4> DEFINE p == Period[k]
      <4>1. /\ p \in Nat \ {0} /\ sent[k] \in Nat /\ sent[k] \in Int /\ anchor \in Nat
            /\ next[k] \in Nat /\ next[k] <= sent[k] /\ stats[k].last \in Int
        BY <1>4, <3>2
      <4>2. stamp = anchor + sent[k] * p
        BY <2>1, <3>2, <4>1, ExactStamp DEF stamp
      <4> HIDE DEF p
      <4>3. sent[k] * p \in Nat
        BY <4>1
      <4>4. ASSUME NEW i \in 1..Len(kept[k]) PROVE kept[k][i] < stamp
        <5> DEFINE n == Oldest(k) + i - 1
        <5>1. n \in Int /\ n < sent[k]
          BY <1>4
        <5>2. kept[k][i] = anchor + n * p
          BY <2>2, <3>2 DEF StampedByNumber, p
        <5> HIDE DEF n
        <5>3. n * p + p <= sent[k] * p /\ n * p \in Int
          BY <4>1, <5>1, OnePeriodMore, Zenon
        <5> DEFINE np == n * p  sp == sent[k] * p
        <5>4. /\ kept[k][i] = anchor + np /\ stamp = anchor + sp
              /\ np + p <= sp /\ np \in Int /\ sp \in Nat
          BY <4>2, <4>3, <5>2, <5>3
        <5> HIDE DEF np, sp
        <5> QED BY <4>1, <5>4
      <4>5. stats[k].last < stamp
        <5>1. next[k] * p <= sent[k] * p /\ next[k] * p \in Nat
          BY <4>1, MorePeriods
        <5>2. stats[k].last < anchor + next[k] * p
          BY <1>2, <2>2, <3>2 DEF LastIsBehind, p
        <5> DEFINE np == next[k] * p  sp == sent[k] * p
        <5>3. /\ stamp = anchor + sp /\ stats[k].last < anchor + np
              /\ np <= sp /\ np \in Nat /\ sp \in Nat
          BY <4>2, <4>3, <5>1, <5>2
        <5> HIDE DEF np, sp
        <5> QED BY <4>1, <5>3
      <4>6. k # "video"
        BY <3>2
      <4> QED BY <4>2, <4>4, <4>5, <4>6 DEF p
    <3> QED BY <3>1, <3>2 DEF Kind
  <2>4. /\ Len(old) \in Nat /\ Len(new) \in Nat /\ Len(new) >= 1 /\ new[Len(new)] = stamp
        /\ Len(new) = Len(old) + 1 - drop /\ stamp \in Nat
        /\ \A i \in 1..Len(old) : old[i] \in Nat /\ old[i] < stamp
    BY <1>4, <1>8, <1>9, <1>10, <1>12, <2>3
  <2>5. Increasing(k)'
    <3>1. \A i, j \in 1..Len(old) : i < j => old[i] < old[j]
      BY <2>2 DEF Increasing
    <3> HIDE DEF old, new
    <3>2. ASSUME NEW i \in 1..Len(new), NEW j \in 1..Len(new), i < j PROVE new[i] < new[j]
      <4>1. i + drop \in 1..Len(old) /\ new[i] = old[i + drop]
        BY <1>13, <2>4, <3>2
      <4>2. CASE j = Len(new)
        BY <2>4, <4>1, <4>2
      <4>3. CASE j # Len(new)
        <5>1. j + drop \in 1..Len(old) /\ new[j] = old[j + drop]
          BY <1>13, <4>3
        <5>2. i + drop < j + drop
          BY <3>2
        <5> QED BY <3>1, <4>1, <5>1, <5>2
      <4> QED BY <4>2, <4>3
    <3>3. stats'[k].monotonic
      BY <1>2, <2>2 DEF Increasing
    <3> QED BY <3>2, <3>3 DEF Increasing, new
  <2>6. LastIsBehind(k)'
    <3>1. k = "video" => stats'[k].last < due'[k]
      BY <1>2, <1>4, <1>6, <1>8, <1>12, <2>3
    <3>2. k = "audio" => anchor' # -1 /\ stats'[k].last < anchor' + next'[k] * Period[k]
      BY <1>2, <2>2 DEF LastIsBehind
    <3>3. \A i \in 1..Len(old) : Oldest(k) + i > next[k] => stats[k].last < old[i]
      BY <2>2 DEF LastIsBehind
    <3>4. Oldest(k) \in Int /\ next[k] \in Nat
      BY <1>4
    <3> HIDE DEF old, new
    <3>5. ASSUME NEW i \in 1..Len(new), Oldest(k) + drop + i > next[k]
          PROVE  stats[k].last < new[i]
      <4>1. CASE i = Len(new)
        BY <2>3, <2>4, <4>1
      <4>2. CASE i # Len(new)
        <5>1. i + drop \in 1..Len(old) /\ new[i] = old[i + drop]
          BY <1>13, <4>2
        <5>2. Oldest(k) + (i + drop) > next[k]
          BY <3>4, <3>5
        <5> QED BY <3>3, <5>1, <5>2
      <4> QED BY <4>1, <4>2
    <3>6. ASSUME k = "video", NEW i \in 1..Len(new) PROVE new[i] < next1
      <4>1. new[i] \in Nat /\ new[i] <= stamp
        <5>1. CASE i = Len(new)
          BY <2>4, <5>1
        <5>2. CASE i # Len(new)
          <6>1. i + drop \in 1..Len(old) /\ new[i] = old[i + drop]
            BY <1>13, <5>2
          <6>2. old[i + drop] \in Nat /\ old[i + drop] < stamp
            BY <2>4, <6>1
          <6> QED BY <2>4, <6>1, <6>2
        <5> QED BY <5>1, <5>2
      <4>2. next1 \in Nat /\ stamp < next1 /\ stamp \in Nat
        BY <1>6, <1>8, <2>3, <3>6
      <4> HIDE DEF next1
      <4> QED BY <4>1, <4>2
    <3>7. UNCHANGED <<stats, next>> /\ Oldest(k)' = Oldest(k) + drop /\ due'[k] = next1
      BY <1>2, <1>12
    <3> HIDE DEF next1
    <3> QED BY <3>1, <3>2, <3>5, <3>6, <3>7 DEF LastIsBehind, new
  <2>7. k = "audio" => StampedByNumber'
    <3>1. SUFFICES ASSUME k = "audio" PROVE StampedByNumber'
      OBVIOUS
    <3>2. \A i \in 1..Len(old) : old[i] = anchor + (Oldest(k) + i - 1) * Period[k]
      BY <2>2, <3>1 DEF StampedByNumber
    <3>3. stamp = anchor + sent[k] * Period[k]
      BY <2>3, <3>1
    <3>4. Oldest(k) \in Int /\ sent[k] \in Nat /\ Oldest(k) = sent[k] - Len(old)
      BY <1>4
    <3> HIDE DEF old, new
    <3>5. ASSUME NEW i \in 1..Len(new)
          PROVE  new[i] = anchor + (Oldest(k) + drop + i - 1) * Period[k]
      <4>1. CASE i = Len(new)
        <5>1. Oldest(k) + drop + i - 1 = sent[k]
          BY <2>4, <3>4, <4>1
        <5> QED BY <2>4, <3>3, <4>1, <5>1
      <4>2. CASE i # Len(new)
        <5>1. i + drop \in 1..Len(old) /\ new[i] = old[i + drop]
          BY <1>13, <4>2
        <5>2. Oldest(k) + drop + i - 1 = Oldest(k) + (i + drop) - 1
          BY <3>4
        <5> QED BY <3>2, <5>1, <5>2
      <4> QED BY <4>1, <4>2
    <3>6. UNCHANGED anchor /\ Oldest(k)' = Oldest(k) + drop
      BY <1>2, <1>12
    <3> QED BY <3>1, <3>5, <3>6 DEF StampedByNumber, new
  <2> QED BY <2>5, <2>6, <2>7
<1>17. ASSUME NEW j \in Kind, j # k
       PROVE  /\ Unwrapped(j)' = Unwrapped(j)
              /\ Increasing(j) => Increasing(j)'
              /\ Ticked(j) => Ticked(j)'
              /\ LastIsBehind(j) => LastIsBehind(j)'
              /\ j = "audio" /\ Anchored => Anchored'
              /\ j = "audio" /\ StampedByNumber => StampedByNumber'
  <2>1. due'[j] = due[j]
    BY <1>1, <1>2, <1>17 DEF TypeOK
  <2> QED BY <1>1, <1>2, <1>4, <1>9, <1>17, <2>1, Untouched
<1>18. NeverRegresses' /\ Generated'
  BY <1>1, <1>2, <1>14, <1>15, <1>16, <1>17 DEF NeverRegresses, Generated, Kind
<1> QED BY <1>11, <1>18, SquareAlwaysFits, PTL DEF ProbeInv

----------------------------------------------------------------------------
(* The theorems *)

\* ProbeInv, what watchers, fan-outs and generators know of each other, is inductive.
LEMMA ProbeSteps ==
    /\ Init => ProbeInv
    /\ ProbeInv /\ [Next]_vars => ProbeInv'
<1>1. Init => ProbeInv
  <2> SUFFICES ASSUME Init PROVE ProbeInv
    OBVIOUS
  <2>1. TypeOK
    <3>1. /\ [count |-> 0, lagged |-> 0, monotonic |-> TRUE, last |-> -1] \in Stats
          /\ <<>> \in Seq(Nat) /\ Len(<<>>) = 0
      BY DEF Stats
    <3>2. kept \in [Kind -> Seq(Nat)] /\ \A k \in Kind : Len(kept[k]) <= Capacity[k]
      BY <3>1 DEF Init
    <3>3. stats \in [Kind -> Stats]
      BY <3>1 DEF Init
    <3>4. /\ clock \in 0..MaxClock /\ begun \in [Kind -> -1..MaxClock] /\ anchor \in -1..MaxClock
          /\ due \in [Kind -> Nat] /\ sent \in [Kind -> Nat]
          /\ from \in [Kind -> Nat] /\ next \in [Kind -> Nat] /\ deadline \in -1..MaxClock
          /\ watch \in [Kind -> {"absent", "waiting", "done"}]
      BY DEF Init
    <3>5. simulate \in BOOLEAN /\ exit \in {"none", "unopened", "empty", "regressed", "ok"}
      BY DEF Init
    <3> QED BY <3>2, <3>3, <3>4, <3>5 DEF TypeOK
  <2>2. Reported /\ Subscribed
    BY DEF Init, Reported, Subscribed
  <2>3. ASSUME simulate
        PROVE  /\ StampedByNumber /\ Anchored
               /\ \A k \in Kind : Increasing(k) /\ Ticked(k) /\ LastIsBehind(k)
    BY <2>3 DEF Init, StampedByNumber, Anchored, Increasing, Ticked, LastIsBehind, Kind
  <2> QED BY <2>1, <2>2, <2>3, SquareAlwaysFits DEF ProbeInv, NeverRegresses, Generated
<1>2. ProbeInv /\ [Next]_vars => ProbeInv'
  <2> SUFFICES ASSUME ProbeInv, [Next]_vars PROVE ProbeInv'
    OBVIOUS
  <2>1. CASE Passes \/ OpenFails \/ Judges \/ Finished \/ UNCHANGED vars
    BY <2>1, MainStep DEF Finished
  <2>2. CASE Subscribes
    BY <2>2, SubscribeStep
  <2>3. ASSUME NEW k \in Kind, StartsTicker(k) \/ Ticks(k) \/ Captures(k) PROVE ProbeInv'
    BY <2>3, BeginStep, TickStep, CaptureStep
  <2>4. ASSUME NEW k \in Kind, WatchSteps(k) PROVE ProbeInv'
    BY <2>4, LagStep, CountStep, TimeOutStep DEF WatchSteps
  <2>5. CASE Anchors
    BY <2>5, AnchorStep
  <2> QED BY <2>1, <2>2, <2>3, <2>4, <2>5 DEF Next
<1> QED BY <1>1, <1>2

\* What watchers report adds up, every frame is drawn within its bounds, and a simulated
\* source is not judged "timestamps regressed" before the u64 of its stamps wraps, however
\* late any task is.
THEOREM ProbeInvariant == Spec => []ProbeInv
BY ProbeSteps, PTL DEF Spec

\* Until the u64 wraps, simulated audio falls behind by whole periods, one for each tick
\* that was skipped, and never catches up (simulate.rs, audio.rs).
THEOREM DriftIsWholePeriods == Spec => []DriftIsSkips
<1>1. ProbeInv => DriftIsSkips
  <2> DEFINE s == kept["audio"]  p == Period["audio"]  a == anchor
             o == Oldest("audio")  n == sent["audio"]  b == begun["audio"]
             behind == due["audio"] - (s[Len(s)] - (a - b))
  <2> SUFFICES ASSUME ProbeInv, simulate, Unwrapped("audio"), s # <<>>
               PROVE  /\ \A i \in 2..Len(s) : s[i] = s[i - 1] + p
                      /\ behind >= p /\ behind % p = 0
    BY DEF DriftIsSkips
  <2>1. /\ s \in Seq(Nat) /\ Len(s) \in Nat /\ p \in Nat \ {0} /\ a \in Int /\ n \in Nat
        /\ o = n - Len(s) /\ due["audio"] \in Nat /\ b \in Int
    BY KindTypes DEF ProbeInv, Kind
  <2>2. Len(s) >= 1
    BY <2>1
  <2>3. \A i \in 1..Len(s) : s[i] = a + (o + i - 1) * p
    BY DEF ProbeInv, Generated, StampedByNumber
  <2>4. PICK d \in Nat : due["audio"] = b + d * p /\ n <= d
    BY DEF ProbeInv, Generated, Ticked, Kind
  <2> HIDE DEF s, p, a, o, n, b
  <2>5. ASSUME NEW i \in 2..Len(s) PROVE s[i] = s[i - 1] + p
    <3>1. i \in 1..Len(s) /\ i - 1 \in 1..Len(s)
      BY <2>1
    <3>2. s[i] = a + (o + i - 1) * p /\ s[i - 1] = a + (o + (i - 1) - 1) * p
      BY <2>3, <3>1
    <3> DEFINE m == o + i - 2
    <3>3. m \in Int /\ o + i - 1 = m + 1 /\ o + (i - 1) - 1 = m
      BY <2>1, <3>1
    <3> HIDE DEF m
    <3>4. (m + 1) * p = m * p + p /\ m * p \in Int
      BY <2>1, <3>3
    <3> QED BY <2>1, <3>2, <3>3, <3>4
  <2>6. s[Len(s)] = a + (n - 1) * p
    <3>1. Len(s) \in 1..Len(s) /\ o + Len(s) - 1 = n - 1
      BY <2>1, <2>2
    <3> QED BY <2>3, <3>1
  <2>7. (n - 1) * p + p <= d * p /\ (n - 1) * p \in Int /\ d * p \in Int
    BY <2>1, <2>4, OnePeriodMore
  <2>8. behind = d * p - (n - 1) * p
    <3> DEFINE dp == d * p  np == (n - 1) * p  last == s[Len(s)]
    <3>1. last = a + np /\ due["audio"] = b + dp /\ dp \in Int /\ np \in Int
      BY <2>4, <2>6, <2>7
    <3>2. behind = due["audio"] - (last - (a - b))
      OBVIOUS
    <3> HIDE DEF dp, np, last, behind
    <3>3. behind = dp - np
      BY <2>1, <3>1, <3>2
    <3> QED BY <3>3 DEF dp, np
  <2> HIDE DEF behind
  <2>9. behind >= p
    <3> DEFINE dp == d * p  np == (n - 1) * p
    <3>1. behind = dp - np /\ np + p <= dp /\ dp \in Int /\ np \in Int
      BY <2>7, <2>8
    <3> HIDE DEF dp, np
    <3> QED BY <2>1, <3>1
  <2>10. behind % p = 0
    <3> DEFINE m == d - (n - 1)
    <3>1. m \in Nat
      BY <2>1, <2>4
    <3>2. behind = m * p
      BY <2>1, <2>4, <2>8
    <3> HIDE DEF m
    <3> QED BY <2>1, <3>1, <3>2, Multiple
  <2> QED BY <2>5, <2>9, <2>10
<1> QED BY <1>1, ProbeInvariant, PTL

\* render_pattern: consecutive frames differ, for every size with room to move and
\* every number of frames sent before.
THEOREM ConsecutiveFramesDiffer == Spec => FramesDiffer
<1> DEFINE Differs == \A s \in Sizes :
             sent'["video"] # sent["video"] /\ (s[1] > 2 \/ s[2] > 2)
               => Square(s, sent'["video"]) # Square(s, sent["video"])
<1>1. ProbeInv /\ [Next]_vars => [Differs]_vars
  <2> SUFFICES ASSUME ProbeInv, Next, sent'["video"] # sent["video"] PROVE Differs
    OBVIOUS
  <2>1. TypeOK /\ sent["video"] \in Nat
    BY KindTypes DEF ProbeInv, Kind
  <2>2. PICK k \in Kind : Ticks(k) \/ Captures(k)
    BY DEF Next, Passes, OpenFails, Subscribes, Judges, Finished, StartsTicker, Anchors, WatchSteps,
       Lags, Counts, TimesOut, vars, sourceVars
  <2>3. PICK stamp : Publishes(k, stamp)
    BY <2>2 DEF Ticks, Captures
  <2>4. sent'["video"] = sent["video"] + 1
    BY <2>1, <2>3 DEF Publishes, TypeOK, Kind
  <2> QED BY <2>1, <2>4, NextSquareDiffers
<1> QED BY <1>1, ProbeInvariant, PTL DEF Spec, FramesDiffer
=============================================================================
