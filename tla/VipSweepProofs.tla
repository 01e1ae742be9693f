--------------------------- MODULE VipSweepProofs ---------------------------
(***************************************************************************)
(* free_ranges_in_subnet returns the gaps, for every subnet and every list *)
(* of claims: the invariants of its two loops.                             *)
(***************************************************************************)
EXTENDS VipSweep, SequenceTheorems, TLAPS

Pairs == [lo : Int, hi : Int]
HeldTo(s, n, x) == \E k \in 1..n : s[k].lo <= x /\ x <= s[k].hi
Held(s, x) == HeldTo(s, Len(s), x)

\* Ranges in ascending order, with an address between one and the next.
Apart(s) ==
  /\ \A k \in 1..Len(s) : s[k].lo <= s[k].hi
  /\ \A j, k \in 1..Len(s) : j < k => s[j].hi + 1 < s[k].lo

TypeOK ==
  /\ ClaimList(claims)
  /\ i \in Nat \ {0}
  /\ merged \in Seq([lo : Int, hi : Int])
  /\ free \in Seq([lo : Int, hi : Int])
  /\ cursor \in Int
  /\ pc \in {"merge", "sweep", "close", "done"}

\* The first loop has merged the claims before i.
MergeInv ==
  /\ i <= Len(claims) + 1
  /\ Apart(merged)
  /\ \A x \in Int : Held(merged, x) <=> HeldTo(claims, i - 1, x)
  /\ merged # <<>> => i > 1 /\ merged[Len(merged)].lo <= claims[i - 1].lo
  /\ free = <<>> /\ cursor = First /\ First <= Final

\* The second loop has collected the gaps below the cursor.
SweepInv ==
  /\ i <= Len(merged) + 1
  /\ Apart(merged)
  /\ \A x \in Int : Held(merged, x) <=> Held(claims, x)
  /\ cursor >= First
  /\ i > 1 => cursor > merged[i - 1].hi
  /\ cursor = First \/ (i > 1 /\ cursor = merged[i - 1].hi + 1)
  /\ Apart(free)
  /\ \A k \in 1..Len(free) : free[k].hi + 1 < cursor
  /\ \A x \in Int : Held(free, x) <=> (First <= x /\ x < cursor /\ x <= Final /\ ~Held(merged, x))

DoneInv ==
  /\ Apart(free)
  /\ \A x \in Int : Held(free, x) <=> (First <= x /\ x <= Final /\ ~Held(claims, x))

LoopInv ==
  /\ TypeOK
  /\ pc = "merge" => MergeInv
  /\ pc \in {"sweep", "close"} => SweepInv
  /\ pc = "sweep" => cursor <= Final
  /\ pc = "close" => cursor > Final
  /\ pc = "done" => DoneInv

-----------------------------------------------------------------------------

LEMMA NetIsInt == First \in Int /\ Final \in Int /\ Hosts(Net) = Rng(First, Final)
  BY SweepConstants DEF First, Final, Hosts, Rng

\* A range beyond the last one keeps the list in order and holds what it holds.
LEMMA AppendRange ==
  ASSUME NEW s \in Seq(Pairs), NEW r \in Pairs, r.lo <= r.hi, Apart(s),
         \A k \in 1..Len(s) : s[k].hi + 1 < r.lo
  PROVE  /\ Append(s, r) \in Seq(Pairs)
         /\ Len(Append(s, r)) = Len(s) + 1
         /\ Append(s, r)[Len(s) + 1] = r
         /\ \A k \in 1..Len(s) : Append(s, r)[k] = s[k]
         /\ Apart(Append(s, r))
         /\ \A x \in Int : Held(Append(s, r), x) <=> (Held(s, x) \/ (r.lo <= x /\ x <= r.hi))
<1> DEFINE t == Append(s, r)
           n == Len(s)
<1>1. t \in Seq(Pairs) /\ Len(t) = n + 1 /\ t[n + 1] = r /\ \A k \in 1..n : t[k] = s[k]
  BY AppendProperties
<1>2. n \in Nat /\ \A k \in 1..n : s[k] \in Pairs
  BY LenProperties
<1> HIDE DEF t, n
<1>3. (\A k \in 1..n : s[k].lo <= s[k].hi /\ s[k].hi + 1 < r.lo)
      /\ (\A j, k \in 1..n : j < k => s[j].hi + 1 < s[k].lo)
  BY DEF Apart, n
<1>4. Apart(t)
  <2>1. \A k \in 1..(n + 1) : t[k].lo <= t[k].hi
    BY <1>1, <1>2, <1>3
  <2>2. ASSUME NEW j \in 1..(n + 1), NEW k \in 1..(n + 1), j < k
        PROVE  t[j].hi + 1 < t[k].lo
    <3>1. j \in 1..n /\ t[j] = s[j]
      BY <1>1, <1>2, <2>2
    <3>2. CASE k = n + 1
      BY <3>1, <3>2, <1>1, <1>3
    <3>3. CASE k # n + 1
      BY <3>1, <3>3, <1>1, <1>2, <1>3, <2>2
    <3> QED BY <3>2, <3>3
  <2> QED BY <2>1, <2>2, <1>1 DEF Apart
<1>5. ASSUME NEW x \in Int
      PROVE  Held(t, x) <=> (Held(s, x) \/ (r.lo <= x /\ x <= r.hi))
  <2>1. Held(t, x) <=> \E k \in 1..(n + 1) : t[k].lo <= x /\ x <= t[k].hi
    BY <1>1 DEF Held, HeldTo
  <2>2. Held(s, x) <=> \E k \in 1..n : s[k].lo <= x /\ x <= s[k].hi
    BY DEF Held, HeldTo, n
  <2>3. \A k \in 1..(n + 1) : k \in 1..n \/ k = n + 1
    BY <1>2
  <2>4. \A k \in 1..n : k \in 1..(n + 1)
    BY <1>2
  <2>5. n + 1 \in 1..(n + 1)
    BY <1>2
  <2> QED BY <2>1, <2>2, <2>3, <2>4, <2>5, <1>1
<1> QED BY <1>1, <1>4, <1>5 DEF t, n

Widened(s, h) == [s EXCEPT ![Len(s)] = Rng(s[Len(s)].lo, h)]

\* So does the last range with a later end.
LEMMA WidenLast ==
  ASSUME NEW s \in Seq(Pairs), s # <<>>, Apart(s), NEW h \in Int, h >= s[Len(s)].hi
  PROVE  /\ Widened(s, h) \in Seq(Pairs)
         /\ Len(Widened(s, h)) = Len(s)
         /\ Widened(s, h)[Len(s)] = Rng(s[Len(s)].lo, h)
         /\ Apart(Widened(s, h))
         /\ \A x \in Int : Held(Widened(s, h), x) <=> (Held(s, x) \/ (s[Len(s)].lo <= x /\ x <= h))
<1> DEFINE n == Len(s)
           last == Rng(s[n].lo, h)
           t == Widened(s, h)
<1>1. n \in Nat /\ n >= 1 /\ n \in 1..n /\ \A k \in 1..n : s[k] \in Pairs
  BY LenProperties, EmptySeq
<1>2. last \in Pairs /\ last.lo = s[n].lo /\ last.hi = h
  BY <1>1 DEF Rng, Pairs
<1>3. t \in Seq(Pairs) /\ Len(t) = n /\ t[n] = last /\ \A k \in 1..n : k # n => t[k] = s[k]
  BY <1>1, <1>2, ExceptSeq DEF Widened
<1> HIDE DEF t
<1>5. \A k \in 1..n : t[k].lo = s[k].lo /\ t[k].hi >= s[k].hi /\ (k # n => t[k].hi = s[k].hi)
  <2>1. s[n].hi \in Int /\ h >= s[n].hi
    BY <1>1 DEF Pairs
  <2>2. \A k \in 1..n : k # n => t[k] = s[k] /\ s[k].hi \in Int
    BY <1>1, <1>3 DEF Pairs
  <2>3. t[n].lo = s[n].lo /\ t[n].hi = h
    BY <1>2, <1>3
  <2> HIDE DEF n, last
  <2> QED BY <2>1, <2>2, <2>3
<1>6. (\A k \in 1..n : s[k].lo <= s[k].hi)
      /\ (\A j, k \in 1..n : j < k => s[j].hi + 1 < s[k].lo)
  BY DEF Apart
<1>7. \A k \in 1..n : t[k] \in Pairs
  BY <1>3, LenProperties
<1> HIDE DEF n, last
<1>8. Apart(t)
  <2>1. \A k \in 1..n : t[k].lo <= t[k].hi
    BY <1>1, <1>5, <1>6, <1>7 DEF Pairs
  <2>2. \A j, k \in 1..n : j < k => j # n
    BY <1>1
  <2>3. \A j, k \in 1..n : j < k => t[j].hi + 1 < t[k].lo
    BY <2>2, <1>5, <1>6
  <2> QED BY <2>1, <2>3, <1>3 DEF Apart
<1>9. ASSUME NEW x \in Int
      PROVE  Held(t, x) <=> (Held(s, x) \/ (s[n].lo <= x /\ x <= h))
  <2>1. Held(t, x) <=> \E k \in 1..n : t[k].lo <= x /\ x <= t[k].hi
    BY <1>3 DEF Held, HeldTo
  <2>2. Held(s, x) <=> \E k \in 1..n : s[k].lo <= x /\ x <= s[k].hi
    BY DEF Held, HeldTo, n
  <2>3. s[n].hi \in Int /\ s[n].hi <= h
    BY <1>1 DEF n, Pairs
  <2>4. t[n].lo = s[n].lo /\ t[n].hi = h
    BY <1>2, <1>3
  <2>5. \A k \in 1..n : k # n => t[k] = s[k]
    BY <1>3
  <2>6. (x <= s[n].hi) => (x <= h)
    BY <2>3
  <2> QED BY <2>1, <2>2, <2>4, <2>5, <2>6, <1>1
<1> QED BY <1>3, <1>8, <1>9, <1>2 DEF n, last, t

-----------------------------------------------------------------------------

LEMMA InitInv == Init => LoopInv
<1> SUFFICES ASSUME Init PROVE LoopInv
  OBVIOUS
<1> USE NetIsInt
<1>1. TypeOK
  BY SweepConstants DEF Init, TypeOK
<1>2. merged = <<>> /\ free = <<>> /\ Len(merged) = 0 /\ Len(free) = 0 /\ i = 1 /\ Len(claims) \in Nat
  BY <1>1, LenProperties DEF Init, TypeOK, ClaimList
<1>3. \A x \in Int : ~Held(merged, x) /\ ~Held(free, x) /\ ~HeldTo(claims, i - 1, x)
  BY <1>2 DEF Held, HeldTo
<1>4. Apart(merged) /\ Apart(free)
  BY <1>2 DEF Apart
<1>5. (pc = "done" => First > Final) /\ (pc = "merge" => First <= Final)
  BY DEF Init
<1>6. pc = "merge" => MergeInv
  BY <1>2, <1>3, <1>4, <1>5 DEF MergeInv, Init
<1>7. pc = "done" => DoneInv
  BY <1>3, <1>4, <1>5 DEF DoneInv
<1> QED BY <1>1, <1>6, <1>7 DEF LoopInv, Init

\* One round of the first loop.
LEMMA MergeStep == LoopInv /\ Merge => LoopInv'
<1> SUFFICES ASSUME LoopInv, Merge PROVE LoopInv'
  OBVIOUS
<1> DEFINE c == claims[i]
           n == Len(merged)
<1>1. MergeInv /\ TypeOK
  BY DEF LoopInv, Merge
<1>2. i \in 1..Len(claims) /\ Len(claims) \in Nat /\ c \in Pairs /\ c.lo <= c.hi /\ c.lo \in Int /\ c.hi \in Int
  <2>1. claims \in Seq(Pairs) /\ i \in Nat \ {0} /\ i <= Len(claims)
    BY <1>1 DEF TypeOK, ClaimList, Pairs, Merge
  <2>2. i \in 1..Len(claims) /\ Len(claims) \in Nat /\ c \in Pairs
    BY <2>1, LenProperties
  <2>3. c.lo <= c.hi
    BY <1>1, <2>2 DEF TypeOK, ClaimList
  <2> QED BY <2>2, <2>3 DEF Pairs
<1>3. merged \in Seq(Pairs) /\ Apart(merged) /\ n \in Nat
      /\ \A k \in 1..n : merged[k] \in Pairs
  <2>1. merged \in Seq(Pairs) /\ Apart(merged)
    BY <1>1 DEF TypeOK, MergeInv, Pairs
  <2> QED BY <2>1, LenProperties
<1>4. i > 1 => claims[i - 1].lo \in Int /\ claims[i - 1].lo <= c.lo
  <2> SUFFICES ASSUME i > 1 PROVE claims[i - 1].lo \in Int /\ claims[i - 1].lo <= c.lo
    OBVIOUS
  <2>1. i - 1 \in 1..Len(claims) /\ i - 1 < i
    BY <1>2
  <2>2. claims[i - 1] \in Pairs
    BY <1>1, <2>1, LenProperties DEF TypeOK, ClaimList, Pairs
  <2> QED BY <1>1, <1>2, <2>1, <2>2 DEF TypeOK, ClaimList, Pairs
\* What the claims before i + 1 hold.
<1>5. \A x \in Int : HeldTo(claims, i, x) <=> (HeldTo(claims, i - 1, x) \/ (c.lo <= x /\ x <= c.hi))
  <2>1. \A k \in 1..i : k \in 1..(i - 1) \/ k = i
    BY <1>2
  <2>2. (\A k \in 1..(i - 1) : k \in 1..i) /\ i \in 1..i
    BY <1>2
  <2> QED BY <2>1, <2>2 DEF HeldTo
<1>6. \A x \in Int : Held(merged, x) <=> HeldTo(claims, i - 1, x)
  BY <1>1 DEF MergeInv
<1>7. i' = i + 1 /\ claims' = claims /\ free' = free /\ cursor' = cursor /\ pc' = "merge"
  BY DEF Merge
\* What the new list has to satisfy.
<1>8. SUFFICES /\ merged' \in Seq(Pairs)
               /\ Apart(merged')
               /\ \A x \in Int : Held(merged', x) <=> (Held(merged, x) \/ (c.lo <= x /\ x <= c.hi))
               /\ merged' # <<>> => merged'[Len(merged')].lo <= c.lo
  <2>1. TypeOK'
    BY <1>1, <1>7, <1>8 DEF TypeOK, Pairs
  <2>2. i + 1 - 1 = i /\ i + 1 > 1 /\ i + 1 <= Len(claims) + 1 /\ i' - 1 = i
    BY <1>2, <1>7
  <2>3. \A x \in Int : Held(merged', x) <=> HeldTo(claims', i' - 1, x)
    BY <1>5, <1>6, <1>7, <1>8, <2>2
  <2>4. MergeInv'
    <3>1. i' <= Len(claims') + 1
      BY <1>7, <2>2
    <3>2. merged' # <<>> => i' > 1 /\ merged'[Len(merged')].lo <= claims'[i' - 1].lo
      BY <1>7, <1>8, <2>2
    <3>3. free' = <<>> /\ cursor' = First /\ First <= Final
      BY <1>1, <1>7 DEF MergeInv
    <3> QED BY <1>8, <2>3, <3>1, <3>2, <3>3 DEF MergeInv, Apart
  <2> QED BY <2>1, <2>4, <1>7 DEF LoopInv
<1>9. CASE merged # <<>> /\ c.lo <= merged[n].hi + 1
  <2> DEFINE last == merged[n]
             h == Larger(last.hi, c.hi)
  <2>1. n \in 1..n /\ last \in Pairs /\ last.lo \in Int /\ last.hi \in Int /\ last.lo <= c.lo /\ last.lo <= last.hi
    <3>1. n \in 1..n
      BY <1>3, <1>9, EmptySeq
    <3>2. last \in Pairs /\ last.lo <= last.hi
      BY <1>3, <3>1 DEF Apart
    <3>3. i > 1 /\ last.lo <= claims[i - 1].lo
      BY <1>1, <1>9 DEF MergeInv
    <3> QED BY <3>1, <3>2, <3>3, <1>2, <1>4 DEF Pairs
  <2>2. h \in Int /\ h >= last.hi /\ h >= c.hi /\ (h = last.hi \/ h = c.hi)
    BY <1>2, <2>1 DEF Larger
  <2>3. merged' = Widened(merged, h)
    BY <1>9 DEF Merge, Merged, Widened
  <2> HIDE DEF h
  <2>4. /\ merged' \in Seq(Pairs) /\ Apart(merged') /\ Len(merged') = n
        /\ merged'[n] = Rng(last.lo, h)
        /\ \A x \in Int : Held(merged', x) <=> (Held(merged, x) \/ (last.lo <= x /\ x <= h))
    BY <1>3, <1>9, <2>2, <2>3, WidenLast
  <2>5. \A x \in Int : (last.lo <= x /\ x <= last.hi) => Held(merged, x)
    BY <2>1 DEF Held, HeldTo
  <2>6. \A x \in Int : (last.lo <= x /\ x <= h) <=>
                         ((last.lo <= x /\ x <= last.hi) \/ (c.lo <= x /\ x <= c.hi))
    BY <1>2, <1>9, <2>1, <2>2
  <2>7. merged'[Len(merged')].lo <= c.lo
    BY <2>1, <2>4 DEF Rng
  <2> QED BY <2>4, <2>5, <2>6, <2>7
<1>10. CASE ~(merged # <<>> /\ c.lo <= merged[n].hi + 1)
  <2>1. merged' = Append(merged, c)
    BY <1>10 DEF Merge
  <2>2. ASSUME NEW k \in 1..n PROVE merged[k].hi + 1 < c.lo
    <3>1. n \in 1..n /\ merged # <<>> /\ merged[n] \in Pairs /\ merged[k] \in Pairs
      BY <1>3, EmptySeq
    <3>2. merged[n].hi + 1 < c.lo
      BY <3>1, <1>2, <1>10 DEF Pairs
    <3>3. CASE k = n
      BY <3>2, <3>3
    <3>4. CASE k # n
      <4>1. k < n
        BY <3>4, <1>3
      <4>2. merged[k].hi + 1 < merged[n].lo /\ merged[n].lo <= merged[n].hi
        BY <4>1, <3>1, <1>3 DEF Apart
      <4> QED BY <4>2, <3>1, <3>2, <1>2 DEF Pairs
    <3> QED BY <3>3, <3>4
  <2>3. /\ merged' \in Seq(Pairs) /\ Apart(merged') /\ Len(merged') = n + 1 /\ merged'[n + 1] = c
        /\ \A x \in Int : Held(merged', x) <=> (Held(merged, x) \/ (c.lo <= x /\ x <= c.hi))
    BY <1>2, <1>3, <2>1, <2>2, AppendRange
  <2>4. merged'[Len(merged')].lo <= c.lo
    BY <2>3, <1>2
  <2> QED BY <2>3, <2>4
<1> QED BY <1>9, <1>10

\* Between the loops.
LEMMA TurnStep == LoopInv /\ Turn => LoopInv'
<1> SUFFICES ASSUME LoopInv, Turn PROVE LoopInv'
  OBVIOUS
<1> USE NetIsInt
<1>1. MergeInv /\ TypeOK
  BY DEF LoopInv, Turn
<1>2. claims \in Seq(Pairs) /\ Len(claims) \in Nat /\ merged \in Seq(Pairs) /\ Len(merged) \in Nat
  <2>1. claims \in Seq(Pairs) /\ merged \in Seq(Pairs)
    BY <1>1 DEF TypeOK, ClaimList, Pairs
  <2> QED BY <2>1, LenProperties
<1>3. i = Len(claims) + 1
  BY <1>1, <1>2 DEF MergeInv, TypeOK, Turn
<1>4. i - 1 = Len(claims)
  BY <1>2, <1>3
<1>5. \A x \in Int : Held(merged, x) <=> Held(claims, x)
  BY <1>1, <1>4 DEF MergeInv, Held
<1>6. i' = 1 /\ cursor' = First /\ claims' = claims /\ merged' = merged /\ free' = free
      /\ pc' = "sweep" /\ free = <<>> /\ First <= Final
  BY <1>1 DEF Turn, MergeInv
<1>7. Len(free) = 0 /\ Apart(free) /\ \A x \in Int : ~Held(free, x)
  BY <1>6 DEF Apart, Held, HeldTo
<1>8. TypeOK'
  BY <1>1, <1>6 DEF TypeOK
<1>9. SweepInv'
  <2>1. /\ i' <= Len(merged') + 1 /\ Apart(merged')
        /\ \A x \in Int : Held(merged', x) <=> Held(claims', x)
    BY <1>1, <1>2, <1>5, <1>6 DEF MergeInv
  <2>2. /\ cursor' >= First /\ ~(i' > 1) /\ cursor' = First
    BY <1>6
  <2>3. /\ Apart(free') /\ \A k \in 1..Len(free') : free'[k].hi + 1 < cursor'
    BY <1>6, <1>7
  <2>4. \A x \in Int : Held(free', x) <=>
                         (First <= x /\ x < cursor' /\ x <= Final /\ ~Held(merged', x))
    BY <1>6, <1>7
  <2> QED BY <2>1, <2>2, <2>3, <2>4 DEF SweepInv
<1> QED BY <1>6, <1>8, <1>9 DEF LoopInv

\* The claims that the second loop has passed lie below the cursor.
LEMMA Passed ==
  ASSUME TypeOK, SweepInv
  PROVE  \A k \in 1..Len(merged) : k < i => merged[k].hi < cursor
<1> SUFFICES ASSUME NEW k \in 1..Len(merged), k < i
             PROVE  merged[k].hi < cursor
  OBVIOUS
<1>1. merged \in Seq(Pairs) /\ Len(merged) \in Nat /\ i \in Nat /\ cursor \in Int
  BY LenProperties DEF TypeOK, Pairs
<1>2. i - 1 \in 1..Len(merged) /\ i > 1 /\ k <= i - 1
  BY <1>1 DEF SweepInv
<1>3. merged[k] \in Pairs /\ merged[i - 1] \in Pairs
  BY <1>1, <1>2, LenProperties
<1>4. merged[i - 1].hi < cursor
  BY <1>1, <1>2, <1>3 DEF SweepInv, Pairs
<1>5. CASE k = i - 1
  BY <1>4, <1>5
<1>6. CASE k # i - 1
  <2>1. k < i - 1
    BY <1>2, <1>6, <1>1
  <2>2. merged[k].hi + 1 < merged[i - 1].lo /\ merged[i - 1].lo <= merged[i - 1].hi
    BY <2>1, <1>2 DEF SweepInv, Apart
  <2> QED BY <2>2, <1>3, <1>4, <1>1 DEF Pairs
<1> QED BY <1>5, <1>6

\* One round of the second loop.
LEMMA SweepStep == LoopInv /\ Sweep => LoopInv'
<1> SUFFICES ASSUME LoopInv, Sweep PROVE LoopInv'
  OBVIOUS
<1> USE NetIsInt
<1> DEFINE c == merged[i]
           n == Len(merged)
<1>1. SweepInv /\ TypeOK /\ cursor <= Final
  BY DEF LoopInv, Sweep
<1>2. /\ merged \in Seq(Pairs) /\ n \in Nat /\ i \in 1..n /\ cursor \in Int /\ free \in Seq(Pairs)
      /\ \A k \in 1..n : merged[k].lo \in Int /\ merged[k].hi \in Int /\ merged[k].lo <= merged[k].hi
      /\ \A k \in 1..Len(free) : free[k].lo \in Int /\ free[k].hi \in Int
  <2>1. merged \in Seq(Pairs) /\ cursor \in Int /\ i \in Nat \ {0} /\ i <= n /\ free \in Seq(Pairs)
    BY <1>1 DEF TypeOK, Pairs, Sweep
  <2>2. n \in Nat /\ \A k \in 1..n : merged[k] \in Pairs
    BY <2>1, LenProperties
  <2>3. \A k \in 1..Len(free) : free[k] \in Pairs
    BY <2>1, LenProperties
  <2>4. \A k \in 1..n : merged[k].lo <= merged[k].hi
    BY <1>1 DEF SweepInv, Apart
  <2>5. i \in 1..n
    BY <2>1, <2>2
  <2> HIDE DEF n
  <2> QED BY <2>1, <2>2, <2>3, <2>4, <2>5 DEF Pairs
<1>3. c.lo \in Int /\ c.hi \in Int /\ c.lo <= c.hi
  BY <1>2
<1>4. \A k \in 1..n : (k < i => merged[k].hi < cursor) /\ (k > i => c.hi < merged[k].lo)
  <2>1. \A k \in 1..n : k > i => c.hi + 1 < merged[k].lo
    BY <1>1, <1>2 DEF SweepInv, Apart
  <2> QED BY <2>1, <1>1, <1>2, <1>3, Passed
<1>5. cursor >= First /\ (cursor = First \/ (i > 1 /\ cursor = merged[i - 1].hi + 1))
  BY <1>1 DEF SweepInv
<1>6. cursor = First \/ cursor < c.lo
  <2>1. i > 1 => merged[i - 1].hi + 1 < c.lo
    BY <1>1, <1>2 DEF SweepInv, Apart
  <2> QED BY <2>1, <1>5
<1>7. /\ i' = i + 1 /\ claims' = claims /\ merged' = merged
      /\ cursor' = Larger(cursor, c.hi + 1) /\ free' = GapBefore(c.lo)
      /\ pc' = IF cursor' > Final THEN "close" ELSE "sweep"
  BY DEF Sweep
<1>8. /\ cursor' \in Int /\ cursor' >= First /\ cursor' >= cursor /\ cursor' > c.hi
      /\ cursor' = First \/ cursor' = c.hi + 1
      /\ cursor < c.lo => cursor' = c.hi + 1
      /\ cursor' = cursor \/ cursor' = c.hi + 1
  BY <1>2, <1>3, <1>5, <1>6, <1>7 DEF Larger
\* Between the cursor and its new place, the claim is all that is held.
<1>9. ASSUME NEW x \in Int, cursor <= x, x < cursor'
      PROVE  Held(merged, x) <=> c.lo <= x
  <2>1. x <= c.hi
    BY <1>8, <1>9, <1>2, <1>3
  <2>2. c.lo <= x => Held(merged, x)
    BY <2>1, <1>2 DEF Held, HeldTo
  <2>3. ASSUME NEW k \in 1..n, merged[k].lo <= x, x <= merged[k].hi
        PROVE  c.lo <= x
    <3>1. ~(k < i)
      BY <2>3, <1>2, <1>4, <1>9
    <3>2. ~(k > i)
      BY <2>1, <2>3, <1>2, <1>3, <1>4
    <3>3. k = i
      BY <3>1, <3>2, <1>2
    <3> QED BY <3>3, <2>3
  <2> QED BY <2>2, <2>3 DEF Held, HeldTo
<1>10. Apart(free) /\ (\A k \in 1..Len(free) : free[k].hi + 1 < cursor) /\ Len(free) \in Nat
  BY <1>1, <1>2, LenProperties DEF SweepInv
<1>11. \A x \in Int : Held(free, x) <=> (First <= x /\ x < cursor /\ x <= Final /\ ~Held(merged, x))
  BY <1>1 DEF SweepInv
<1>12. SUFFICES /\ free' \in Seq(Pairs)
                /\ Apart(free')
                /\ \A k \in 1..Len(free') : free'[k].hi + 1 < cursor'
                /\ \A x \in Int : Held(free', x) <=>
                     (Held(free, x) \/ (cursor <= x /\ x < c.lo /\ x <= Final))
  <2>1. TypeOK'
    BY <1>1, <1>2, <1>7, <1>8, <1>12 DEF TypeOK, Pairs
  <2>2. \A x \in Int : Held(free', x) <=>
                         (First <= x /\ x < cursor' /\ x <= Final /\ ~Held(merged', x))
    <3> SUFFICES ASSUME NEW x \in Int
                 PROVE  Held(free', x) <=>
                          (First <= x /\ x < cursor' /\ x <= Final /\ ~Held(merged, x))
      BY <1>7
    <3>1. CASE x < cursor
      BY <3>1, <1>2, <1>8, <1>11, <1>12
    <3>2. CASE cursor <= x /\ x < cursor'
      BY <3>2, <1>2, <1>3, <1>5, <1>9, <1>11, <1>12
    <3>3. CASE ~(x < cursor')
      BY <3>3, <1>2, <1>3, <1>8, <1>11, <1>12
    <3> QED BY <3>1, <3>2, <3>3, <1>2, <1>8
  <2>3. i' - 1 = i /\ i' > 1 /\ i' <= n + 1
    BY <1>2, <1>7
  <2>4. /\ i' <= Len(merged') + 1 /\ Apart(merged')
        /\ \A x \in Int : Held(merged', x) <=> Held(claims', x)
    BY <1>1, <1>7, <2>3 DEF SweepInv
  <2>5. /\ i' > 1 => cursor' > merged'[i' - 1].hi
        /\ cursor' = First \/ (i' > 1 /\ cursor' = merged'[i' - 1].hi + 1)
    BY <1>7, <1>8, <2>3
  <2>6. SweepInv'
    BY <1>8, <1>12, <2>2, <2>4, <2>5 DEF SweepInv, Apart
  <2> QED BY <2>1, <2>6, <1>7, <1>8 DEF LoopInv
<1>13. CASE cursor < c.lo
  <2> DEFINE h == Smaller(c.lo - 1, Final)
             r == Rng(cursor, h)
  <2>1. h \in Int /\ cursor <= h /\ h < c.lo /\ h <= Final /\ (h = c.lo - 1 \/ h = Final)
    BY <1>1, <1>2, <1>3, <1>13 DEF Smaller
  <2>2. free' = Append(free, r)
    BY <1>7, <1>13 DEF GapBefore
  <2> HIDE DEF h
  <2>3. r \in Pairs /\ r.lo = cursor /\ r.hi = h
    BY <1>2, <2>1 DEF Pairs, Rng
  <2> HIDE DEF r
  <2>4. /\ free' \in Seq(Pairs) /\ Len(free') = Len(free) + 1 /\ Apart(free')
        /\ free'[Len(free) + 1] = r /\ \A k \in 1..Len(free) : free'[k] = free[k]
        /\ \A x \in Int : Held(free', x) <=> (Held(free, x) \/ (cursor <= x /\ x <= h))
    BY <1>2, <1>10, <2>1, <2>2, <2>3, AppendRange
  <2>5. ASSUME NEW k \in 1..(Len(free) + 1) PROVE free'[k].hi + 1 < cursor'
    <3>1. CASE k = Len(free) + 1
      BY <3>1, <2>1, <2>3, <2>4, <1>3, <1>8
    <3>2. CASE k # Len(free) + 1
      <4>1. k \in 1..Len(free)
        BY <3>2, <1>10
      <4>2. free'[k].hi = free[k].hi /\ free[k].hi + 1 < cursor /\ free[k].hi \in Int
        BY <4>1, <2>4, <1>2, <1>10
      <4>3. cursor \in Int /\ cursor' \in Int /\ cursor' >= cursor
        BY <1>2, <1>8
      <4> QED BY <4>2, <4>3
    <3> QED BY <3>1, <3>2
  <2>6. \A x \in Int : x <= h <=> (x < c.lo /\ x <= Final)
    BY <2>1, <1>3
  <2> QED BY <2>4, <2>5, <2>6
<1>14. CASE ~(cursor < c.lo)
  <2>1. free' = free
    BY <1>7, <1>14 DEF GapBefore
  <2>2. \A x \in Int : ~(cursor <= x /\ x < c.lo)
    BY <1>2, <1>3, <1>14
  <2> QED BY <2>1, <2>2, <1>2, <1>8, <1>10
<1> QED BY <1>13, <1>14

\* What lies behind the last claim.
LEMMA CloseStep == LoopInv /\ Close => LoopInv'
<1> SUFFICES ASSUME LoopInv, Close PROVE LoopInv'
  OBVIOUS
<1> USE NetIsInt
<1>1. SweepInv /\ TypeOK /\ (pc = "close" => cursor > Final)
  BY DEF LoopInv, Close
<1>2. /\ merged \in Seq(Pairs) /\ Len(merged) \in Nat /\ cursor \in Int /\ cursor >= First
      /\ free \in Seq(Pairs) /\ Len(free) \in Nat
      /\ \A k \in 1..Len(merged) : merged[k].hi \in Int
  <2>1. merged \in Seq(Pairs) /\ cursor \in Int /\ free \in Seq(Pairs)
    BY <1>1 DEF TypeOK, Pairs
  <2>2. \A k \in 1..Len(merged) : merged[k] \in Pairs
    BY <2>1, LenProperties
  <2> QED BY <2>1, <2>2, <1>1, LenProperties DEF SweepInv, Pairs
<1>3. /\ Apart(free) /\ (\A k \in 1..Len(free) : free[k].hi + 1 < cursor)
      /\ \A x \in Int : Held(free, x) <=> (First <= x /\ x < cursor /\ x <= Final /\ ~Held(claims, x))
  BY <1>1 DEF SweepInv
<1>4. /\ free' = IF cursor <= Final THEN Append(free, Rng(cursor, Final)) ELSE free
      /\ pc' = "done" /\ claims' = claims /\ i' = i /\ merged' = merged /\ cursor' = cursor
  BY DEF Close
<1>5. ASSUME cursor <= Final, NEW x \in Int, cursor <= x
      PROVE  ~Held(claims, x)
  <2>1. pc = "sweep" /\ i > Len(merged)
    BY <1>1, <1>2, <1>5 DEF Close
  <2>2. \A k \in 1..Len(merged) : k < i
    BY <2>1, <1>1, <1>2 DEF TypeOK
  <2>3. \A k \in 1..Len(merged) : merged[k].hi < cursor
    BY <2>2, <1>1, Passed
  <2>4. \A k \in 1..Len(merged) : ~(x <= merged[k].hi)
    BY <2>3, <1>2, <1>5
  <2>5. ~Held(merged, x)
    BY <2>4 DEF Held, HeldTo
  <2> QED BY <2>5, <1>1 DEF SweepInv
<1>6. SUFFICES /\ free' \in Seq(Pairs)
               /\ Apart(free')
               /\ \A x \in Int : Held(free', x) <=> (First <= x /\ x <= Final /\ ~Held(claims, x))
  <2>1. TypeOK'
    BY <1>1, <1>4, <1>6 DEF TypeOK, Pairs
  <2>2. DoneInv'
    BY <1>4, <1>6 DEF DoneInv, Apart
  <2> QED BY <2>1, <2>2, <1>4 DEF LoopInv
<1>7. CASE cursor <= Final
  <2> DEFINE r == Rng(cursor, Final)
  <2>1. r \in Pairs /\ r.lo = cursor /\ r.hi = Final /\ free' = Append(free, r)
    BY <1>2, <1>4, <1>7 DEF Pairs, Rng
  <2> HIDE DEF r
  <2>2. /\ free' \in Seq(Pairs) /\ Apart(free')
        /\ \A x \in Int : Held(free', x) <=> (Held(free, x) \/ (cursor <= x /\ x <= Final))
    BY <1>2, <1>3, <1>7, <2>1, AppendRange
  <2>3. ASSUME NEW x \in Int
        PROVE  Held(free', x) <=> (First <= x /\ x <= Final /\ ~Held(claims, x))
    <3>1. CASE x < cursor
      BY <3>1, <2>2, <1>2, <1>3
    <3>2. CASE cursor <= x
      BY <3>2, <2>2, <1>2, <1>3, <1>5, <1>7
    <3> QED BY <3>1, <3>2, <1>2
  <2> QED BY <2>2, <2>3
<1>8. CASE ~(cursor <= Final)
  <2>1. free' = free
    BY <1>4, <1>8
  <2>2. \A x \in Int : x <= Final => x < cursor
    BY <1>2, <1>8
  <2> QED BY <2>1, <2>2, <1>2, <1>3
<1> QED BY <1>7, <1>8

LEMMA StepInv == LoopInv /\ [Next]_vars => LoopInv'
<1> SUFFICES ASSUME LoopInv, [Next]_vars PROVE LoopInv'
  OBVIOUS
<1>1. CASE Merge
  BY <1>1, MergeStep
<1>2. CASE Turn
  BY <1>2, TurnStep
<1>3. CASE Sweep
  BY <1>3, SweepStep
<1>4. CASE Close
  BY <1>4, CloseStep
<1>5. CASE UNCHANGED vars
  BY <1>5 DEF vars, LoopInv, TypeOK, MergeInv, SweepInv, DoneInv, Apart, Held, HeldTo
<1> QED BY <1>1, <1>2, <1>3, <1>4, <1>5 DEF Next

-----------------------------------------------------------------------------

\* Ranges that hold exactly the free host addresses, and have an address
\* between them, are the longest ones: the set definition of the gaps.
LEMMA LongestRanges ==
  ASSUME NEW f \in Seq(Pairs), NEW s, Apart(f),
         \A x \in Int : Held(f, x) <=> (First <= x /\ x <= Final /\ ~Held(s, x))
  PROVE  {f[k] : k \in 1..Len(f)} = Gaps(Net, {s[k] : k \in 1..Len(s)})
<1> USE NetIsInt
<1> DEFINE C == {s[k] : k \in 1..Len(s)}
           Claimed(x) == \E c \in C : c.lo <= x /\ x <= c.hi
           h == Hosts(Net)
           B == {x \in Addresses(h) : ~Claimed(x)}
           R == [lo : {x \in B : x = h.lo \/ Claimed(x - 1)},
                 hi : {x \in B : x = h.hi \/ Claimed(x + 1)}]
<1>0. h.lo = First /\ h.hi = Final /\ Addresses(h) = First..Final
  BY DEF Addresses, Rng
<1>1. Gaps(Net, C) = {r \in R : r.lo <= r.hi /\ Addresses(r) \subseteq B}
  BY Zenon DEF Gaps
<1> HIDE DEF h
<1>2. \A x : Claimed(x) <=> Held(s, x)
  BY DEF Held, HeldTo
<1>3. \A x \in Int : x \in B <=> Held(f, x)
  BY <1>0, <1>2
<1>4. /\ Len(f) \in Nat
      /\ \A k \in 1..Len(f) : f[k] \in Pairs /\ f[k].lo \in Int /\ f[k].hi \in Int /\ f[k].lo <= f[k].hi
      /\ \A j, k \in 1..Len(f) : j < k => f[j].hi + 1 < f[k].lo
  <2>1. Len(f) \in Nat /\ \A k \in 1..Len(f) : f[k] \in Pairs
    BY LenProperties
  <2> QED BY <2>1 DEF Apart, Pairs
<1>5. \A x \in Int : Held(f, x) <=> \E k \in 1..Len(f) : f[k].lo <= x /\ x <= f[k].hi
  BY DEF Held, HeldTo
<1>6. \A x \in First..Final : ~Held(f, x) => Claimed(x)
  BY <1>2
<1>7. \A x \in B : x \in Int /\ First <= x /\ x <= Final
  BY <1>0
<1> HIDE DEF B, Claimed
\* An address next to a range is in no range.
<1>8. ASSUME NEW k \in 1..Len(f) PROVE ~Held(f, f[k].lo - 1) /\ ~Held(f, f[k].hi + 1)
  <2>1. ASSUME NEW j \in 1..Len(f)
        PROVE  /\ ~(f[j].lo <= f[k].lo - 1 /\ f[k].lo - 1 <= f[j].hi)
               /\ ~(f[j].lo <= f[k].hi + 1 /\ f[k].hi + 1 <= f[j].hi)
    <3>1. CASE j < k
      BY <3>1, <1>4
    <3>2. CASE j = k
      BY <3>2, <1>4
    <3>3. CASE k < j
      BY <3>3, <1>4
    <3> QED BY <3>1, <3>2, <3>3
  <2>2. f[k].lo - 1 \in Int /\ f[k].hi + 1 \in Int
    BY <1>4
  <2> QED BY <2>1, <2>2, <1>5
<1>9. ASSUME NEW k \in 1..Len(f) PROVE f[k] \in Gaps(Net, C)
  <2>1. \A x \in f[k].lo .. f[k].hi : x \in B
    BY <1>3, <1>4, <1>5
  <2>2. f[k].lo \in B /\ f[k].hi \in B
    BY <2>1, <1>4
  <2>3. f[k].lo = First \/ Claimed(f[k].lo - 1)
    <3>1. f[k].lo # First => f[k].lo - 1 \in First..Final
      BY <2>2, <1>4, <1>7
    <3> QED BY <3>1, <1>6, <1>8
  <2>4. f[k].hi = Final \/ Claimed(f[k].hi + 1)
    <3>1. f[k].hi # Final => f[k].hi + 1 \in First..Final
      BY <2>2, <1>4, <1>7
    <3> QED BY <3>1, <1>6, <1>8
  <2>5. f[k] \in R
    BY <2>2, <2>3, <2>4, <1>0, <1>4 DEF Pairs
  <2> QED BY <2>1, <2>5, <1>1, <1>4 DEF Addresses
<1>10. ASSUME NEW r \in Gaps(Net, C) PROVE \E k \in 1..Len(f) : r = f[k]
  <2>1. /\ r \in R /\ r.lo <= r.hi /\ \A x \in r.lo .. r.hi : x \in B
    BY <1>1 DEF Addresses
  <2>2. /\ r.lo \in B /\ (r.lo = First \/ Claimed(r.lo - 1))
        /\ r.hi \in B /\ (r.hi = Final \/ Claimed(r.hi + 1))
        /\ r.lo \in Int /\ r.hi \in Int
    BY <2>1, <1>0, <1>7
  <2>3. PICK k \in 1..Len(f) : f[k].lo <= r.lo /\ r.lo <= f[k].hi
    BY <2>2, <1>3, <1>5
  \* Claimed addresses are in no range, and every range is inside the subnet.
  <2>4. \A x \in f[k].lo .. f[k].hi : x \in B
    BY <1>3, <1>4, <1>5
  <2>5. \A x \in B : ~Claimed(x)
    BY DEF B
  <2>6. f[k].lo = r.lo
    <3>1. ASSUME f[k].lo < r.lo PROVE FALSE
      <4>1. r.lo - 1 \in f[k].lo .. f[k].hi
        BY <3>1, <2>2, <2>3, <1>4
      <4>2. r.lo - 1 \in B
        BY <4>1, <2>4
      <4> QED BY <4>2, <2>2, <2>5, <1>7
    <3> QED BY <3>1, <2>2, <2>3, <1>4
  <2>7. ~(r.hi < f[k].hi)
    <3>1. ASSUME r.hi < f[k].hi PROVE FALSE
      <4>1. r.hi + 1 \in f[k].lo .. f[k].hi
        BY <3>1, <2>1, <2>2, <2>3, <1>4
      <4>2. r.hi + 1 \in B
        BY <4>1, <2>4
      <4> QED BY <4>2, <2>2, <2>5, <1>7
    <3> QED BY <3>1
  <2>8. ~(f[k].hi < r.hi)
    <3>1. ASSUME f[k].hi < r.hi PROVE FALSE
      <4>1. f[k].hi + 1 \in r.lo .. r.hi
        BY <3>1, <2>2, <2>3, <1>4
      <4>2. f[k].hi + 1 \in B
        BY <4>1, <2>1
      <4> QED BY <4>2, <1>3, <1>4, <1>8
    <3> QED BY <3>1
  <2>9. r.hi = f[k].hi
    BY <2>2, <2>7, <2>8, <1>4
  <2>10. r = [lo |-> r.lo, hi |-> r.hi] /\ f[k] = [lo |-> f[k].lo, hi |-> f[k].hi]
    BY <2>1, <1>4 DEF Pairs
  <2> QED BY <2>6, <2>9, <2>10
<1> HIDE DEF C
<1>11. {f[k] : k \in 1..Len(f)} = Gaps(Net, C)
  BY <1>9, <1>10
<1> QED BY <1>11 DEF C

\* free_ranges_in_subnet returns the gaps of the subnet, all of them and each
\* once, whatever the subnet and whatever the claims.
THEOREM SweepFindsGaps == Spec => []GapsFound
<1>1. Init => LoopInv
  BY InitInv
<1>2. LoopInv /\ [Next]_vars => LoopInv'
  BY StepInv
<1>3. LoopInv => GapsFound
  <2> SUFFICES ASSUME LoopInv, pc = "done" PROVE GapsFound
    BY DEF GapsFound
  <2>1. free \in Seq(Pairs) /\ DoneInv
    BY DEF LoopInv, TypeOK, Pairs
  <2>2. {free[k] : k \in 1..Len(free)} = Gaps(Net, {claims[k] : k \in 1..Len(claims)})
    BY <2>1, LongestRanges DEF DoneInv
  <2> QED BY <2>1, <2>2 DEF GapsFound, DoneInv, Apart
<1> QED BY <1>1, <1>2, <1>3, PTL DEF Spec
=============================================================================
