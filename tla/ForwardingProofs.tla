-------------------------- MODULE ForwardingProofs --------------------------
(***************************************************************************)
(* Numbers are unique and late packets get the number that was kept for    *)
(* them, for every number of packets, bursts of padding and stops, and     *)
(* every number of ranges that the munger remembers; no number is lost;    *)
(* and NACKs find their packets.                                           *)
(*                                                                         *)
(* The invariant relates the munger to what was sent.  NextSN is the       *)
(* number that the next packet in order would get: no packet that was sent *)
(* and no number that is kept reaches it, and the map of ranges still      *)
(* translates each missing packet into the number that was kept for it.    *)
(*                                                                         *)
(* It rests on what RangeMap promises its users: the ranges stay in order  *)
(* and apart, so that a key has at most one value, and a change of the     *)
(* values of later keys leaves those of earlier keys alone, as far as      *)
(* their range is still remembered.                                        *)
(*                                                                         *)
(* The last part is about the sequencer: what it recorded is found when a  *)
(* NACK asks for it.  Its invariant says which slot a packet has, and that *)
(* nothing takes the slot while the packet is recent.                      *)
(***************************************************************************)
EXTENDS Forwarding, TLAPS

-----------------------------------------------------------------------------
(* The range map.                                                          *)

(* Ranges are in order and apart, and closed ranges hold a key.            *)
IsRangeMap(ranges) ==
  /\ ranges \in Seq(Range) /\ ranges # <<>>
  /\ \A i, j \in 1..Len(ranges) :
       i < j => /\ ranges[i].start <= ranges[i].end
                /\ ranges[i].end < ranges[j].start

(* Keys up to "end" keep their values, unless their range is forgotten.    *)
KeepsUpTo(ranges, new, end) ==
  /\ ranges[1].start <= new[1].start
  /\ \A key \in Int :
       /\ key <= end /\ new[1].start <= key /\ HasValue(ranges, key)
       => HasValue(new, key) /\ GetValue(new, key) = GetValue(ranges, key)

(* The ranges are ranges.                                                  *)
LEMMA RangesAreTyped ==
  ASSUME NEW ranges, IsRangeMap(ranges), NEW i \in 1..Len(ranges)
  PROVE  /\ ranges[i] \in Range
         /\ ranges[i].start \in Int /\ ranges[i].end \in Int /\ ranges[i].value \in Int
<1>1. ranges[i] \in Range
  BY DEF IsRangeMap
<1> QED BY <1>1 DEF Range

(* There is always an open range.                                          *)
LEMMA LengthIsPositive ==
  ASSUME NEW ranges, IsRangeMap(ranges)
  PROVE  /\ ranges \in Seq(Range)
         /\ Len(ranges) \in Nat /\ Len(ranges) >= 1
         /\ 1 \in 1..Len(ranges) /\ Len(ranges) \in 1..Len(ranges)
         /\ DOMAIN ranges = 1..Len(ranges)
BY DEF IsRangeMap

(* Ranges are in order and do not overlap.                                 *)
LEMMA RangesAreApart ==
  ASSUME NEW ranges, IsRangeMap(ranges),
         NEW i \in 1..Len(ranges), NEW j \in 1..Len(ranges), i < j
  PROVE  ranges[i].start <= ranges[i].end /\ ranges[i].end < ranges[j].start
BY DEF IsRangeMap

(* A key has one value: GetValue may look at the ranges in any order.      *)
LEMMA ValueIsUnique ==
  ASSUME NEW ranges, IsRangeMap(ranges), NEW key \in Int,
         NEW i \in 1..Len(ranges), Holds(ranges, i, key)
  PROVE  HasValue(ranges, key) /\ GetValue(ranges, key) = ranges[i].value
<1>1. DOMAIN ranges = 1..Len(ranges) /\ Len(ranges) \in Nat
  BY LengthIsPositive
<1>2. HasValue(ranges, key)
  BY <1>1 DEF HasValue
<1>3. ASSUME NEW j \in 1..Len(ranges), NEW k \in 1..Len(ranges), j < k,
             Holds(ranges, j, key), Holds(ranges, k, key)
      PROVE  FALSE
  <2>1. ranges[j].end < ranges[k].start
    BY <1>3, RangesAreApart
  <2>2. ranges[j].end \in Int /\ ranges[k].start \in Int
    BY RangesAreTyped
  <2>3. j # Len(ranges)
    <3>1. k <= Len(ranges) /\ j \in Int /\ k \in Int /\ Len(ranges) \in Int
      BY <1>1
    <3>2. j < k
      BY <1>3
    <3> QED BY <3>1, <3>2
  <2>4. key <= ranges[j].end /\ ranges[k].start <= key
    BY <1>3, <2>3 DEF Holds
  <2> QED BY <2>1, <2>2, <2>4
<1>4. \A j \in 1..Len(ranges) : Holds(ranges, j, key) => j = i
  BY <1>1, <1>3
<1>5. (CHOOSE j \in DOMAIN ranges : Holds(ranges, j, key)) = i
  BY <1>1, <1>4
<1> QED BY <1>2, <1>5 DEF GetValue

(* initRanges makes a range map.                                           *)
LEMMA InitRanges ==
  ASSUME NEW start \in Int, NEW val \in Int
  PROVE  /\ IsRangeMap(initRanges(start, val))
         /\ OpenRange(initRanges(start, val)).start = start
         /\ OpenRange(initRanges(start, val)).value = val
         /\ initRanges(start, val)[1].start = start
BY DEF initRanges, IsRangeMap, OpenRange, Range

(* The keys of the open range have its value.                              *)
LEMMA OpenValue ==
  ASSUME NEW ranges, IsRangeMap(ranges), NEW key \in Int,
         OpenRange(ranges).start <= key
  PROVE  HasValue(ranges, key) /\ GetValue(ranges, key) = OpenRange(ranges).value
<1>1. Len(ranges) \in 1..Len(ranges)
  BY DEF IsRangeMap
<1>2. Holds(ranges, Len(ranges), key)
  BY DEF Holds, OpenRange
<1> QED BY <1>1, <1>2, ValueIsUnique DEF OpenRange

(* Pruning forgets the oldest ranges and changes no other.                 *)
LEMMA Prune ==
  ASSUME NEW ranges, IsRangeMap(ranges), NEW size \in Nat \ {0}
  PROVE  /\ IsRangeMap(prune(ranges, size))
         /\ OpenRange(prune(ranges, size)) = OpenRange(ranges)
         /\ \A end \in Int : KeepsUpTo(ranges, prune(ranges, size), end)
<1>1. CASE ~(Len(ranges) > size + 1)
  <2>1. prune(ranges, size) = ranges
    BY <1>1 DEF prune
  <2>2. ranges[1].start \in Int
    BY LengthIsPositive, RangesAreTyped
  <2>3. \A end \in Int : KeepsUpTo(ranges, ranges, end)
    BY <2>2 DEF KeepsUpTo
  <2> QED BY <2>1, <2>3
<1>2. CASE Len(ranges) > size + 1
  <2> DEFINE new == prune(ranges, size)
             a == Len(ranges) - size
  <2>0. /\ ranges \in Seq(Range) /\ Len(ranges) \in Nat
        /\ a \in Nat /\ 1 <= a /\ a <= Len(ranges)
        /\ \A i \in 1..Len(ranges) : ranges[i] \in Range
    BY <1>2 DEF IsRangeMap
  <2>1. new = SubSeq(ranges, a, Len(ranges))
    BY <1>2 DEF prune
  <2>2. /\ new \in Seq(Range) /\ Len(new) = size + 1
        /\ \A i \in 1..Len(new) : i + a - 1 \in 1..Len(ranges) /\ new[i] = ranges[i + a - 1]
    BY <2>0, <2>1
  <2> HIDE DEF new, a
  <2>3. IsRangeMap(new)
    <3>1. new # <<>>
      BY <2>2
    <3>2. ASSUME NEW i \in 1..Len(new), NEW j \in 1..Len(new), i < j
          PROVE  new[i].start <= new[i].end /\ new[i].end < new[j].start
      <4>1. i + a - 1 \in 1..Len(ranges) /\ j + a - 1 \in 1..Len(ranges) /\ i + a - 1 < j + a - 1
        BY <2>0, <2>2, <3>2
      <4> QED BY <2>2, <4>1, RangesAreApart
    <3> QED BY <2>2, <3>1, <3>2 DEF IsRangeMap
  <2>4. OpenRange(new) = OpenRange(ranges)
    <3>1. a = Len(ranges) - size /\ Len(new) = size + 1 /\ Len(ranges) \in Nat
      BY <2>0, <2>2 DEF a
    <3>2. Len(new) \in 1..Len(new) /\ Len(new) + a - 1 = Len(ranges)
      BY <3>1
    <3>3. new[Len(new)] = ranges[Len(new) + a - 1]
      BY <2>2, <3>2
    <3> QED BY <3>2, <3>3 DEF OpenRange
  <2>5. 1 \in 1..Len(new) /\ new[1] = ranges[a]
    BY <2>0, <2>2
  <2>6. ranges[1].start <= new[1].start
    <3>1. 1 \in 1..Len(ranges) /\ a \in 1..Len(ranges)
      BY <2>0
    <3>2. ranges[1] \in Range /\ ranges[a] \in Range
      BY <2>0, <3>1
    <3>3. CASE a = 1
      BY <2>5, <3>2, <3>3 DEF Range
    <3>4. CASE 1 < a
      <4>1. ranges[1].start <= ranges[1].end /\ ranges[1].end < ranges[a].start
        BY <3>1, <3>4, RangesAreApart
      <4> QED BY <2>5, <3>2, <4>1 DEF Range
    <3> QED BY <2>0, <3>3, <3>4
  <2>7. ASSUME NEW key \in Int, new[1].start <= key, HasValue(ranges, key)
        PROVE  HasValue(new, key) /\ GetValue(new, key) = GetValue(ranges, key)
    <3>1. PICK i \in 1..Len(ranges) : Holds(ranges, i, key)
      BY <2>0, <2>7 DEF HasValue
    <3>2. a <= i
      <4>1. SUFFICES ASSUME i < a PROVE FALSE
        BY <2>0
      <4>2. ranges[i] \in Range /\ ranges[a] \in Range /\ a \in 1..Len(ranges)
        BY <2>0
      <4>3. ranges[i].end < ranges[a].start
        BY <4>1, <4>2, RangesAreApart
      <4>4. key <= ranges[i].end
        BY <2>0, <3>1, <4>1 DEF Holds
      <4> QED BY <2>5, <2>7, <4>2, <4>3, <4>4 DEF Range
    <3> DEFINE j == i - a + 1
    <3>3. j \in 1..Len(new) /\ (i = Len(ranges) <=> j = Len(new))
      <4>1. a = Len(ranges) - size /\ Len(new) = size + 1 /\ Len(ranges) \in Nat
        BY <2>0, <2>2 DEF a
      <4> QED BY <3>2, <4>1
    <3>4. new[j] = ranges[i]
      <4>1. j + a - 1 = i
        BY <2>0
      <4> QED BY <2>2, <3>3, <4>1
    <3>5. Holds(new, j, key)
      BY <3>1, <3>3, <3>4 DEF Holds
    <3> QED BY <2>3, <3>1, <3>3, <3>4, <3>5, ValueIsUnique
  <2>8. \A end \in Int : KeepsUpTo(ranges, new, end)
    BY <2>6, <2>7 DEF KeepsUpTo
  <2> QED BY <2>3, <2>4, <2>8 DEF new
<1> QED BY <1>1, <1>2

(* Only the open range is replaced.                                        *)
LEMMA ReplaceOpen ==
  ASSUME NEW ranges, IsRangeMap(ranges), NEW lr \in Range
  PROVE  LET new == WithOpenRange(ranges, lr)
         IN  /\ new \in Seq(Range) /\ Len(new) = Len(ranges)
             /\ \A i \in 1..Len(ranges) : i # Len(ranges) => new[i] = ranges[i]
             /\ new[Len(ranges)] = lr
BY DEF WithOpenRange, IsRangeMap

(* The open range is a range.                                              *)
LEMMA OpenIsTyped ==
  ASSUME NEW ranges, IsRangeMap(ranges)
  PROVE  /\ OpenRange(ranges) \in Range
         /\ OpenRange(ranges).start \in Int /\ OpenRange(ranges).value \in Int
         /\ OpenRange(ranges) = ranges[Len(ranges)]
BY LengthIsPositive, RangesAreTyped DEF OpenRange

(* The ranges when the open one ends and another begins.                   *)
Lengthened(ranges, end, start, value) ==
  Append(WithOpenRange(ranges, [OpenRange(ranges) EXCEPT !.end = end]),
         [start |-> start, end |-> 0, value |-> value])

(* They are in order and apart, and the closed ones stay as they are.      *)
LEMMA Lengthen ==
  ASSUME NEW ranges, IsRangeMap(ranges),
         NEW end \in Int, NEW start \in Int, NEW value \in Int,
         OpenRange(ranges).start <= end, end < start
  PROVE  LET long == Lengthened(ranges, end, start, value)
             n == Len(ranges)
         IN  /\ IsRangeMap(long) /\ Len(long) = n + 1
             /\ long[n + 1].start = start /\ long[n + 1].value = value
             /\ long[n].start = ranges[n].start /\ long[n].end = end
             /\ long[n].value = ranges[n].value
             /\ \A i \in 1..n : i # n => long[i] = ranges[i]
<1> DEFINE n == Len(ranges)
           last == [OpenRange(ranges) EXCEPT !.end = end]
           closed == WithOpenRange(ranges, last)
           open == [start |-> start, end |-> 0, value |-> value]
           long == Append(closed, open)
<1>1. /\ n \in Nat /\ 1 <= n /\ n \in 1..n /\ 1 \in 1..n /\ DOMAIN ranges = 1..n
  BY LengthIsPositive
<1>2. /\ last \in Range /\ last.start = ranges[n].start /\ last.end = end
      /\ last.value = ranges[n].value
      /\ ranges[n].start \in Int /\ ranges[n].start <= end
  BY OpenIsTyped DEF Range
<1>3. open \in Range /\ open.start = start /\ open.value = value
  BY DEF Range
<1> HIDE DEF last, open
<1>4. /\ closed \in Seq(Range) /\ Len(closed) = n
      /\ \A i \in 1..n : i # n => closed[i] = ranges[i]
      /\ closed[n] = last
  BY <1>2, ReplaceOpen
<1> HIDE DEF closed, n
<1>5. /\ long \in Seq(Range) /\ Len(long) = n + 1 /\ long[n + 1] = open
      /\ \A i \in 1..n : long[i] = closed[i]
  BY <1>1, <1>3, <1>4
<1> HIDE DEF long
<1>6. /\ \A i \in 1..n : i # n => long[i] = ranges[i]
      /\ long[n] = last
  BY <1>1, <1>4, <1>5
<1>7. IsRangeMap(long)
  <2>1. long # <<>>
    BY <1>1, <1>5
  <2>2. ASSUME NEW i \in 1..(n + 1), NEW j \in 1..(n + 1), i < j
        PROVE  long[i].start <= long[i].end /\ long[i].end < long[j].start
    <3>1. CASE j \in 1..n
      <4>1. i \in 1..n /\ i # n
        BY <1>1, <2>2, <3>1
      <4>2. ranges[i].start <= ranges[i].end /\ ranges[i].end < ranges[j].start
        BY <2>2, <3>1, <4>1, RangesAreApart DEF n
      <4>3. long[i] = ranges[i] /\ long[j].start = ranges[j].start
        BY <1>2, <1>6, <3>1, <4>1
      <4> QED BY <4>2, <4>3
    <3>2. CASE j = n + 1 /\ i = n
      BY <1>2, <1>3, <1>5, <1>6, <3>2
    <3>3. CASE j = n + 1 /\ i < n
      <4>1. i \in 1..n /\ i # n
        BY <1>1, <3>3
      <4>2. ranges[i].start <= ranges[i].end /\ ranges[i].end < ranges[n].start
        BY <1>1, <3>3, <4>1, RangesAreApart DEF n
      <4>3. ranges[i].end \in Int
        BY <4>1, RangesAreTyped DEF n
      <4> QED BY <1>2, <1>3, <1>5, <1>6, <3>3, <4>1, <4>2, <4>3
    <3> QED BY <1>1, <2>2, <3>1, <3>2, <3>3
  <2> QED BY <1>5, <2>1, <2>2 DEF IsRangeMap
<1> QED BY <1>2, <1>3, <1>5, <1>6, <1>7 DEF Lengthened, long, closed, open, last, n

(* Closing the open range leaves the keys up to its end alone.             *)
LEMMA CloseRange ==
  ASSUME NEW ranges, IsRangeMap(ranges), NEW size \in Nat \ {0},
         NEW end \in Int, NEW start \in Int, NEW value \in Int,
         OpenRange(ranges).start <= end, end < start
  PROVE  LET new == CloseOpenRange(ranges, end, start, value, size)
         IN  /\ IsRangeMap(new) /\ KeepsUpTo(ranges, new, end)
             /\ OpenRange(new).start = start /\ OpenRange(new).value = value
<1> DEFINE n == Len(ranges)
           long == Lengthened(ranges, end, start, value)
           new == CloseOpenRange(ranges, end, start, value, size)
<1>1. /\ n \in Nat /\ 1 <= n /\ n \in 1..n /\ 1 \in 1..n /\ DOMAIN ranges = 1..n
  BY LengthIsPositive
<1>2. /\ IsRangeMap(long) /\ Len(long) = n + 1
      /\ long[n + 1].start = start /\ long[n + 1].value = value
      /\ long[n].start = ranges[n].start /\ long[n].end = end
      /\ long[n].value = ranges[n].value
      /\ \A i \in 1..n : i # n => long[i] = ranges[i]
  BY Lengthen
<1> HIDE DEF long, n
<1>3. KeepsUpTo(ranges, long, end)
  <2>1. ranges[1].start \in Int
    BY <1>1, RangesAreTyped DEF n
  <2>2. ranges[1].start = long[1].start
    BY <1>1, <1>2
  <2>3. ASSUME NEW key \in Int, key <= end, HasValue(ranges, key)
        PROVE  HasValue(long, key) /\ GetValue(long, key) = GetValue(ranges, key)
    <3>1. PICK i \in 1..n : Holds(ranges, i, key)
      BY <1>1, <2>3 DEF HasValue
    <3>2. i \in 1..Len(long) /\ i # Len(long)
      BY <1>1, <1>2
    <3>3. long[i].value = ranges[i].value /\ Holds(long, i, key)
      BY <1>2, <2>3, <3>1, <3>2 DEF Holds, n
    <3> QED BY <1>2, <3>1, <3>2, <3>3, ValueIsUnique DEF n
  <2> QED BY <2>1, <2>2, <2>3 DEF KeepsUpTo
<1>4. new = prune(long, size)
  BY DEF CloseOpenRange, Lengthened, long
<1>5. OpenRange(long).start = start /\ OpenRange(long).value = value
  BY <1>2 DEF OpenRange
<1>6. /\ IsRangeMap(new) /\ OpenRange(new) = OpenRange(long)
       /\ KeepsUpTo(long, new, end)
  BY <1>2, <1>4, Prune
<1>7. KeepsUpTo(ranges, new, end)
  <2>1. /\ ranges[1].start \in Int /\ long[1].start \in Int
        /\ new[1].start \in Int
    BY <1>2, <1>6, LengthIsPositive, RangesAreTyped
  <2> QED BY <1>3, <1>6, <2>1 DEF KeepsUpTo
<1> QED BY <1>5, <1>6, <1>7

(* Changing the open range in place leaves the keys before it alone.       *)
LEMMA ChangeOpen ==
  ASSUME NEW ranges, IsRangeMap(ranges), NEW lr \in Range,
         OpenRange(ranges).start <= lr.start
  PROVE  LET new == WithOpenRange(ranges, lr)
         IN  /\ IsRangeMap(new) /\ OpenRange(new) = lr
             /\ \A end \in Int : end < OpenRange(ranges).start
                                   => KeepsUpTo(ranges, new, end)
<1> DEFINE n == Len(ranges)
           new == WithOpenRange(ranges, lr)
<1>1. /\ n \in Nat /\ 1 <= n /\ n \in 1..n /\ 1 \in 1..n /\ DOMAIN ranges = 1..n
  BY LengthIsPositive
<1>2. /\ OpenRange(ranges).start = ranges[n].start /\ ranges[n].start \in Int
      /\ lr.start \in Int /\ ranges[n].start <= lr.start
  BY OpenIsTyped DEF Range
<1>3. /\ new \in Seq(Range) /\ Len(new) = n
      /\ \A i \in 1..n : i # n => new[i] = ranges[i]
      /\ new[n] = lr
  BY ReplaceOpen
<1> HIDE DEF n, new
<1>4. IsRangeMap(new)
  <2>1. new # <<>>
    BY <1>1, <1>3
  <2>2. ASSUME NEW i \in 1..n, NEW j \in 1..n, i < j
        PROVE  new[i].start <= new[i].end /\ new[i].end < new[j].start
    <3>1. i # n
      BY <1>1, <2>2
    <3>2. ranges[i].start <= ranges[i].end /\ ranges[i].end < ranges[j].start
      BY <2>2, RangesAreApart DEF n
    <3>3. ranges[i].end \in Int /\ ranges[j].start \in Int
      BY RangesAreTyped DEF n
    <3> QED BY <1>2, <1>3, <3>1, <3>2, <3>3
  <2> QED BY <1>3, <2>1, <2>2 DEF IsRangeMap
<1>5. ASSUME NEW end \in Int, end < OpenRange(ranges).start
      PROVE  KeepsUpTo(ranges, new, end)
  <2>1. ranges[1].start \in Int
    BY <1>1, RangesAreTyped DEF n
  <2>2. ranges[1].start <= new[1].start
    BY <1>1, <1>2, <1>3, <2>1
  <2>3. ASSUME NEW key \in Int, key <= end, HasValue(ranges, key)
        PROVE  HasValue(new, key) /\ GetValue(new, key) = GetValue(ranges, key)
    <3>1. PICK i \in 1..n : Holds(ranges, i, key)
      BY <1>1, <2>3 DEF HasValue
    <3>2. i # n
      BY <1>2, <1>5, <2>3, <3>1 DEF Holds
    <3>3. i \in 1..Len(new) /\ new[i] = ranges[i] /\ Holds(new, i, key)
      BY <1>3, <3>1, <3>2 DEF Holds, n
    <3> QED BY <1>4, <3>1, <3>3, ValueIsUnique DEF n
  <2> QED BY <2>1, <2>2, <2>3 DEF KeepsUpTo
<1>6. OpenRange(new) = lr
  BY <1>3 DEF OpenRange
<1> QED BY <1>4, <1>5, <1>6 DEF new

(* DecValue: the keys after "end" get the smaller value, and the others    *)
(* keep theirs.                                                            *)
THEOREM DecKeepsOthers ==
  ASSUME NEW ranges, IsRangeMap(ranges), NEW size \in Nat \ {0},
         NEW end \in Int, NEW dec \in Int, OpenRange(ranges).start <= end + 1
  PROVE  LET new == DecValue(ranges, end, dec, size)
         IN  /\ IsRangeMap(new) /\ KeepsUpTo(ranges, new, end)
             /\ OpenRange(new).start = end + 1
             /\ OpenRange(new).value = OpenRange(ranges).value - dec
<1> DEFINE lr == OpenRange(ranges)
           new == DecValue(ranges, end, dec, size)
<1>1. lr \in Range /\ lr.start \in Int /\ lr.value \in Int
  BY OpenIsTyped
<1>2. CASE lr.start > end
  <2> DEFINE changed == [lr EXCEPT !.value = @ - dec]
  <2>1. new = WithOpenRange(ranges, changed)
    BY <1>2 DEF DecValue
  <2>2. /\ changed \in Range /\ changed.start = lr.start
        /\ changed.value = lr.value - dec
    BY <1>1 DEF Range
  <2>3. lr.start = end + 1 /\ lr.start <= changed.start /\ end < lr.start
    BY <1>1, <1>2, <2>2
  <2> HIDE DEF changed, new
  <2> QED BY <1>1, <2>1, <2>2, <2>3, ChangeOpen DEF new
<1>3. CASE ~(lr.start > end)
  <2>1. new = CloseOpenRange(ranges, end, end + 1, lr.value - dec, size)
    BY <1>3 DEF DecValue
  <2>2. lr.start <= end /\ end < end + 1 /\ lr.value - dec \in Int
    BY <1>1, <1>3
  <2> HIDE DEF new
  <2> QED BY <2>1, <2>2, CloseRange DEF new
<1> QED BY <1>2, <1>3

(* ExcludeRange of keys of the open range, from "first" to before "after": *)
(* they have no value any more, later keys get the greater value, earlier  *)
(* ones keep theirs.                                                       *)
THEOREM ExcludeKeepsOthers ==
  ASSUME NEW ranges, IsRangeMap(ranges), NEW size \in Nat \ {0},
         NEW first \in Int, NEW after \in Int, first < after,
         OpenRange(ranges).start <= first
  PROVE  LET new == ExcludeRange(ranges, first, after, size)
         IN  /\ IsRangeMap(new) /\ KeepsUpTo(ranges, new, first - 1)
             /\ OpenRange(new).start = after
             /\ OpenRange(new).value = OpenRange(ranges).value + (after - first)
<1> DEFINE lr == OpenRange(ranges)
           value == lr.value + (after - first)
           new == ExcludeRange(ranges, first, after, size)
<1>1. lr \in Range /\ lr.start \in Int /\ lr.value \in Int /\ value \in Int
  BY OpenIsTyped
<1>2. ~(after <= first \/ lr.start > first)
  BY <1>1
<1>3. CASE lr.start = first
  <2> DEFINE changed == [start |-> after, end |-> lr.end, value |-> value]
  <2>1. new = WithOpenRange(ranges, changed)
    BY <1>2, <1>3 DEF ExcludeRange
  <2>2. /\ changed \in Range /\ changed.start = after
        /\ changed.value = value
    BY <1>1 DEF Range
  <2>3. lr.start <= changed.start /\ first - 1 < lr.start /\ first - 1 \in Int
    BY <1>1, <1>3, <2>2
  <2> HIDE DEF changed, new
  <2> QED BY <1>1, <2>1, <2>2, <2>3, ChangeOpen DEF new
<1>4. CASE lr.start # first
  <2>1. new = CloseOpenRange(ranges, first - 1, after, value, size)
    BY <1>2, <1>4 DEF ExcludeRange
  <2>2. lr.start <= first - 1 /\ first - 1 < after /\ first - 1 \in Int
    BY <1>1, <1>4
  <2> HIDE DEF new
  <2> QED BY <1>1, <2>1, <2>2, CloseRange DEF new
<1> QED BY <1>3, <1>4

(* Later ranges leave out more, so that later keys never get lower slots.  *)
Steady(ranges) ==
  \A i, j \in 1..Len(ranges) :
    i < j => /\ ranges[i].value <= ranges[j].value
             /\ ranges[i].end - ranges[i].value < ranges[j].start - ranges[j].value

(* Of two keys, the later one has the greater value, and less what is left *)
(* out it is still the later one.                                          *)
LEMMA SteadyKeys ==
  ASSUME NEW ranges, IsRangeMap(ranges), Steady(ranges),
         NEW a \in Int, NEW b \in Int, a < b, HasValue(ranges, a), HasValue(ranges, b)
  PROVE  /\ GetValue(ranges, a) \in Int /\ GetValue(ranges, b) \in Int
         /\ GetValue(ranges, a) <= GetValue(ranges, b)
         /\ a - GetValue(ranges, a) < b - GetValue(ranges, b)
<1>1. DOMAIN ranges = 1..Len(ranges) /\ Len(ranges) \in Nat
  BY LengthIsPositive
<1>2. PICK i \in 1..Len(ranges) : Holds(ranges, i, a)
  BY <1>1 DEF HasValue
<1>3. PICK j \in 1..Len(ranges) : Holds(ranges, j, b)
  BY <1>1 DEF HasValue
<1>4. GetValue(ranges, a) = ranges[i].value /\ GetValue(ranges, b) = ranges[j].value
  BY <1>2, <1>3, ValueIsUnique
<1>5. /\ ranges[i].start \in Int /\ ranges[i].end \in Int /\ ranges[i].value \in Int
      /\ ranges[j].start \in Int /\ ranges[j].end \in Int /\ ranges[j].value \in Int
  BY RangesAreTyped
<1>6. /\ ranges[i].start <= a /\ (i = Len(ranges) \/ a <= ranges[i].end)
      /\ ranges[j].start <= b /\ (j = Len(ranges) \/ b <= ranges[j].end)
  BY <1>2, <1>3 DEF Holds
<1>7. CASE i = j
  BY <1>4, <1>5, <1>7
<1>8. CASE i < j
  <2>1. /\ ranges[i].value <= ranges[j].value
        /\ ranges[i].end - ranges[i].value < ranges[j].start - ranges[j].value
    BY <1>8 DEF Steady
  <2>2. i # Len(ranges)
    <3>1. j <= Len(ranges) /\ i \in Int /\ j \in Int /\ Len(ranges) \in Int
      BY <1>1
    <3>2. i < j
      BY <1>8
    <3> QED BY ONLY <3>1, <3>2
  <2>3. a <= ranges[i].end /\ ranges[j].start <= b
    BY ONLY <1>6, <2>2
  <2>4. /\ a - ranges[i].value <= ranges[i].end - ranges[i].value
        /\ ranges[j].start - ranges[j].value <= b - ranges[j].value
    BY ONLY <1>5, <2>3, a \in Int, b \in Int
  <2>5. a - ranges[i].value < b - ranges[j].value
    BY ONLY <1>5, <2>1, <2>4, a \in Int, b \in Int
  <2> QED BY ONLY <1>4, <1>5, <2>1, <2>5
<1>9. CASE j < i
  <2>1. ranges[j].end < ranges[i].start
    BY <1>9, RangesAreApart
  <2>2. j # Len(ranges)
    <3>1. i <= Len(ranges) /\ i \in Int /\ j \in Int /\ Len(ranges) \in Int
      BY <1>1
    <3>2. j < i
      BY <1>9
    <3> QED BY ONLY <3>1, <3>2
  <2> QED BY <1>5, <1>6, <2>1, <2>2
<1> QED BY <1>1, <1>7, <1>8, <1>9

(* Forgetting ranges leaves the others in order.                           *)
LEMMA PruneSteady ==
  ASSUME NEW ranges, IsRangeMap(ranges), Steady(ranges), NEW size \in Nat \ {0}
  PROVE  Steady(prune(ranges, size))
<1>1. CASE ~(Len(ranges) > size + 1)
  BY <1>1 DEF prune
<1>2. CASE Len(ranges) > size + 1
  <2> DEFINE new == prune(ranges, size)
             a == Len(ranges) - size
  <2>1. ranges \in Seq(Range) /\ Len(ranges) \in Nat /\ a \in Nat /\ 1 <= a
    BY <1>2 DEF IsRangeMap
  <2>2. new = SubSeq(ranges, a, Len(ranges))
    BY <1>2 DEF prune
  <2>3. \A i \in 1..Len(new) : i + a - 1 \in 1..Len(ranges) /\ new[i] = ranges[i + a - 1]
    BY <2>1, <2>2
  <2> HIDE DEF new, a
  <2>4. ASSUME NEW i \in 1..Len(new), NEW j \in 1..Len(new), i < j
        PROVE  /\ new[i].value <= new[j].value
               /\ new[i].end - new[i].value < new[j].start - new[j].value
    <3>1. i + a - 1 \in 1..Len(ranges) /\ j + a - 1 \in 1..Len(ranges)
      BY <2>3
    <3>2. i + a - 1 < j + a - 1
      BY <2>1, <2>4
    <3>3. new[i] = ranges[i + a - 1] /\ new[j] = ranges[j + a - 1]
      BY <2>3

    <3>4. /\ ranges[i + a - 1].value <= ranges[j + a - 1].value
          /\ ranges[i + a - 1].end - ranges[i + a - 1].value
               < ranges[j + a - 1].start - ranges[j + a - 1].value
      BY <3>1, <3>2 DEF Steady
    <3> QED BY <3>3, <3>4
  <2> QED BY <2>4 DEF Steady, new
<1> QED BY <1>1, <1>2

(* Closing the open range, when what is left out adds to the value.        *)
LEMMA CloseSteady ==
  ASSUME NEW ranges, IsRangeMap(ranges), Steady(ranges), NEW size \in Nat \ {0},
         NEW first \in Int, NEW after \in Int, first < after,
         OpenRange(ranges).start < first
  PROVE  Steady(CloseOpenRange(ranges, first - 1, after,
                               OpenRange(ranges).value + (after - first), size))
<1> DEFINE n == Len(ranges)
           value == OpenRange(ranges).value + (after - first)
           long == Lengthened(ranges, first - 1, after, value)
<1>1. n \in Nat /\ 1 <= n /\ n \in 1..n
  BY LengthIsPositive
<1>2. /\ OpenRange(ranges) = ranges[n] /\ ranges[n].start \in Int
      /\ ranges[n].value \in Int /\ value = ranges[n].value + (after - first)
  BY OpenIsTyped
<1>3. value \in Int /\ first - 1 \in Int /\ ranges[n].start <= first - 1 /\ first - 1 < after
  BY <1>2
<1> HIDE DEF value
<1>4. /\ IsRangeMap(long) /\ Len(long) = n + 1
      /\ long[n + 1].start = after /\ long[n + 1].value = value
      /\ long[n].start = ranges[n].start /\ long[n].end = first - 1
      /\ long[n].value = ranges[n].value
      /\ \A i \in 1..n : i # n => long[i] = ranges[i]
  <2>1. OpenRange(ranges).start <= first - 1
    BY ONLY <1>2, <1>3
  <2> QED BY ONLY IsRangeMap(ranges), after \in Int, <1>3, <2>1, Lengthen
<1> HIDE DEF long, n
<1>5. ASSUME NEW i \in 1..(n + 1), NEW j \in 1..(n + 1), i < j
      PROVE  /\ long[i].value <= long[j].value
             /\ long[i].end - long[i].value < long[j].start - long[j].value
  <2>1. CASE j \in 1..n
    <3>1. i \in 1..n /\ i # n
      BY <1>1, <1>5, <2>1
    <3>2. /\ ranges[i].value <= ranges[j].value
          /\ ranges[i].end - ranges[i].value < ranges[j].start - ranges[j].value
      BY <1>5, <2>1, <3>1 DEF Steady, n
    <3>3. /\ long[i] = ranges[i] /\ long[j].start = ranges[j].start
          /\ long[j].value = ranges[j].value
      BY <1>4, <2>1, <3>1
    <3> QED BY <3>2, <3>3
  <2>2. CASE j = n + 1 /\ i = n
    BY <1>2, <1>3, <1>4, <2>2
  <2>3. CASE j = n + 1 /\ i < n
    <3>1. i \in 1..n /\ i # n
      BY <1>1, <2>3
    <3>2. /\ ranges[i].value <= ranges[n].value
          /\ ranges[i].end - ranges[i].value < ranges[n].start - ranges[n].value
      BY <1>1, <2>3, <3>1 DEF Steady, n
    <3>3. ranges[i].value \in Int /\ ranges[i].end \in Int
      BY <3>1, RangesAreTyped DEF n
    <3>4. long[i] = ranges[i] /\ long[j].start = after /\ long[j].value = value
      BY <1>4, <2>3, <3>1
    <3> QED BY <1>2, <1>3, <3>2, <3>3, <3>4
  <2> QED BY <1>1, <1>5, <2>1, <2>2, <2>3
<1>6. Steady(long)
  BY <1>4, <1>5 DEF Steady
<1> QED BY <1>4, <1>6, PruneSteady DEF CloseOpenRange, Lengthened, long, value

(* ExcludeRange keeps the order: what it leaves out adds to the value.     *)
LEMMA ExcludeSteady ==
  ASSUME NEW ranges, IsRangeMap(ranges), Steady(ranges), NEW size \in Nat \ {0},
         NEW first \in Int, NEW after \in Int, first < after,
         OpenRange(ranges).start <= first
  PROVE  Steady(ExcludeRange(ranges, first, after, size))
<1> DEFINE lr == OpenRange(ranges)
           value == lr.value + (after - first)
           n == Len(ranges)
<1>1. /\ lr \in Range /\ lr.start \in Int /\ lr.value \in Int /\ value \in Int
      /\ lr = ranges[n]
  BY OpenIsTyped
<1>2. ~(after <= first \/ lr.start > first)
  BY <1>1
<1>3. CASE lr.start = first
  <2> DEFINE changed == [start |-> after, end |-> lr.end, value |-> value]
             new == WithOpenRange(ranges, changed)
  <2>1. ExcludeRange(ranges, first, after, size) = new
    BY <1>2, <1>3 DEF ExcludeRange
  <2>2. /\ changed \in Range /\ changed.start = after
        /\ changed.value = value
    BY <1>1 DEF Range
  <2> HIDE DEF changed
  <2>3. /\ Len(new) = n /\ new[n] = changed
        /\ \A i \in 1..n : i # n => new[i] = ranges[i]
    BY <2>2, ReplaceOpen
  <2> HIDE DEF new
  <2>4. ASSUME NEW i \in 1..n, NEW j \in 1..n, i < j
        PROVE  /\ new[i].value <= new[j].value
               /\ new[i].end - new[i].value < new[j].start - new[j].value
    <3>1. i # n /\ new[i] = ranges[i]
      BY <2>3, <2>4, LengthIsPositive
    <3>2. /\ ranges[i].value <= ranges[j].value
          /\ ranges[i].end - ranges[i].value < ranges[j].start - ranges[j].value
      BY <2>4 DEF Steady
    <3>3. CASE j # n
      BY <2>3, <3>1, <3>2, <3>3
    <3>4. CASE j = n
      <4>1. new[j].start = after /\ new[j].value = value /\ ranges[j] = lr
        BY <1>1, <2>2, <2>3, <3>4
      <4>2. ranges[i].value \in Int /\ ranges[i].end \in Int
        BY RangesAreTyped
      <4>3. after - value = lr.start - lr.value /\ lr.value <= value
        BY <1>1, <1>3
      <4>4. /\ ranges[i].value <= lr.value
            /\ ranges[i].end - ranges[i].value < lr.start - lr.value
        BY ONLY <3>2, <4>1
      <4>5. ranges[i].value <= value
        BY ONLY <1>1, <4>2, <4>3, <4>4
      <4> QED BY ONLY <3>1, <4>1, <4>3, <4>4, <4>5
    <3> QED BY ONLY <3>3, <3>4
  <2> QED BY <2>1, <2>3, <2>4 DEF Steady
<1>4. CASE lr.start # first
  <2>1. /\ ExcludeRange(ranges, first, after, size)
             = CloseOpenRange(ranges, first - 1, after, value, size)
        /\ lr.start < first
    BY <1>1, <1>2, <1>4 DEF ExcludeRange
  <2> QED BY <2>1, CloseSteady
<1> QED BY <1>3, <1>4

-----------------------------------------------------------------------------
(* The inductive invariant.                                                *)

NextSN(m) == m.extHighestIncomingSN + 1 - m.snOffset

GoodMunger(m) ==
  /\ m \in Munger /\ IsRangeMap(m.snRangeMap)
  /\ OpenRange(m.snRangeMap).start <= m.extHighestIncomingSN + 1
  /\ OpenRange(m.snRangeMap).value = m.snOffset

(* The numbers that were sent, and those kept for missing packets of a     *)
(* layer, as the munger sees them.                                         *)
Fits(m, layer, kept, sent, seen) ==
  /\ \A p \in sent : p.n < NextSN(m)
  /\ \A r \in kept : r.n < NextSN(m)
  /\ \A r, s \in kept : r.n = s.n => r.sn = s.sn
  /\ \A p \in sent, r \in kept : p.n = r.n => p.by = layer /\ p.sn = r.sn
  /\ \A k \in Source \ seen :
       /\ m.snRangeMap[1].start <= k /\ k <= m.extHighestIncomingSN
       => /\ HasValue(m.snRangeMap, k)
          /\ [sn |-> k, n |-> k - GetValue(m.snRangeMap, k)] \in kept

Types ==
  /\ arrived \in [Layer -> SUBSET Source]
  /\ lastSSRC \in {0} \cup Layer /\ started \in BOOLEAN /\ munger \in Munger
  /\ used \subseteq [n : Int, by : {0} \cup Layer, sn : Int]
  /\ reserved \subseteq [sn : Int, n : Int]

Numbered ==
  /\ ~started => used = {} /\ lastSSRC = 0
  /\ started => /\ GoodMunger(munger)
                /\ NextSN(munger) \in {munger.extLastSN, munger.extLastSN + 1}
                /\ \A p \in used : p.n <= munger.extLastSN

KeptNumbers ==
  /\ lastSSRC = 0 => reserved = {}
  /\ lastSSRC # 0 =>
       /\ NextSN(munger) = munger.extLastSN + 1
       /\ \A r \in reserved : r.n < munger.extLastSN
       /\ Fits(munger, lastSSRC, reserved, used, arrived[lastSSRC])
       /\ kind # "simulcast" => lastSSRC = 1

SentArrived == \A p \in used : p.by # 0 => p.sn \in arrived[p.by]

IInv == Types /\ Numbered /\ KeptNumbers /\ SentArrived /\ NumbersAreUnique

-----------------------------------------------------------------------------
(* The munger.                                                             *)

(* The fields of a munger have their types.                                *)
LEMMA MungerFields ==
  ASSUME NEW m \in Munger
  PROVE  /\ m.extHighestIncomingSN \in Int /\ m.snRangeMap \in Seq(Range)
         /\ m.extLastSN \in Int /\ m.extSecondLastSN \in Int /\ m.snOffset \in Int
BY DEF Munger

(* updateSnOffset finds the value of the open range.                       *)
LEMMA OffsetIsOpenValue ==
  ASSUME NEW m \in Munger, IsRangeMap(m.snRangeMap),
         OpenRange(m.snRangeMap).start <= m.extHighestIncomingSN + 1
  PROVE  /\ GoodMunger(WithOffset(m))
         /\ WithOffset(m).snOffset = OpenRange(m.snRangeMap).value
         /\ WithOffset(m).extHighestIncomingSN = m.extHighestIncomingSN
         /\ WithOffset(m).snRangeMap = m.snRangeMap
         /\ WithOffset(m).extLastSN = m.extLastSN
         /\ WithOffset(m).extSecondLastSN = m.extSecondLastSN
<1> DEFINE v == OpenRange(m.snRangeMap).value
<1>1. m.extHighestIncomingSN + 1 \in Int
  BY MungerFields
<1>2. v \in Int
  BY OpenIsTyped
<1>3. /\ HasValue(m.snRangeMap, m.extHighestIncomingSN + 1)
      /\ GetValue(m.snRangeMap, m.extHighestIncomingSN + 1) = v
  BY <1>1, OpenValue
<1>4. WithOffset(m) = [m EXCEPT !.snOffset = v]
  BY <1>3 DEF WithOffset
<1> HIDE DEF v
<1>5. /\ WithOffset(m) \in Munger
      /\ WithOffset(m).snOffset = v
      /\ WithOffset(m).extHighestIncomingSN = m.extHighestIncomingSN
      /\ WithOffset(m).snRangeMap = m.snRangeMap
      /\ WithOffset(m).extLastSN = m.extLastSN
      /\ WithOffset(m).extSecondLastSN = m.extSecondLastSN
  BY <1>2, <1>4 DEF Munger
<1> QED BY <1>5 DEF GoodMunger, v

(* SetLastSnTs: the next packet gets the number that counts as the last.   *)
LEMMA SetLastGood ==
  ASSUME NEW sn \in Int
  PROVE  LET m == SetLastSnTs(sn)
         IN  /\ GoodMunger(m) /\ NextSN(m) = sn /\ m.extLastSN = sn
             /\ m.extHighestIncomingSN = sn - 1 /\ m.snRangeMap[1].start = sn
<1> DEFINE w == [extHighestIncomingSN |-> sn - 1, snRangeMap |-> initRanges(sn, 0),
                 extLastSN |-> sn, extSecondLastSN |-> sn - 1, snOffset |-> 0]
<1>1. /\ IsRangeMap(initRanges(sn, 0)) /\ initRanges(sn, 0)[1].start = sn
      /\ OpenRange(initRanges(sn, 0)).start = sn /\ OpenRange(initRanges(sn, 0)).value = 0
      /\ initRanges(sn, 0) \in Seq(Range)
  <2>1. 0 \in Int
    OBVIOUS
  <2>2. IsRangeMap(initRanges(sn, 0))
    BY <2>1, InitRanges
  <2> QED BY <2>1, <2>2, InitRanges, LengthIsPositive
<1>2. w \in Munger /\ w.extHighestIncomingSN = sn - 1 /\ w.snRangeMap = initRanges(sn, 0)
      /\ w.extLastSN = sn
  BY <1>1 DEF Munger
<1>3. SetLastSnTs(sn) = WithOffset(w)
  BY DEF SetLastSnTs
<1> HIDE DEF w
<1>4. OpenRange(w.snRangeMap).start <= w.extHighestIncomingSN + 1
  BY <1>1, <1>2
<1> QED BY <1>1, <1>2, <1>3, <1>4, OffsetIsOpenValue DEF NextSN

(* UpdateSnTsOffsets: the next packet follows on the last number.          *)
LEMMA SwitchGood ==
  ASSUME NEW m \in Munger, NEW sn \in Int
  PROVE  LET s == UpdateSnTsOffsets(m, sn, 1)
         IN  /\ GoodMunger(s) /\ NextSN(s) = m.extLastSN + 1
             /\ s.extLastSN = m.extLastSN
             /\ s.extHighestIncomingSN = sn - 1 /\ s.snRangeMap[1].start = sn
<1> DEFINE v == sn - m.extLastSN - 1
           w == [m EXCEPT !.extHighestIncomingSN = sn - 1, !.snRangeMap = initRanges(sn, v)]
<1>0. v \in Int /\ m.extLastSN \in Int
  BY MungerFields
<1>1. /\ IsRangeMap(initRanges(sn, v)) /\ initRanges(sn, v)[1].start = sn
      /\ OpenRange(initRanges(sn, v)).start = sn /\ OpenRange(initRanges(sn, v)).value = v
      /\ initRanges(sn, v) \in Seq(Range)
  BY <1>0, InitRanges, LengthIsPositive
<1>3. UpdateSnTsOffsets(m, sn, 1) = WithOffset(w)
  BY DEF UpdateSnTsOffsets
<1>2. w \in Munger /\ w.extHighestIncomingSN = sn - 1 /\ w.snRangeMap = initRanges(sn, v)
      /\ w.extLastSN = m.extLastSN
  <2> DEFINE ranges == initRanges(sn, v)
             h == sn - 1
  <2>1. ranges \in Seq(Range) /\ h \in Int
    BY <1>1
  <2> HIDE DEF ranges, h, v
  <2>2. /\ [m EXCEPT !.extHighestIncomingSN = h, !.snRangeMap = ranges] \in Munger
        /\ [m EXCEPT !.extHighestIncomingSN = h, !.snRangeMap = ranges].extHighestIncomingSN = h
        /\ [m EXCEPT !.extHighestIncomingSN = h, !.snRangeMap = ranges].snRangeMap = ranges
        /\ [m EXCEPT !.extHighestIncomingSN = h, !.snRangeMap = ranges].extLastSN = m.extLastSN
    BY <2>1 DEF Munger
  <2> QED BY <2>2 DEF ranges, h
<1> HIDE DEF w
<1>4. OpenRange(w.snRangeMap).start <= w.extHighestIncomingSN + 1
  BY <1>1, <1>2
<1> DEFINE s == WithOffset(w)
<1>5. /\ GoodMunger(s) /\ s.snOffset = v /\ s.extHighestIncomingSN = sn - 1
      /\ s.snRangeMap = initRanges(sn, v) /\ s.extLastSN = m.extLastSN
  BY <1>1, <1>2, <1>4, OffsetIsOpenValue
<1>6. NextSN(s) = m.extLastSN + 1
  BY <1>0, <1>5 DEF NextSN
<1> QED BY <1>1, <1>3, <1>5, <1>6

(* A packet that is not sent is excluded and leaves the next number.       *)
LEMMA ExcludedGood ==
  ASSUME NEW m \in Munger, IsRangeMap(m.snRangeMap), NEW sn \in Int,
         OpenRange(m.snRangeMap).start <= sn,
         OpenRange(m.snRangeMap).value = m.snOffset
  PROVE  LET e == Excluded(m, sn)
         IN  /\ GoodMunger(e) /\ NextSN(e) = sn - m.snOffset
             /\ e.extLastSN = m.extLastSN /\ e.extSecondLastSN = m.extSecondLastSN
             /\ e.extHighestIncomingSN = sn
             /\ KeepsUpTo(m.snRangeMap, e.snRangeMap, sn - 1)
<1> DEFINE ranges == ExcludeRange(m.snRangeMap, sn, sn + 1, MungerRanges)
           w == [m EXCEPT !.extHighestIncomingSN = sn, !.snRangeMap = ranges]
<1>1. MungerRanges \in Nat \ {0}
  BY ForwardingAssumption
<1>2. /\ IsRangeMap(ranges) /\ KeepsUpTo(m.snRangeMap, ranges, sn - 1)
      /\ OpenRange(ranges).start = sn + 1 /\ OpenRange(ranges).value = m.snOffset + 1
  <2>1. sn < sn + 1 /\ sn + 1 \in Int /\ (sn + 1) - sn = 1
    OBVIOUS
  <2> QED BY <1>1, <2>1, ExcludeKeepsOthers
<1>3. Excluded(m, sn) = WithOffset(w)
  BY DEF Excluded
<1> HIDE DEF ranges
<1>4. ranges \in Seq(Range) /\ m.snOffset \in Int
  BY <1>2, LengthIsPositive, MungerFields
<1>5. /\ w \in Munger /\ w.extHighestIncomingSN = sn /\ w.snRangeMap = ranges
      /\ w.extLastSN = m.extLastSN /\ w.extSecondLastSN = m.extSecondLastSN
  BY <1>4 DEF Munger
<1> HIDE DEF w
<1>6. OpenRange(w.snRangeMap).start <= w.extHighestIncomingSN + 1
  BY <1>2, <1>5
<1> DEFINE e == WithOffset(w)
<1>7. /\ GoodMunger(e) /\ e.snOffset = m.snOffset + 1
      /\ e.extHighestIncomingSN = sn /\ e.snRangeMap = ranges
      /\ e.extLastSN = m.extLastSN /\ e.extSecondLastSN = m.extSecondLastSN
  BY <1>2, <1>5, <1>6, OffsetIsOpenValue
<1>8. NextSN(e) = sn - m.snOffset
  BY <1>4, <1>7 DEF NextSN
<1> QED BY <1>2, <1>3, <1>7, <1>8

(* UpdateAndGetSnTs in order.                                              *)
LEMMA AdvanceGood ==
  ASSUME NEW m, GoodMunger(m), NEW sn \in Int, m.extHighestIncomingSN < sn
  PROVE  LET a == Advance(m, sn)
         IN  /\ GoodMunger(a) /\ NextSN(a) = a.extLastSN + 1
             /\ a.extLastSN = MungedSN(m, sn) /\ NextSN(m) <= a.extLastSN
             /\ a.extHighestIncomingSN = sn /\ a.snRangeMap = m.snRangeMap
             /\ a.extSecondLastSN = m.extLastSN /\ a.snOffset = m.snOffset
<1>1. /\ m \in Munger /\ m.snOffset \in Int /\ m.extLastSN \in Int
      /\ m.extHighestIncomingSN \in Int /\ IsRangeMap(m.snRangeMap)
  BY MungerFields DEF GoodMunger
<1>2. OpenRange(m.snRangeMap).start \in Int
  BY <1>1, OpenIsTyped
<1> DEFINE a == Advance(m, sn)
<1>3. /\ a \in Munger /\ a.extLastSN = sn - m.snOffset
      /\ a.extHighestIncomingSN = sn /\ a.snRangeMap = m.snRangeMap
      /\ a.extSecondLastSN = m.extLastSN /\ a.snOffset = m.snOffset
  <2> DEFINE h == sn - m.snOffset
             second == m.extLastSN
  <2>1. h \in Int /\ second \in Int
    BY <1>1
  <2>2. a = [m EXCEPT !.extHighestIncomingSN = sn, !.extSecondLastSN = second,
                      !.extLastSN = h]
    BY DEF Advance, MungedSN
  <2> HIDE DEF h, second, a
  <2>3. a = [extHighestIncomingSN |-> sn, snRangeMap |-> m.snRangeMap, extLastSN |-> h,
             extSecondLastSN |-> second, snOffset |-> m.snOffset]
    BY <1>1, <2>1, <2>2 DEF Munger
  <2> QED BY <1>1, <2>1, <2>3, MungerFields DEF Munger, h, second
<1> HIDE DEF a
<1>4. OpenRange(m.snRangeMap).start <= sn + 1
  BY <1>1, <1>2 DEF GoodMunger
<1>5. GoodMunger(a)
  BY <1>1, <1>3, <1>4 DEF GoodMunger
<1> QED BY <1>1, <1>3, <1>5 DEF NextSN, MungedSN, a

(* PacketDropped of the packet that was translated last.                   *)
LEMMA DroppedGood ==
  ASSUME NEW m, GoodMunger(m), NEW sn \in Int, sn = m.extHighestIncomingSN + 1
  PROVE  LET d == PacketDropped(Advance(m, sn), sn)
         IN  /\ GoodMunger(d) /\ NextSN(d) = NextSN(m)
             /\ d.extLastSN = m.extLastSN /\ d.extHighestIncomingSN = sn
             /\ KeepsUpTo(m.snRangeMap, d.snRangeMap, sn - 1)
<1>1. /\ m \in Munger /\ m.snOffset \in Int /\ m.extLastSN \in Int
      /\ m.extHighestIncomingSN \in Int /\ IsRangeMap(m.snRangeMap)
      /\ m.extHighestIncomingSN < sn
      /\ OpenRange(m.snRangeMap).start <= sn
      /\ OpenRange(m.snRangeMap).value = m.snOffset
  BY MungerFields DEF GoodMunger
<1> DEFINE a == Advance(m, sn)
           e == Excluded(a, sn)
           d == PacketDropped(a, sn)
<1>2. /\ GoodMunger(a) /\ a.extHighestIncomingSN = sn /\ a.snRangeMap = m.snRangeMap
      /\ a.extSecondLastSN = m.extLastSN /\ a.snOffset = m.snOffset
  BY <1>1, AdvanceGood
<1>3. a \in Munger
  BY <1>2 DEF GoodMunger
<1> HIDE DEF a
<1>4. /\ GoodMunger(e) /\ NextSN(e) = sn - m.snOffset
      /\ e.extHighestIncomingSN = sn
      /\ KeepsUpTo(m.snRangeMap, e.snRangeMap, sn - 1)
  BY <1>1, <1>2, <1>3, ExcludedGood
<1>5. d = [e EXCEPT !.extLastSN = a.extSecondLastSN]
  BY <1>2 DEF PacketDropped
<1>6. e \in Munger
  BY <1>4 DEF GoodMunger
<1> HIDE DEF e, d
<1>7. /\ d \in Munger /\ d.extLastSN = m.extLastSN
      /\ d.extHighestIncomingSN = e.extHighestIncomingSN
      /\ d.snRangeMap = e.snRangeMap /\ d.snOffset = e.snOffset
  BY <1>1, <1>2, <1>5, <1>6 DEF Munger
<1>8. GoodMunger(d) /\ NextSN(d) = NextSN(e)
  BY <1>4, <1>7 DEF GoodMunger, NextSN
<1>9. NextSN(m) = sn - m.snOffset
  BY <1>1 DEF NextSN
<1> QED BY <1>4, <1>7, <1>8, <1>9 DEF a, d

(* UpdateAndGetPaddingSnTs.                                                *)
LEMMA PaddingGood ==
  ASSUME NEW m, GoodMunger(m), NEW num \in Nat
  PROVE  LET p == UpdateAndGetPaddingSnTs(m, num)
         IN  /\ GoodMunger(p) /\ NextSN(p) = NextSN(m) + num
             /\ p.extLastSN = m.extLastSN + num
             /\ p.extHighestIncomingSN = m.extHighestIncomingSN
             /\ KeepsUpTo(m.snRangeMap, p.snRangeMap, m.extHighestIncomingSN)
<1>1. /\ m \in Munger /\ m.snOffset \in Int /\ m.extLastSN \in Int
      /\ m.extHighestIncomingSN \in Int /\ IsRangeMap(m.snRangeMap)
      /\ OpenRange(m.snRangeMap).start <= m.extHighestIncomingSN + 1
      /\ OpenRange(m.snRangeMap).value = m.snOffset
  BY MungerFields DEF GoodMunger
<1> DEFINE ranges == DecValue(m.snRangeMap, m.extHighestIncomingSN, num, MungerRanges)
           w == [m EXCEPT !.extSecondLastSN = m.extLastSN + num - 1,
                          !.extLastSN = m.extLastSN + num,
                          !.snRangeMap = ranges]
<1>2. MungerRanges \in Nat \ {0} /\ num \in Int
  BY ForwardingAssumption
<1>3. /\ IsRangeMap(ranges)
      /\ KeepsUpTo(m.snRangeMap, ranges, m.extHighestIncomingSN)
      /\ OpenRange(ranges).start = m.extHighestIncomingSN + 1
      /\ OpenRange(ranges).value = m.snOffset - num
  BY <1>1, <1>2, DecKeepsOthers
<1>4. UpdateAndGetPaddingSnTs(m, num) = WithOffset(w)
  BY DEF UpdateAndGetPaddingSnTs
<1> HIDE DEF ranges
<1>5. ranges \in Seq(Range)
  BY <1>3, LengthIsPositive
<1>6. /\ w \in Munger /\ w.extHighestIncomingSN = m.extHighestIncomingSN
      /\ w.snRangeMap = ranges /\ w.extLastSN = m.extLastSN + num
  <2> DEFINE second == m.extLastSN + num - 1
             last == m.extLastSN + num
  <2>1. second \in Int /\ last \in Int
    BY <1>1
  <2>2. w = [m EXCEPT !.extSecondLastSN = second, !.extLastSN = last, !.snRangeMap = ranges]
    OBVIOUS
  <2> HIDE DEF second, last, w
  <2>3. w = [extHighestIncomingSN |-> m.extHighestIncomingSN, snRangeMap |-> ranges,
             extLastSN |-> last, extSecondLastSN |-> second, snOffset |-> m.snOffset]
    BY <1>1, <1>5, <2>1, <2>2 DEF Munger
  <2> QED BY <1>1, <1>5, <2>1, <2>3 DEF Munger, last
<1> HIDE DEF w
<1>7. OpenRange(w.snRangeMap).start <= w.extHighestIncomingSN + 1
  BY <1>1, <1>3, <1>6
<1> QED BY <1>1, <1>3, <1>4, <1>6, <1>7, OffsetIsOpenValue DEF NextSN

-----------------------------------------------------------------------------
(* What the munger does to the numbers that are sent and kept.             *)

(* A packet in order: the packets that it passes over keep numbers between *)
(* the last one and its own.                                               *)
LEMMA AdvanceFits ==
  ASSUME NEW m, GoodMunger(m), NEW sn \in Source, m.extHighestIncomingSN < sn,
         NEW layer \in Layer, NEW kept \in SUBSET [sn : Int, n : Int],
         NEW sent \in SUBSET [n : Int, by : {0} \cup Layer, sn : Int],
         NEW seen \in SUBSET Source,
         Fits(m, layer, kept, sent, seen),
         NEW more \in SUBSET {[n |-> MungedSN(m, sn), by |-> layer, sn |-> sn]}
  PROVE  LET a == Advance(m, sn)
             all == kept \cup PassedOver(m, sn)
         IN  /\ all \subseteq [sn : Int, n : Int]
             /\ \A r \in all : r.n < a.extLastSN
             /\ \A p \in sent : p.n < a.extLastSN
             /\ Fits(a, layer, all, sent \cup more, seen \cup {sn})
<1> DEFINE a == Advance(m, sn)
           all == kept \cup PassedOver(m, sn)
           h == m.extHighestIncomingSN
           off == m.snOffset
<1>1. /\ sn \in Int /\ Source \subseteq Int
  BY ForwardingAssumption DEF Source
<1>2. /\ h \in Int /\ off \in Int /\ m.extLastSN \in Int /\ IsRangeMap(m.snRangeMap)
      /\ OpenRange(m.snRangeMap).start <= h + 1 /\ OpenRange(m.snRangeMap).start \in Int
      /\ OpenRange(m.snRangeMap).value = off
  BY MungerFields, OpenIsTyped DEF GoodMunger
<1>3. /\ a.extLastSN = sn - off /\ a.extHighestIncomingSN = sn
      /\ a.snRangeMap = m.snRangeMap /\ a.snOffset = off
      /\ NextSN(a) = sn - off + 1 /\ NextSN(m) = h + 1 - off /\ NextSN(m) <= sn - off
  BY <1>1, <1>2, AdvanceGood DEF MungedSN, NextSN
<1> HIDE DEF a
<1>4. PassedOver(m, sn) = {[sn |-> k, n |-> k - off] : k \in (h + 1)..(sn - 1)}
  BY DEF PassedOver, MungedSN
<1>5. ASSUME NEW r \in PassedOver(m, sn)
      PROVE  /\ r \in [sn : Int, n : Int] /\ r.n = r.sn - off
             /\ NextSN(m) <= r.n /\ r.n < sn - off
  <2>1. PICK k \in (h + 1)..(sn - 1) : r = [sn |-> k, n |-> k - off]
    BY <1>4, <1>5
  <2>2. k \in Int /\ h + 1 <= k /\ k < sn
    BY <1>1, <1>2
  <2>3. r.sn = k /\ r.n = k - off /\ k - off \in Int
    BY <1>2, <2>1, <2>2
  <2> QED BY <1>1, <1>2, <1>3, <2>1, <2>2, <2>3
<1>6. \A r \in kept : r.n \in Int /\ r.n < NextSN(m)
  BY DEF Fits
<1>7. \A p \in sent : p.n \in Int /\ p.n < NextSN(m)
  BY DEF Fits
<1>8. NextSN(m) \in Int /\ sn - off \in Int
  BY <1>1, <1>2, <1>3
<1>9. all \subseteq [sn : Int, n : Int]
  BY <1>5
<1>10. \A r \in all : r.n \in Int /\ r.n < sn - off
  BY <1>3, <1>5, <1>6, <1>8
<1>11. \A p \in sent : p.n < sn - off
  BY <1>3, <1>7, <1>8
<1>12. \A p \in more : p.n = sn - off
  BY DEF MungedSN
<1>13. ASSUME NEW r \in all, NEW s \in all, r.n = s.n PROVE r.sn = s.sn
  <2>1. CASE r \in kept /\ s \in kept
    BY <1>13, <2>1 DEF Fits
  <2>2. CASE r \in PassedOver(m, sn) /\ s \in PassedOver(m, sn)
    <3>1. r.n = r.sn - off /\ s.n = s.sn - off /\ r.sn \in Int /\ s.sn \in Int
      BY <1>5, <2>2
    <3>2. \A x, y, z \in Int : x - z = y - z => x = y
      OBVIOUS
    <3>3. r.sn - off = s.sn - off /\ off \in Int
      BY <1>2, <1>13, <3>1
    <3> QED BY <3>1, <3>2, <3>3
  <2>3. CASE r \in kept /\ s \in PassedOver(m, sn)
    BY <1>5, <1>6, <1>8, <1>13, <2>3
  <2>4. CASE s \in kept /\ r \in PassedOver(m, sn)
    BY <1>5, <1>6, <1>8, <1>13, <2>4
  <2> QED BY <2>1, <2>2, <2>3, <2>4
<1>14. ASSUME NEW p \in sent \cup more, NEW r \in all, p.n = r.n
       PROVE  p.by = layer /\ p.sn = r.sn
  <2>1. CASE p \in more
    BY <1>8, <1>10, <1>12, <1>14, <2>1
  <2>2. CASE p \in sent /\ r \in kept
    BY <1>14, <2>2 DEF Fits
  <2>3. CASE p \in sent /\ r \in PassedOver(m, sn)
    BY <1>5, <1>7, <1>8, <1>14, <2>3
  <2> QED BY <2>1, <2>2, <2>3
<1>15. ASSUME NEW k \in Source \ (seen \cup {sn}),
              a.snRangeMap[1].start <= k, k <= a.extHighestIncomingSN
       PROVE  /\ HasValue(a.snRangeMap, k)
              /\ [sn |-> k, n |-> k - GetValue(a.snRangeMap, k)] \in all
  <2>1. k \in Int /\ k \in Source \ seen /\ k < sn
    <3>1. k <= sn /\ k # sn /\ k \in Int /\ sn \in Int
      BY <1>1, <1>3, <1>15
    <3> QED BY <3>1
  <2>2. CASE k <= h
    BY <1>3, <1>15, <2>1, <2>2 DEF Fits
  <2>3. CASE h < k
    <3>1. HasValue(m.snRangeMap, k) /\ GetValue(m.snRangeMap, k) = off
      BY <1>2, <2>1, <2>3, OpenValue
    <3>2. k \in (h + 1)..(sn - 1)
      BY <1>1, <1>2, <2>1, <2>3
    <3>3. [sn |-> k, n |-> k - off] \in PassedOver(m, sn)
      BY <1>4, <3>2
    <3>4. /\ HasValue(a.snRangeMap, k)
          /\ [sn |-> k, n |-> k - GetValue(a.snRangeMap, k)] = [sn |-> k, n |-> k - off]
      BY <1>3, <3>1
    <3> QED BY <3>3, <3>4
  <2> QED BY <1>2, <2>1, <2>2, <2>3
<1>16. Fits(a, layer, all, sent \cup more, seen \cup {sn})
  <2>1. \A p \in sent \cup more : p.n < NextSN(a)
    BY <1>3, <1>7, <1>8, <1>11, <1>12
  <2>2. \A r \in all : r.n < NextSN(a)
    BY <1>3, <1>8, <1>10
  <2> HIDE DEF all
  <2> QED BY <1>13, <1>14, <1>15, <2>1, <2>2 DEF Fits
<1> QED BY <1>3, <1>9, <1>10, <1>11, <1>16 DEF a

(* A packet that follows on the one before and is not sent, and padding:   *)
(* the number of the next packet does not fall, and the translation of     *)
(* missing packets does not change.                                        *)
LEMMA SkipFits ==
  ASSUME NEW m, GoodMunger(m), NEW new, GoodMunger(new),
         NEW layer \in Layer, NEW kept \in SUBSET [sn : Int, n : Int],
         NEW sent \in SUBSET [n : Int, by : {0} \cup Layer, sn : Int],
         NEW seen \in SUBSET Source, NEW more \in SUBSET Source,
         Fits(m, layer, kept, sent, seen),
         KeepsUpTo(m.snRangeMap, new.snRangeMap, m.extHighestIncomingSN),
         NextSN(m) <= NextSN(new),
         NEW pads \in SUBSET [n : Int, by : {0} \cup Layer, sn : Int],
         \A p \in pads : NextSN(m) <= p.n /\ p.n < NextSN(new),
         \A k \in Source \ (seen \cup more) :
           k <= new.extHighestIncomingSN => k <= m.extHighestIncomingSN
  PROVE  Fits(new, layer, kept, sent \cup pads, seen \cup more)
<1>1. Source \subseteq Int
  BY ForwardingAssumption DEF Source
<1>2. /\ NextSN(m) \in Int /\ NextSN(new) \in Int
      /\ m.extHighestIncomingSN \in Int
      /\ IsRangeMap(m.snRangeMap) /\ IsRangeMap(new.snRangeMap)
  BY MungerFields DEF GoodMunger, NextSN
<1>3. m.snRangeMap[1].start \in Int /\ new.snRangeMap[1].start \in Int
  BY <1>2, LengthIsPositive, RangesAreTyped
<1>4. \A p \in sent \cup pads : p.n \in Int
  OBVIOUS
<1>5. \A p \in sent \cup pads : p.n < NextSN(new)
  BY <1>2, <1>4 DEF Fits
<1>6. \A r \in kept : r.n \in Int /\ r.n < NextSN(m)
  BY DEF Fits
<1>7. \A r \in kept : r.n < NextSN(new)
  BY <1>2, <1>6
<1>8. ASSUME NEW p \in sent \cup pads, NEW r \in kept, p.n = r.n
      PROVE  p.by = layer /\ p.sn = r.sn
  <2>1. p \in sent
    BY <1>2, <1>4, <1>6, <1>8
  <2> QED BY <1>8, <2>1 DEF Fits
<1>9. ASSUME NEW k \in Source \ (seen \cup more),
             new.snRangeMap[1].start <= k, k <= new.extHighestIncomingSN
      PROVE  /\ HasValue(new.snRangeMap, k)
             /\ [sn |-> k, n |-> k - GetValue(new.snRangeMap, k)] \in kept
  <2>1. k \in Int /\ k \in Source \ seen /\ k <= m.extHighestIncomingSN
    BY <1>1, <1>9
  <2>2. m.snRangeMap[1].start <= k
    BY <1>3, <1>9, <2>1 DEF KeepsUpTo
  <2>3. /\ HasValue(m.snRangeMap, k)
        /\ [sn |-> k, n |-> k - GetValue(m.snRangeMap, k)] \in kept
    BY <2>1, <2>2 DEF Fits
  <2>4. /\ HasValue(new.snRangeMap, k)
        /\ GetValue(new.snRangeMap, k) = GetValue(m.snRangeMap, k)
    BY <1>9, <2>1, <2>3 DEF KeepsUpTo
  <2> QED BY <2>3, <2>4
<1>10. \A r, s \in kept : r.n = s.n => r.sn = s.sn
  BY DEF Fits
<1> QED BY <1>5, <1>7, <1>8, <1>9, <1>10 DEF Fits

-----------------------------------------------------------------------------
(* The invariant holds at the start and is preserved by every action.      *)

(* Layers and source numbers are integers, and no layer is 0.              *)
LEMMA LayersAreNumbers ==
  /\ Layer = {1, 2} /\ 0 \notin Layer /\ Source \subseteq Int
BY ForwardingAssumption DEF Layer, Source

(* A track that has forwarded nothing satisfies the invariant.             *)
LEMMA InitIInv == Init => IInv
<1> SUFFICES ASSUME Init PROVE IInv
  OBVIOUS
<1>1. initRanges(0, 0) \in Seq(Range)
  <2>1. 0 \in Int
    OBVIOUS
  <2> QED BY <2>1, InitRanges DEF IsRangeMap
<1>2. munger \in Munger
  BY <1>1 DEF Init, NewRTPMunger, Munger
<1>3. Types
  BY <1>2 DEF Init, Types
<1> QED BY <1>3 DEF Init, IInv, Numbered, KeptNumbers, SentArrived, NumbersAreUnique

(* WriteRTP: a packet that arrives is new and is recorded as arrived.      *)
LEMMA ArrivalIsRecorded ==
  ASSUME Types, NEW l \in Layer, NEW sn \in Source, Arrives(l, sn)
  PROVE  /\ arrived' \in [Layer -> SUBSET Source]
         /\ arrived'[l] = arrived[l] \cup {sn} /\ sn \notin arrived[l]
         /\ \A x \in Layer : arrived[x] \subseteq arrived'[x]
         /\ kind' = kind /\ (kind # "simulcast" => l = 1)
BY DEF Types, Arrives

(* A packet that came and changed nothing else.                            *)
LEMMA ArrivalKeeps ==
  ASSUME IInv, NEW l \in Layer, NEW sn \in Source, Arrives(l, sn),
         UNCHANGED <<lastSSRC, started, munger, used, reserved>>
  PROVE  IInv'
<1>1. /\ arrived' \in [Layer -> SUBSET Source] /\ kind' = kind
      /\ \A x \in Layer : arrived[x] \subseteq arrived'[x]
  BY ArrivalIsRecorded DEF IInv
<1>2. Types'
  BY <1>1 DEF IInv, Types
<1>3. Numbered'
  BY DEF IInv, Numbered
<1>4. ASSUME lastSSRC # 0
      PROVE  Fits(munger, lastSSRC, reserved, used, arrived'[lastSSRC])
  <2>1. arrived[lastSSRC] \subseteq arrived'[lastSSRC]
    BY <1>1, <1>4 DEF IInv, Types
  <2>2. Fits(munger, lastSSRC, reserved, used, arrived[lastSSRC])
    BY <1>4 DEF IInv, KeptNumbers
  <2> QED BY <2>1, <2>2 DEF Fits
<1>5. KeptNumbers'
  BY <1>1, <1>4 DEF IInv, KeptNumbers
<1>6. SentArrived'
  BY <1>1 DEF IInv, Types, SentArrived
<1> QED BY <1>2, <1>3, <1>5, <1>6 DEF IInv, NumbersAreUnique

(* The munger that translates a selected packet.                           *)
LEMMA SwitchedIsReady ==
  ASSUME IInv, NEW l \in Layer, NEW sn \in Source, Translate(l, sn)
  PROVE  LET m == SwitchedMunger(l, sn)
         IN  /\ GoodMunger(m) /\ Fits(m, l, Kept(l), used, arrived[l])
             /\ started => /\ NextSN(m) = m.extLastSN + 1
                           /\ \A r \in Kept(l) : r.n < m.extLastSN
             /\ Kept(l) \in SUBSET [sn : Int, n : Int]
<1> DEFINE m == SwitchedMunger(l, sn)
<1>0. sn \in Int /\ Source \subseteq Int /\ l # 0
  BY LayersAreNumbers
<1>1. CASE lastSSRC = l
  <2>1. started
    BY <1>0, <1>1 DEF IInv, Numbered, Types
  <2>2. m = munger /\ Kept(l) = reserved
    BY <1>1 DEF SwitchedMunger, Kept
  <2> QED BY <1>0, <1>1, <2>1, <2>2 DEF IInv, Numbered, KeptNumbers, Types
<1>2. CASE lastSSRC # l /\ started
  <2>1. m = UpdateSnTsOffsets(munger, sn, 1) /\ Kept(l) = {}
    BY <1>2 DEF SwitchedMunger, processSourceSwitch, Kept
  <2>2. munger \in Munger /\ munger.extLastSN \in Int
    BY MungerFields DEF IInv, Types
  <2>3. /\ GoodMunger(m) /\ NextSN(m) = munger.extLastSN + 1
        /\ m.extLastSN = munger.extLastSN
        /\ m.extHighestIncomingSN = sn - 1 /\ m.snRangeMap[1].start = sn
    BY <1>0, <2>1, <2>2, SwitchGood
  <2> HIDE DEF m
  <2>4. \A p \in used : p.n \in Int /\ p.n <= munger.extLastSN
    BY <1>2 DEF IInv, Numbered, Types
  <2>5. \A p \in used : p.n < NextSN(m)
    BY <2>2, <2>3, <2>4
  <2>6. \A k \in Source \ arrived[l] :
          ~(m.snRangeMap[1].start <= k /\ k <= m.extHighestIncomingSN)
    BY <1>0, <2>3
  <2>7. Fits(m, l, Kept(l), used, arrived[l])
    BY <2>1, <2>5, <2>6 DEF Fits
  <2> QED BY <2>1, <2>3, <2>7 DEF m
<1>3. CASE ~started
  <2>1. lastSSRC # l /\ used = {}
    BY <1>0, <1>3 DEF IInv, Numbered
  <2>2. m = SetLastSnTs(sn) /\ Kept(l) = {}
    BY <1>3, <2>1 DEF SwitchedMunger, processSourceSwitch, Kept
  <2>3. /\ GoodMunger(m) /\ m.extHighestIncomingSN = sn - 1
        /\ m.snRangeMap[1].start = sn
    BY <1>0, <2>2, SetLastGood
  <2> HIDE DEF m
  <2>4. \A k \in Source \ arrived[l] :
          ~(m.snRangeMap[1].start <= k /\ k <= m.extHighestIncomingSN)
    BY <1>0, <2>3
  <2>5. Fits(m, l, Kept(l), used, arrived[l])
    BY <2>1, <2>2, <2>4 DEF Fits
  <2> QED BY <1>3, <2>2, <2>3, <2>5 DEF m
<1>4. started \in BOOLEAN
  BY DEF IInv, Types
<1> QED BY <1>1, <1>2, <1>3, <1>4

(* What is left to show once a packet of a layer went through the munger.  *)
LEMMA TranslatedKeeps ==
  ASSUME IInv, NEW l \in Layer, NEW sn \in Source, Arrives(l, sn),
         lastSSRC' = l, started' = TRUE,
         GoodMunger(munger'), NextSN(munger') = munger'.extLastSN + 1,
         \A r \in reserved' : r.n < munger'.extLastSN,
         reserved' \subseteq [sn : Int, n : Int],
         Fits(munger', l, reserved', used', arrived[l] \cup {sn}),
         NEW more \in SUBSET [n : Int, by : {l}, sn : {sn}],
         used' = used \cup more,
         \A p, q \in used' : p.n = q.n => p = q
  PROVE  IInv'
<1>0. l \in {0} \cup Layer /\ l # 0 /\ sn \in Int
  BY LayersAreNumbers
<1>1. /\ arrived' \in [Layer -> SUBSET Source] /\ kind' = kind
      /\ arrived'[l] = arrived[l] \cup {sn}
      /\ \A x \in Layer : arrived[x] \subseteq arrived'[x]
      /\ kind # "simulcast" => l = 1
  BY ArrivalIsRecorded DEF IInv
<1>2. munger' \in Munger /\ munger'.extLastSN \in Int
  BY MungerFields DEF GoodMunger
<1>3. used \subseteq [n : Int, by : {0} \cup Layer, sn : Int]
  BY DEF IInv, Types
<1>4. used' \subseteq [n : Int, by : {0} \cup Layer, sn : Int]
  <2>1. more \subseteq [n : Int, by : {0} \cup Layer, sn : Int]
    BY <1>0
  <2> QED BY <1>3, <2>1
<1>5. Types'
  BY <1>0, <1>1, <1>2, <1>4 DEF Types
<1>6. \A p \in used' : p.n <= munger'.extLastSN
  BY <1>2, <1>4 DEF Fits
<1>7. Numbered'
  BY <1>6 DEF Numbered
<1>8. KeptNumbers'
  BY <1>0, <1>1 DEF KeptNumbers
<1>9. SentArrived'
  <2>1. \A p \in more : p.by = l /\ p.sn = sn
    OBVIOUS
  <2>2. ASSUME NEW p \in used, p.by # 0 PROVE p.sn \in arrived'[p.by]
    <3>1. p.by \in Layer /\ p.sn \in arrived[p.by]
      BY <1>3, <2>2 DEF IInv, SentArrived
    <3> QED BY <1>1, <3>1
  <2> QED BY <1>1, <2>1, <2>2 DEF SentArrived
<1>10. NumbersAreUnique'
  BY DEF NumbersAreUnique
<1> QED BY <1>5, <1>7, <1>8, <1>9, <1>10 DEF IInv

(* Packets in order, sent or wasted.                                       *)
LEMMA ForwardKeeps ==
  ASSUME IInv, NEW l \in Layer, NEW sn \in Source,
         Forward(l, sn) \/ Waste(l, sn)
  PROVE  IInv'
<1> DEFINE m == SwitchedMunger(l, sn)
           packet == [n |-> MungedSN(m, sn), by |-> l, sn |-> sn]
<1>1. /\ Translate(l, sn) /\ Arrives(l, sn) /\ m.extHighestIncomingSN < sn
      /\ munger' = Advance(m, sn) /\ lastSSRC' = l /\ started' = TRUE
      /\ reserved' = Kept(l) \cup PassedOver(m, sn)
      /\ used' = used \cup {packet} \/ used' = used
  BY DEF Forward, Waste, Translate
<1>2. PICK more \in SUBSET {packet} : used' = used \cup more
  <2>1. {packet} \in SUBSET {packet} /\ {} \in SUBSET {packet} /\ used \cup {} = used
    OBVIOUS
  <2> HIDE DEF packet
  <2> QED BY <1>1, <2>1
<1>3. /\ GoodMunger(m) /\ Fits(m, l, Kept(l), used, arrived[l])
      /\ Kept(l) \in SUBSET [sn : Int, n : Int]
  BY <1>1, SwitchedIsReady
<1>4. sn \in Int /\ m.snOffset \in Int
  BY <1>3, LayersAreNumbers, MungerFields DEF GoodMunger
<1>5. /\ used \in SUBSET [n : Int, by : {0} \cup Layer, sn : Int]
      /\ arrived[l] \in SUBSET Source
  BY DEF IInv, Types
<1> HIDE DEF m
<1>6. /\ GoodMunger(munger') /\ NextSN(munger') = munger'.extLastSN + 1
      /\ munger'.extLastSN = MungedSN(m, sn)
  BY <1>1, <1>3, <1>4, AdvanceGood
<1>7. /\ reserved' \subseteq [sn : Int, n : Int]
      /\ \A r \in reserved' : r.n < munger'.extLastSN
      /\ \A p \in used : p.n < munger'.extLastSN
      /\ Fits(munger', l, reserved', used', arrived[l] \cup {sn})
  BY <1>1, <1>2, <1>3, <1>5, AdvanceFits
<1>8. MungedSN(m, sn) \in Int
  BY <1>4 DEF MungedSN
<1>9. more \in SUBSET [n : Int, by : {l}, sn : {sn}]
  BY <1>8
<1>10. \A p, q \in used' : p.n = q.n => p = q
  <2>1. \A p \in used : p.n \in Int /\ p.n < MungedSN(m, sn)
    BY <1>5, <1>6, <1>7
  <2>2. \A p \in more : p = packet /\ p.n = MungedSN(m, sn)
    OBVIOUS
  <2>3. \A p, q \in used : p.n = q.n => p = q
    BY DEF IInv, NumbersAreUnique
  <2>4. ASSUME NEW p \in used', NEW q \in used', p.n = q.n PROVE p = q
    <3>1. CASE p \in used /\ q \in used
      BY <2>3, <2>4, <3>1
    <3>2. CASE p \in more /\ q \in more
      BY <2>2, <3>2
    <3>3. CASE p \in used /\ q \in more
      BY <1>8, <2>1, <2>2, <2>4, <3>3
    <3>4. CASE p \in more /\ q \in used
      BY <1>8, <2>1, <2>2, <2>4, <3>4
    <3> QED BY <1>2, <3>1, <3>2, <3>3, <3>4
  <2> QED BY <2>4
<1> QED BY <1>1, <1>2, <1>6, <1>7, <1>9, <1>10, TranslatedKeeps

(* A packet that follows on the one before and is not sent.                *)
LEMMA SkipKeeps ==
  ASSUME IInv, NEW l \in Layer, NEW sn \in Source, Arrives(l, sn),
         NEW m, GoodMunger(m), Fits(m, l, reserved, used, arrived[l]),
         NextSN(m) = m.extLastSN + 1, sn = m.extHighestIncomingSN + 1,
         \A r \in reserved : r.n < m.extLastSN,
         GoodMunger(munger'), NextSN(munger') = NextSN(m),
         munger'.extLastSN = m.extLastSN, munger'.extHighestIncomingSN = sn,
         KeepsUpTo(m.snRangeMap, munger'.snRangeMap, sn - 1),
         lastSSRC' = l, started' = TRUE, UNCHANGED <<used, reserved>>
  PROVE  IInv'
<1>1. /\ sn \in Int /\ m.extHighestIncomingSN \in Int /\ Source \subseteq Int
      /\ sn - 1 = m.extHighestIncomingSN /\ NextSN(m) \in Int
  <2>1. Source \subseteq Int /\ sn \in Int
    BY LayersAreNumbers
  <2>2. m.extHighestIncomingSN \in Int /\ m.snOffset \in Int
    BY MungerFields DEF GoodMunger
  <2>3. sn = m.extHighestIncomingSN + 1
    OBVIOUS
  <2> QED BY ONLY <2>1, <2>2, <2>3 DEF NextSN
<1>2. /\ used \in SUBSET [n : Int, by : {0} \cup Layer, sn : Int]
      /\ reserved \in SUBSET [sn : Int, n : Int]
      /\ arrived[l] \in SUBSET Source /\ {sn} \in SUBSET Source
  BY DEF IInv, Types
<1>3. \A k \in Source \ (arrived[l] \cup {sn}) :
        k <= munger'.extHighestIncomingSN => k <= m.extHighestIncomingSN
  BY <1>1
<1>4. {} \in SUBSET [n : Int, by : {0} \cup Layer, sn : Int]
  OBVIOUS
<1>5. /\ KeepsUpTo(m.snRangeMap, munger'.snRangeMap, m.extHighestIncomingSN)
      /\ NextSN(m) <= NextSN(munger')
  BY <1>1
<1>6. Fits(munger', l, reserved, used \cup {}, arrived[l] \cup {sn})
  BY <1>2, <1>3, <1>4, <1>5, SkipFits
<1>7. Fits(munger', l, reserved', used', arrived[l] \cup {sn})
  BY <1>6
<1>8. {} \in SUBSET [n : Int, by : {l}, sn : {sn}] /\ used' = used \cup {}
  OBVIOUS
<1>9. \A p, q \in used' : p.n = q.n => p = q
  BY DEF IInv, NumbersAreUnique
<1> QED BY <1>2, <1>7, <1>8, <1>9, TranslatedKeeps

(* A packet that its temporal layer filters out.                           *)
LEMMA FilterKeeps ==
  ASSUME IInv, NEW l \in Layer, NEW sn \in Source, Filter(l, sn)
  PROVE  IInv'
<1>1. /\ Translate(l, sn) /\ Arrives(l, sn) /\ lastSSRC = l /\ lastSSRC' = l
      /\ started' = TRUE /\ sn = munger.extHighestIncomingSN + 1
      /\ munger' = PacketDropped(Advance(munger, sn), sn)
      /\ UNCHANGED <<used, reserved>>
  BY DEF Filter, Translate, history
<1>2. l # 0 /\ sn \in Int
  BY LayersAreNumbers
<1>3. /\ GoodMunger(munger) /\ NextSN(munger) = munger.extLastSN + 1
      /\ Fits(munger, l, reserved, used, arrived[l])
      /\ \A r \in reserved : r.n < munger.extLastSN
  BY <1>1, <1>2 DEF IInv, Numbered, KeptNumbers, Types
<1>4. /\ GoodMunger(munger') /\ NextSN(munger') = NextSN(munger)
      /\ munger'.extLastSN = munger.extLastSN /\ munger'.extHighestIncomingSN = sn
      /\ KeepsUpTo(munger.snRangeMap, munger'.snRangeMap, sn - 1)
  BY <1>1, <1>2, <1>3, DroppedGood
<1> QED BY <1>1, <1>3, <1>4, SkipKeeps

(* A packet without payload.                                               *)
LEMMA ExcludeKeeps ==
  ASSUME IInv, NEW l \in Layer, NEW sn \in Source, Exclude(l, sn)
  PROVE  IInv'
<1> DEFINE m == SwitchedMunger(l, sn)
<1>1. /\ Translate(l, sn) /\ Arrives(l, sn) /\ lastSSRC' = l /\ started' = TRUE
      /\ lastSSRC = l \/ (kind = "audio" /\ started)
      /\ sn = m.extHighestIncomingSN + 1 /\ munger' = Excluded(m, sn)
      /\ UNCHANGED <<used, reserved>>
  BY DEF Exclude, Translate, history
<1>2. l # 0 /\ sn \in Int
  BY LayersAreNumbers
<1>3. started
  BY <1>1, <1>2 DEF IInv, Numbered, Types
<1>4. Kept(l) = reserved
  <2>1. CASE lastSSRC = l
    BY <2>1 DEF Kept
  <2>2. CASE lastSSRC # l /\ kind = "audio"
    <3>1. l = 1
      BY <1>1, <2>2, ArrivalIsRecorded DEF IInv
    <3>2. lastSSRC = 0
      BY <2>2, <3>1 DEF IInv, KeptNumbers
    <3> QED BY <2>2, <3>2 DEF Kept, IInv, KeptNumbers
  <2> QED BY <1>1, <2>1, <2>2
<1>5. /\ GoodMunger(m) /\ Fits(m, l, reserved, used, arrived[l])
      /\ NextSN(m) = m.extLastSN + 1 /\ \A r \in reserved : r.n < m.extLastSN
  BY <1>1, <1>3, <1>4, SwitchedIsReady
<1> HIDE DEF m
<1>6. /\ m \in Munger /\ IsRangeMap(m.snRangeMap)
      /\ OpenRange(m.snRangeMap).start <= sn
      /\ OpenRange(m.snRangeMap).value = m.snOffset
  BY <1>1, <1>5 DEF GoodMunger
<1>7. /\ GoodMunger(munger') /\ NextSN(munger') = sn - m.snOffset
      /\ munger'.extLastSN = m.extLastSN /\ munger'.extHighestIncomingSN = sn
      /\ KeepsUpTo(m.snRangeMap, munger'.snRangeMap, sn - 1)
  BY <1>1, <1>2, <1>6, ExcludedGood
<1>8. NextSN(munger') = NextSN(m)
  <2>1. NextSN(m) = sn - m.snOffset
    BY <1>1, <1>2, <1>6, MungerFields DEF NextSN
  <2> QED BY <1>7, <2>1
<1> QED BY <1>1, <1>5, <1>7, <1>8, SkipKeeps

(* A late packet that the map translates gets the number kept for it.      *)
LEMMA LateIsKept ==
  ASSUME IInv, NEW l \in Layer, NEW sn \in Source, Late(l, sn)
  PROVE  /\ [sn |-> sn, n |-> LateSN(munger, sn)] \in reserved
         /\ sn \notin arrived[l]
<1> DEFINE n == LateSN(munger, sn)
<1>1. /\ Arrives(l, sn) /\ lastSSRC = l
      /\ sn < munger.extHighestIncomingSN /\ IsFound(munger, sn)
  BY DEF Late, Translate
<1>2. l # 0 /\ sn \in Int /\ sn \notin arrived[l]
  BY <1>1, LayersAreNumbers, ArrivalIsRecorded DEF IInv
<1>3. /\ GoodMunger(munger) /\ NextSN(munger) = munger.extLastSN + 1
      /\ Fits(munger, l, reserved, used, arrived[l])
      /\ \A r \in reserved : r.n < munger.extLastSN
  BY <1>1, <1>2 DEF IInv, Numbered, KeptNumbers, Types
<1>4. /\ IsRangeMap(munger.snRangeMap) /\ munger.extHighestIncomingSN \in Int
      /\ munger.extLastSN \in Int
  BY <1>3, MungerFields DEF GoodMunger
<1>5. munger.snRangeMap[1].start <= sn
  <2>1. PICK i \in 1..Len(munger.snRangeMap) : Holds(munger.snRangeMap, i, sn)
    BY <1>1, <1>4, LengthIsPositive DEF IsFound, HasValue
  <2>2. 1 \in 1..Len(munger.snRangeMap)
    BY <1>4, LengthIsPositive
  <2>3. /\ munger.snRangeMap[1].start \in Int /\ munger.snRangeMap[1].end \in Int
        /\ munger.snRangeMap[i].start \in Int /\ munger.snRangeMap[i].start <= sn
    BY <1>4, <2>1, <2>2, RangesAreTyped DEF Holds
  <2>4. CASE i = 1
    BY <2>3, <2>4
  <2>5. CASE 1 < i
    <3>1. /\ munger.snRangeMap[1].start <= munger.snRangeMap[1].end
          /\ munger.snRangeMap[1].end < munger.snRangeMap[i].start
      BY <1>4, <2>2, <2>5, RangesAreApart
    <3> QED BY <1>2, <2>3, <3>1
  <2> QED BY <2>4, <2>5
<1>6. sn \in Source \ arrived[l] /\ sn <= munger.extHighestIncomingSN
  BY <1>1, <1>2, <1>4
<1>7. [sn |-> sn, n |-> n] \in reserved
  BY <1>3, <1>5, <1>6 DEF Fits, LateSN
<1> QED BY <1>2, <1>7

(* A late packet gets the number that was kept for it, which nobody has.   *)
LEMMA LateKeeps ==
  ASSUME IInv, NEW l \in Layer, NEW sn \in Source, Late(l, sn)
  PROVE  IInv'
<1> DEFINE n == LateSN(munger, sn)
           packet == [n |-> n, by |-> l, sn |-> sn]
<1>1. /\ Translate(l, sn) /\ Arrives(l, sn) /\ lastSSRC = l /\ lastSSRC' = l
      /\ started' = TRUE /\ sn < munger.extHighestIncomingSN
      /\ IsFound(munger, sn) /\ used' = used \cup {packet}
      /\ UNCHANGED <<munger, reserved>>
  BY DEF Late, Translate
<1>2. l # 0 /\ sn \in Int /\ sn \notin arrived[l]
  BY LayersAreNumbers, LateIsKept
<1>3. /\ GoodMunger(munger) /\ NextSN(munger) = munger.extLastSN + 1
      /\ Fits(munger, l, reserved, used, arrived[l])
      /\ \A r \in reserved : r.n < munger.extLastSN
  BY <1>1, <1>2 DEF IInv, Numbered, KeptNumbers, Types
<1>4. munger.extLastSN \in Int
  BY <1>3, MungerFields DEF GoodMunger
<1>5. [sn |-> sn, n |-> n] \in reserved
  BY LateIsKept
<1> HIDE DEF n
<1>6. reserved \subseteq [sn : Int, n : Int]
  BY DEF IInv, Types
<1>7. n \in Int /\ n < munger.extLastSN
  <2>1. [sn |-> sn, n |-> n].n = n
    OBVIOUS
  <2> QED BY <1>3, <1>5, <1>6, <2>1
<1>8. ASSUME NEW p \in used PROVE p.n # n
  <2>1. SUFFICES ASSUME p.n = n PROVE FALSE
    OBVIOUS
  <2>2. p.by = l /\ p.sn = sn
    BY <1>3, <1>5, <2>1 DEF Fits
  <2>3. p.sn \in arrived[l]
    BY <1>2, <2>2 DEF IInv, SentArrived
  <2> QED BY <1>2, <2>2, <2>3
<1>9. \A p \in used : p.n \in Int
  BY DEF IInv, Types
<1>10. Fits(munger, l, reserved, used', arrived[l] \cup {sn})
  <2>1. packet.n = n /\ packet.by = l /\ packet.sn = sn
    OBVIOUS
  <2> HIDE DEF packet
  <2>2. \A p \in used' : p.n < NextSN(munger)
    BY <1>1, <1>3, <1>4, <1>7, <2>1 DEF Fits
  <2>3. \A r \in reserved : r.n = n => r.sn = sn
    BY <1>3, <1>5 DEF Fits
  <2>4. ASSUME NEW p \in used', NEW r \in reserved, p.n = r.n
        PROVE  p.by = l /\ p.sn = r.sn
    <3>1. CASE p \in used
      BY <1>3, <2>4, <3>1 DEF Fits
    <3>2. CASE p = packet
      BY <2>1, <2>3, <2>4, <3>2
    <3> QED BY <1>1, <3>1, <3>2
  <2>5. /\ \A r \in reserved : r.n < NextSN(munger)
        /\ \A r, s \in reserved : r.n = s.n => r.sn = s.sn
        /\ \A k \in Source \ (arrived[l] \cup {sn}) :
             /\ munger.snRangeMap[1].start <= k /\ k <= munger.extHighestIncomingSN
             => /\ HasValue(munger.snRangeMap, k)
                /\ [sn |-> k, n |-> k - GetValue(munger.snRangeMap, k)] \in reserved
    BY <1>3 DEF Fits
  <2> QED BY <2>2, <2>4, <2>5 DEF Fits
<1>11. \A p, q \in used' : p.n = q.n => p = q
  <2>1. \A p, q \in used : p.n = q.n => p = q
    BY DEF IInv, NumbersAreUnique
  <2>2. packet.n = n
    OBVIOUS
  <2> HIDE DEF packet
  <2> QED BY <1>1, <1>8, <2>1, <2>2
<1>12. {packet} \in SUBSET [n : Int, by : {l}, sn : {sn}]
  BY <1>7
<1> HIDE DEF packet
<1> QED BY <1>1, <1>3, <1>6, <1>10, <1>11, <1>12, TranslatedKeeps

(* The munger goes on while no layer is current.                           *)
LEMMA IdleKeeps ==
  ASSUME IInv, NEW l \in Layer, NEW sn \in Source, Arrives(l, sn),
         started, lastSSRC = 0, UNCHANGED <<lastSSRC, started, used, reserved>>,
         GoodMunger(munger'), munger.extLastSN <= munger'.extLastSN,
         NextSN(munger') \in {munger'.extLastSN, munger'.extLastSN + 1}
  PROVE  IInv'
<1>1. /\ arrived' \in [Layer -> SUBSET Source]
      /\ \A x \in Layer : arrived[x] \subseteq arrived'[x]
  BY ArrivalIsRecorded DEF IInv
<1>2. munger' \in Munger /\ munger'.extLastSN \in Int /\ munger.extLastSN \in Int
  BY MungerFields DEF GoodMunger, IInv, Types
<1>3. Types'
  BY <1>1, <1>2 DEF IInv, Types
<1>4. \A p \in used : p.n \in Int /\ p.n <= munger.extLastSN
  BY DEF IInv, Types, Numbered
<1>5. Numbered'
  BY <1>2, <1>4 DEF Numbered
<1>6. KeptNumbers'
  BY DEF IInv, KeptNumbers
<1>7. SentArrived'
  BY <1>1 DEF IInv, Types, SentArrived
<1> QED BY <1>3, <1>5, <1>6, <1>7 DEF IInv, NumbersAreUnique

(* A relevant packet that is not selected.                                 *)
LEMMA RejectKeeps ==
  ASSUME IInv, NEW l \in Layer, NEW sn \in Source, Reject(l, sn)
  PROVE  IInv'
<1>1. /\ Arrives(l, sn) /\ kind # "simulcast"
      /\ UNCHANGED <<lastSSRC, started, used>>
  BY DEF Reject
<1>2. /\ l = 1 /\ l # 0 /\ sn \in Int
      /\ sn \notin arrived[l] /\ arrived[l] \in SUBSET Source
  BY <1>1, LayersAreNumbers, ArrivalIsRecorded DEF IInv, Types
<1>3. lastSSRC = 0 \/ lastSSRC = l
  BY <1>1, <1>2 DEF IInv, KeptNumbers
<1>4. CASE ~(started /\ sn > munger.extHighestIncomingSN)
  <2>1. UNCHANGED <<munger, reserved>>
    BY <1>4 DEF Reject
  <2> QED BY <1>1, <2>1, ArrivalKeeps
<1>5. CASE started /\ sn > munger.extHighestIncomingSN
  <2>1. /\ GoodMunger(munger) /\ started' = TRUE /\ munger.extLastSN \in Int
        /\ munger.extHighestIncomingSN \in Int /\ munger.extHighestIncomingSN < sn
        /\ NextSN(munger) \in {munger.extLastSN, munger.extLastSN + 1}
    BY <1>1, <1>2, <1>5, MungerFields DEF IInv, Numbered, GoodMunger, Types
  <2>2. ASSUME lastSSRC = l
        PROVE  /\ NextSN(munger) = munger.extLastSN + 1
               /\ Fits(munger, l, reserved, used, arrived[l])
               /\ \A r \in reserved : r.n < munger.extLastSN
    BY <1>2, <2>2 DEF IInv, KeptNumbers
  <2>3. CASE sn = munger.extHighestIncomingSN + 1
    <3>1. /\ munger' = PacketDropped(Advance(munger, sn), sn)
          /\ UNCHANGED reserved
      BY <1>5, <2>3 DEF Reject
    <3>2. /\ GoodMunger(munger') /\ NextSN(munger') = NextSN(munger)
          /\ munger'.extLastSN = munger.extLastSN
          /\ munger'.extHighestIncomingSN = sn
          /\ KeepsUpTo(munger.snRangeMap, munger'.snRangeMap, sn - 1)
      BY <1>2, <2>1, <2>3, <3>1, DroppedGood
    <3>3. CASE lastSSRC = l
      BY <1>1, <2>1, <2>2, <2>3, <3>1, <3>2, <3>3, SkipKeeps
    <3>4. CASE lastSSRC = 0
      BY <1>1, <1>5, <2>1, <3>1, <3>2, <3>4, IdleKeeps
    <3> QED BY <1>3, <3>3, <3>4
  <2>4. CASE sn # munger.extHighestIncomingSN + 1
    <3>1. /\ munger' = Advance(munger, sn)
          /\ reserved' = reserved \cup (IF lastSSRC = l THEN PassedOver(munger, sn) ELSE {})
      BY <1>5, <2>4 DEF Reject
    <3>2. /\ GoodMunger(munger') /\ NextSN(munger') = munger'.extLastSN + 1
          /\ NextSN(munger) <= munger'.extLastSN
      BY <1>2, <2>1, <3>1, AdvanceGood
    <3>3. munger'.extLastSN \in Int
      BY <3>2, MungerFields DEF GoodMunger
    <3>4. CASE lastSSRC = 0
      <4>1. UNCHANGED reserved /\ munger.extLastSN <= munger'.extLastSN
        BY <1>2, <2>1, <3>1, <3>2, <3>3, <3>4
      <4> QED BY <1>1, <1>5, <3>2, <3>4, <4>1, IdleKeeps
    <3>5. CASE lastSSRC = l
      <4>1. reserved' = reserved \cup PassedOver(munger, sn)
        BY <3>1, <3>5
      <4>2. /\ used \in SUBSET [n : Int, by : {0} \cup Layer, sn : Int]
            /\ reserved \in SUBSET [sn : Int, n : Int]
        BY DEF IInv, Types
      <4>3. {} \in SUBSET {[n |-> MungedSN(munger, sn), by |-> l, sn |-> sn]}
        OBVIOUS
      <4> DEFINE a == Advance(munger, sn)
                 all == reserved \cup PassedOver(munger, sn)
      <4>4. /\ all \subseteq [sn : Int, n : Int]
            /\ \A r \in all : r.n < a.extLastSN
            /\ Fits(a, l, all, used \cup {}, arrived[l] \cup {sn})
        BY <1>2, <2>1, <2>2, <3>5, <4>2, <4>3, AdvanceFits
      <4>5. /\ reserved' \subseteq [sn : Int, n : Int]
            /\ \A r \in reserved' : r.n < munger'.extLastSN
            /\ Fits(munger', l, reserved', used \cup {}, arrived[l] \cup {sn})
        BY <3>1, <4>1, <4>4
      <4>6. {} \in SUBSET [n : Int, by : {l}, sn : {sn}] /\ used' = used \cup {}
        BY <1>1
      <4>7. \A p, q \in used' : p.n = q.n => p = q
        BY <1>1 DEF IInv, NumbersAreUnique
      <4>8. Fits(munger', l, reserved', used', arrived[l] \cup {sn})
        BY <4>5, <4>6
      <4>9. lastSSRC' = l
        BY <1>1, <3>5
      <4> QED BY <1>1, <2>1, <3>2, <4>5, <4>6, <4>7, <4>8, <4>9, TranslatedKeeps
    <3> QED BY <1>3, <3>4, <3>5
  <2> QED BY <2>3, <2>4
<1> QED BY <1>4, <1>5

(* Padding takes the numbers after the last one.                           *)
LEMMA PadKeeps ==
  ASSUME IInv, NEW num \in 1..MaxBurst, Pad(num),
         bursts \in Nat
  PROVE  IInv'
<1> DEFINE m == maybeStart
           pads == {[n |-> m.extLastSN + i, by |-> 0, sn |-> bursts'] : i \in 1..num}
<1>1. /\ started' = TRUE /\ munger' = UpdateAndGetPaddingSnTs(m, num)
      /\ used' = used \cup pads /\ bursts' \in Int
      /\ UNCHANGED <<kind, arrived, lastSSRC, reserved>>
  BY DEF Pad
<1>2. num \in Nat /\ num >= 1
  BY ForwardingAssumption
<1>3. /\ GoodMunger(m) /\ NextSN(m) \in {m.extLastSN, m.extLastSN + 1}
      /\ \A p \in used : p.n <= m.extLastSN
      /\ lastSSRC # 0 => m = munger
  <2>1. CASE started
    BY <2>1 DEF maybeStart, IInv, Numbered
  <2>2. CASE ~started
    <3>1. m = SetLastSnTs(DummySN) /\ DummySN \in Int
      BY <2>2, ForwardingAssumption DEF maybeStart
    <3>2. GoodMunger(m) /\ NextSN(m) = DummySN /\ m.extLastSN = DummySN
      BY <3>1, SetLastGood
    <3> QED BY <2>2, <3>2 DEF IInv, Numbered
  <2> QED BY <2>1, <2>2
<1>4. m.extLastSN \in Int /\ m.extHighestIncomingSN \in Int /\ NextSN(m) \in Int
  BY <1>3, MungerFields DEF GoodMunger, NextSN
<1> HIDE DEF m
<1>5. /\ GoodMunger(munger') /\ NextSN(munger') = NextSN(m) + num
      /\ munger'.extLastSN = m.extLastSN + num
      /\ munger'.extHighestIncomingSN = m.extHighestIncomingSN
      /\ KeepsUpTo(m.snRangeMap, munger'.snRangeMap, m.extHighestIncomingSN)
  BY <1>1, <1>2, <1>3, PaddingGood
<1>6. ASSUME NEW p \in pads
      PROVE  /\ p \in [n : Int, by : {0} \cup Layer, sn : Int] /\ p.by = 0
             /\ p.sn = bursts' /\ p.n > m.extLastSN /\ p.n <= m.extLastSN + num
  <2>1. PICK i \in 1..num : p = [n |-> m.extLastSN + i, by |-> 0, sn |-> bursts']
    BY <1>6
  <2>2. i \in Int /\ 1 <= i /\ i <= num
    BY <1>2
  <2>3. p.n = m.extLastSN + i /\ p.by = 0 /\ p.sn = bursts' /\ m.extLastSN + i \in Int
    BY <1>4, <2>1, <2>2
  <2> QED BY <1>1, <1>2, <1>4, <2>1, <2>2, <2>3
<1>7. used \in SUBSET [n : Int, by : {0} \cup Layer, sn : Int]
  BY DEF IInv, Types
<1>8. pads \in SUBSET [n : Int, by : {0} \cup Layer, sn : Int]
  BY <1>6
<1> HIDE DEF pads
<1>9. Types'
  BY <1>1, <1>5, <1>7, <1>8 DEF IInv, Types, GoodMunger
<1>10. \A p \in used' : p.n <= munger'.extLastSN
  BY <1>1, <1>2, <1>3, <1>4, <1>5, <1>6, <1>7
<1>11. Numbered'
  BY <1>1, <1>2, <1>3, <1>4, <1>5, <1>10 DEF Numbered
<1>12. ASSUME lastSSRC # 0
       PROVE  /\ NextSN(munger') = munger'.extLastSN + 1
              /\ \A r \in reserved : r.n < munger'.extLastSN
              /\ Fits(munger', lastSSRC, reserved, used', arrived[lastSSRC])
  <2>1. /\ NextSN(m) = m.extLastSN + 1 /\ \A r \in reserved : r.n < m.extLastSN
        /\ Fits(m, lastSSRC, reserved, used, arrived[lastSSRC])
    BY <1>3, <1>12 DEF IInv, KeptNumbers
  <2>2. /\ lastSSRC \in Layer /\ reserved \in SUBSET [sn : Int, n : Int]
        /\ arrived[lastSSRC] \in SUBSET Source /\ {} \in SUBSET Source
    BY <1>12 DEF IInv, Types
  <2>3. /\ NextSN(m) <= NextSN(munger')
        /\ \A p \in pads : NextSN(m) <= p.n /\ p.n < NextSN(munger')
    BY <1>2, <1>4, <1>5, <1>6, <2>1
  <2>4. \A k \in Source \ (arrived[lastSSRC] \cup {}) :
          k <= munger'.extHighestIncomingSN => k <= m.extHighestIncomingSN
    BY <1>5
  <2>5. Fits(munger', lastSSRC, reserved, used \cup pads, arrived[lastSSRC] \cup {})
    BY <1>3, <1>5, <1>7, <1>8, <2>1, <2>2, <2>3, <2>4, SkipFits
  <2>6. \A r \in reserved : r.n < munger'.extLastSN
    BY <1>2, <1>4, <1>5, <2>1, <2>2
  <2>7. arrived[lastSSRC] \cup {} = arrived[lastSSRC]
    OBVIOUS
  <2>8. Fits(munger', lastSSRC, reserved, used', arrived[lastSSRC])
    BY <1>1, <2>5, <2>7
  <2>9. NextSN(munger') = munger'.extLastSN + 1
    BY <1>2, <1>4, <1>5, <2>1
  <2> QED BY <2>6, <2>8, <2>9
<1>13. KeptNumbers'
  BY <1>1, <1>12 DEF IInv, KeptNumbers
<1>14. SentArrived'
  BY <1>1, <1>6 DEF IInv, SentArrived
<1>15. NumbersAreUnique'
  <2>1. ASSUME NEW p \in pads, NEW q \in pads, p.n = q.n PROVE p = q
    BY <1>6, <2>1
  <2>2. \A p \in used, q \in pads : p.n # q.n
    BY <1>3, <1>4, <1>6, <1>7, <1>8
  <2>3. \A p, q \in used : p.n = q.n => p = q
    BY DEF IInv, NumbersAreUnique
  <2>4. \A p, q \in used' : p.n = q.n => p = q
    BY <1>1, <2>1, <2>2, <2>3
  <2> QED BY <2>4 DEF NumbersAreUnique
<1> QED BY <1>9, <1>11, <1>13, <1>14, <1>15 DEF IInv

(* resyncLocked: no layer is current, so nothing is kept for late packets. *)
LEMMA StopKeeps ==
  ASSUME IInv, Stop
  PROVE  IInv'
<1>1. /\ lastSSRC' = 0 /\ reserved' = {}
      /\ UNCHANGED <<kind, arrived, started, munger, used>>
  BY DEF Stop
<1> QED BY <1>1 DEF IInv, Types, Numbered, KeptNumbers, SentArrived, NumbersAreUnique

(* The sequencer's actions and Resume leave the numbers alone.             *)
LEMMA OthersKeep ==
  ASSUME IInv, UNCHANGED <<kind, arrived, lastSSRC, started, munger, used, reserved>>
  PROVE  IInv'
BY DEF IInv, Types, Numbered, KeptNumbers, SentArrived, NumbersAreUnique

(* The bursts of padding are counted.                                      *)
Bursts == bursts \in Nat

(* Every step of the track preserves the invariant.                        *)
LEMMA NextIInv == IInv /\ Bursts /\ [Next]_vars => IInv' /\ Bursts'
<1> SUFFICES ASSUME IInv, Bursts, [Next]_vars PROVE IInv' /\ Bursts'
  OBVIOUS
<1>1. ASSUME NEW l \in Layer, NEW sn \in Source, WriteRTP(l, sn) PROVE IInv'
  <2>1. CASE Rollback(l, sn)
    <3>1. Arrives(l, sn) /\ UNCHANGED <<lastSSRC, started, munger, used, reserved>>
      BY <2>1 DEF Rollback, history
    <3> QED BY <3>1, ArrivalKeeps
  <2>2. CASE Forward(l, sn) \/ Waste(l, sn)
    BY <2>2, ForwardKeeps
  <2>3. CASE Filter(l, sn)
    BY <2>3, FilterKeeps
  <2>4. CASE Exclude(l, sn)
    BY <2>4, ExcludeKeeps
  <2>5. CASE Late(l, sn)
    BY <2>5, LateKeeps
  <2>6. CASE TooLate(l, sn)
    <3>1. l # 0
      BY LayersAreNumbers
    <3>2. started /\ started \in BOOLEAN
      BY <2>6, <3>1 DEF TooLate, IInv, Numbered, Types
    <3>3. Arrives(l, sn) /\ UNCHANGED <<lastSSRC, started, munger, used, reserved>>
      BY <2>6, <3>2 DEF TooLate, Translate, history
    <3> QED BY <3>3, ArrivalKeeps
  <2>7. CASE Reject(l, sn)
    BY <2>7, RejectKeeps
  <2> QED BY <1>1, <2>1, <2>2, <2>3, <2>4, <2>5, <2>6, <2>7 DEF WriteRTP
<1>2. ASSUME NEW l \in Layer, NEW sn \in Source, WriteRTP(l, sn) PROVE Bursts'
  <2>1. Arrives(l, sn)
    BY <1>2 DEF WriteRTP, Rollback, Forward, Waste, Filter, Exclude, Late, TooLate,
                Reject, Translate
  <2> QED BY <2>1 DEF Arrives, Bursts
<1>3. ASSUME NEW num \in 1..MaxBurst, WritePaddingRTP(num) \/ writeBlankFrameRTP(num)
      PROVE  IInv' /\ Bursts'
  <2>1. Pad(num)
    BY <1>3 DEF WritePaddingRTP, writeBlankFrameRTP
  <2> QED BY <2>1, PadKeeps DEF Bursts, Pad
<1>4. CASE Stop
  BY <1>4, StopKeeps DEF Stop, Bursts
<1>5. CASE Resume
  BY <1>5, OthersKeep DEF Resume, Bursts, forwarderVars, history
<1>6. ASSUME NEW j \in pending, push(j) \/ pushPadding(j) PROVE IInv' /\ Bursts'
  <2>1. UNCHANGED <<kind, arrived, lastSSRC, started, munger, used, reserved, bursts>>
    BY <1>6 DEF push, pushPadding, forwarderVars, history
  <2> QED BY <2>1, OthersKeep DEF Bursts
<1>7. CASE UNCHANGED vars
  BY <1>7, OthersKeep DEF vars, forwarderVars, history, Bursts
<1> QED BY <1>1, <1>2, <1>3, <1>4, <1>5, <1>6, <1>7 DEF Next

-----------------------------------------------------------------------------
(* The invariant holds throughout.                                         *)
LEMMA IInvHolds == Spec => []IInv
<1>1. Init => Bursts
  BY DEF Init, Bursts
<1> QED BY <1>1, InitIInv, NextIInv, PTL DEF Spec

(* For any number of packets, bursts of padding and stops, of any kind of  *)
(* track: RTPMunger gives no number to two packets.                        *)
THEOREM NumbersStayUnique == Spec => []NumbersAreUnique
<1>1. IInv => NumbersAreUnique
  BY DEF IInv
<1> QED BY <1>1, IInvHolds, PTL

(* For any number of packets, bursts of padding and stops: a packet that   *)
(* comes late and whose range the munger remembers gets the number that    *)
(* was kept for it, and the last check of UpdateAndGetSnTs does not fail.  *)
THEOREM LatePacketsFindTheirNumber == Spec => []LatePacketsFit
<1>1. IInv => LatePacketsFit
  <2> SUFFICES ASSUME IInv, lastSSRC # 0, NEW sn \in Source \ arrived[lastSSRC],
                      munger.snRangeMap[1].start <= sn,
                      sn < munger.extHighestIncomingSN
               PROVE  /\ IsFound(munger, sn)
                      /\ [sn |-> sn, n |-> LateSN(munger, sn)] \in reserved
    BY DEF LatePacketsFit
  <2>1. sn \in Int /\ munger.extHighestIncomingSN \in Int
    BY LayersAreNumbers, MungerFields DEF IInv, Types
  <2>2. sn <= munger.extHighestIncomingSN
    BY <2>1
  <2>3. /\ HasValue(munger.snRangeMap, sn)
        /\ [sn |-> sn, n |-> LateSN(munger, sn)] \in reserved
    BY <2>2 DEF IInv, KeptNumbers, Fits, LateSN
  <2>4. [sn |-> sn, n |-> LateSN(munger, sn)].n < munger.extLastSN
    BY <2>3 DEF IInv, KeptNumbers
  <2>5. LateSN(munger, sn) < munger.extLastSN
    BY <2>4
  <2> QED BY <2>3, <2>5 DEF IsFound
<1> QED BY <1>1, IInvHolds, PTL

-----------------------------------------------------------------------------
(* No number is lost.  What is given up is never forgotten, so that the    *)
(* numbers that are accounted for only grow.                               *)

Account == {q.n : q \in used \cup reserved} \cup holes

(* Since the first number that was sent or kept, each one is accounted     *)
(* for.  A number that is kept has to count: its packet may be sent late   *)
(* and precede all that were sent before.                                  *)
Covered ==
  \A x \in used \cup reserved : \A n \in x.n..munger.extLastSN : n \in Account

(* A step keeps what is accounted for and accounts for the numbers after   *)
(* "last", up to the number that is the last one then.                     *)
LEMMA CoveredGrows ==
  ASSUME IInv, Covered, NEW last \in Int,
         munger'.extLastSN \in Int, Account \subseteq Account',
         \A x \in used' \cup reserved' : x.n \in Int,
         used \cup reserved = {} \/ last = munger.extLastSN,
         \A x \in used' \cup reserved' :
           last < x.n \/ \E y \in used \cup reserved : y.n <= x.n,
         \A n \in Int : last < n /\ n <= munger'.extLastSN => n \in Account'
  PROVE  Covered'
<1> SUFFICES ASSUME NEW x \in used' \cup reserved', NEW n \in x.n..munger'.extLastSN
             PROVE  n \in Account'
  BY DEF Covered
<1>1. x.n \in Int /\ n \in Int /\ x.n <= n /\ n <= munger'.extLastSN
  OBVIOUS
<1>2. CASE last < n
  BY <1>1, <1>2
<1>3. CASE n <= last
  <2>1. ~(last < x.n)
    BY <1>1, <1>3
  <2>2. PICK y \in used \cup reserved : y.n <= x.n
    BY <2>1
  <2>3. last = munger.extLastSN
    BY <2>2
  <2>4. y.n \in Int
    BY DEF IInv, Types
  <2>5. n \in y.n..munger.extLastSN
    BY <1>1, <1>3, <2>2, <2>3, <2>4
  <2> QED BY <2>2, <2>5 DEF Covered
<1> QED BY <1>1, <1>2, <1>3

(* The packets that are passed over have the numbers between the one that  *)
(* was next and the one that the packet gets.                              *)
LEMMA PassedNumbers ==
  ASSUME NEW m, GoodMunger(m), NEW sn \in Int, m.extHighestIncomingSN < sn
  PROVE  /\ \A r \in PassedOver(m, sn) :
              r.n \in Int /\ NextSN(m) <= r.n /\ r.n < MungedSN(m, sn)
         /\ \A n \in Int : NextSN(m) <= n /\ n < MungedSN(m, sn)
              => n \in {r.n : r \in PassedOver(m, sn)}
<1> DEFINE h == m.extHighestIncomingSN
           off == m.snOffset
<1>1. h \in Int /\ off \in Int /\ NextSN(m) = h + 1 - off /\ MungedSN(m, sn) = sn - off
  BY MungerFields DEF GoodMunger, NextSN, MungedSN
<1>2. PassedOver(m, sn) = {[sn |-> k, n |-> k - off] : k \in (h + 1)..(sn - 1)}
  BY DEF PassedOver, MungedSN
<1> HIDE DEF h, off
<1>3. ASSUME NEW r \in PassedOver(m, sn)
      PROVE  r.n \in Int /\ NextSN(m) <= r.n /\ r.n < MungedSN(m, sn)
  <2>1. PICK k \in (h + 1)..(sn - 1) : r = [sn |-> k, n |-> k - off]
    BY <1>2, <1>3
  <2>2. k \in Int /\ h + 1 <= k /\ k < sn /\ r.n = k - off
    BY <1>1, <2>1
  <2> QED BY <1>1, <2>2
<1>4. ASSUME NEW n \in Int, NextSN(m) <= n, n < MungedSN(m, sn)
      PROVE  n \in {r.n : r \in PassedOver(m, sn)}
  <2> DEFINE k == n + off
             r == [sn |-> k, n |-> k - off]
  <2>1. k \in (h + 1)..(sn - 1) /\ k - off = n
    BY <1>1, <1>4
  <2> HIDE DEF k
  <2>2. r \in PassedOver(m, sn) /\ r.n = n
    BY <1>2, <2>1
  <2> QED BY <2>2
<1> QED BY <1>3, <1>4

(* What is accounted for when the three sets change.                       *)
LEMMA AccountGrows ==
  ASSUME used \subseteq used', holes \subseteq holes',
         \A r \in reserved : r \in reserved' \/ r.n \in holes'
  PROVE  Account \subseteq Account'
BY DEF Account

(* A packet in order, sent or wasted.                                      *)
LEMMA ForwardCovers ==
  ASSUME IInv, IInv', Covered, NEW l \in Layer, NEW sn \in Source,
         Forward(l, sn) \/ Waste(l, sn)
  PROVE  Covered'
<1> DEFINE m == SwitchedMunger(l, sn)
           packet == [n |-> MungedSN(m, sn), by |-> l, sn |-> sn]
           last == NextSN(m) - 1
<1>1. /\ Translate(l, sn) /\ m.extHighestIncomingSN < sn /\ munger' = Advance(m, sn)
      /\ reserved' = Kept(l) \cup PassedOver(m, sn)
      /\ \/ used' = used \cup {packet} /\ holes' = holes \cup Forgotten(l)
         \/ used' = used /\ holes' = holes \cup Forgotten(l) \cup {MungedSN(m, sn)}
  BY DEF Forward, Waste
<1>2. /\ GoodMunger(m) /\ sn \in Int /\ l # 0
      /\ started => NextSN(m) = m.extLastSN + 1
  BY <1>1, SwitchedIsReady, LayersAreNumbers
<1>3. /\ NextSN(m) \in Int /\ last \in Int /\ m.extLastSN \in Int
      /\ MungedSN(m, sn) \in Int
  BY <1>2, MungerFields DEF GoodMunger, NextSN, MungedSN
<1>4. used \cup reserved = {} \/ last = munger.extLastSN
  <2>1. CASE ~started
    BY <2>1 DEF IInv, Numbered, KeptNumbers
  <2>2. CASE started
    <3>1. munger \in Munger
      BY DEF IInv, Types
    <3>2. m.extLastSN = munger.extLastSN
      BY <1>2, <2>2, <3>1, SwitchGood DEF SwitchedMunger, processSourceSwitch
    <3> QED BY <1>2, <1>3, <2>2, <3>2
  <2> QED BY <2>1, <2>2
<1> HIDE DEF m
<1>5. munger'.extLastSN = MungedSN(m, sn) /\ munger'.extLastSN \in Int
  BY <1>1, <1>2, <1>3, AdvanceGood
<1>6. Account \subseteq Account'
  BY <1>1, AccountGrows DEF Forgotten
<1>7. \A x \in used' \cup reserved' : x.n \in Int
  BY DEF IInv, Types
<1>8. /\ \A r \in PassedOver(m, sn) : r.n \in Int /\ NextSN(m) <= r.n
      /\ \A n \in Int : NextSN(m) <= n /\ n < MungedSN(m, sn)
           => n \in {r.n : r \in PassedOver(m, sn)}
      /\ NextSN(m) <= MungedSN(m, sn)
  BY <1>1, <1>2, PassedNumbers, AdvanceGood
<1>9. packet.n = MungedSN(m, sn)
  OBVIOUS
<1> HIDE DEF packet
<1>10. ASSUME NEW x \in used' \cup reserved'
       PROVE  last < x.n \/ \E y \in used \cup reserved : y.n <= x.n
  <2>1. CASE x \in used \cup reserved
    BY <1>7, <2>1
  <2>2. CASE x \in PassedOver(m, sn) \/ x = packet
    BY <1>3, <1>8, <1>9, <2>2
  <2> QED BY <1>1, <2>1, <2>2 DEF Kept
<1>11. MungedSN(m, sn) \in Account'
  BY <1>1, <1>9 DEF Account
<1>12. {r.n : r \in PassedOver(m, sn)} \subseteq Account'
  BY <1>1 DEF Account
<1>13. ASSUME NEW n \in Int, last < n, n <= munger'.extLastSN PROVE n \in Account'
  <2>1. NextSN(m) <= n
    BY <1>3, <1>13
  <2>2. CASE n < MungedSN(m, sn)
    BY <1>8, <1>12, <2>1, <2>2
  <2>3. CASE n = MungedSN(m, sn)
    BY <1>11, <2>3
  <2> QED BY <1>3, <1>5, <1>13, <2>2, <2>3
<1> HIDE DEF last
<1> QED BY <1>3, <1>4, <1>5, <1>6, <1>7, <1>10, <1>13, CoveredGrows

(* A step after which the last number is the same: what is given up of the *)
(* numbers that were kept stays accounted for.                             *)
LEMMA SameLastCovers ==
  ASSUME IInv, Covered, Account \subseteq Account',
         munger'.extLastSN = munger.extLastSN,
         \A x \in used' \cup reserved' : x.n \in {y.n : y \in used \cup reserved}
  PROVE  Covered'
BY DEF Covered

(* A packet that follows on the one before and is not sent leaves the last *)
(* number as it was.                                                       *)
LEMMA SkipKeepsLast ==
  ASSUME IInv, NEW l \in Layer, NEW sn \in Source, Translate(l, sn),
         Filter(l, sn) \/ Exclude(l, sn)
  PROVE  started /\ munger'.extLastSN = munger.extLastSN
<1>1. sn \in Int /\ l # 0 /\ munger \in Munger
  BY LayersAreNumbers DEF IInv, Types
<1>2. CASE Filter(l, sn)
  <2>1. /\ sn = munger.extHighestIncomingSN + 1 /\ lastSSRC = l
        /\ munger' = PacketDropped(Advance(munger, sn), sn)
    BY <1>2 DEF Filter
  <2>2. started /\ GoodMunger(munger)
    BY <1>1, <2>1 DEF IInv, Numbered, Types
  <2> QED BY <1>1, <2>1, <2>2, DroppedGood
<1>3. CASE Exclude(l, sn)
  <2> DEFINE m == SwitchedMunger(l, sn)
  <2>1. /\ lastSSRC = l \/ started
        /\ sn = m.extHighestIncomingSN + 1 /\ munger' = Excluded(m, sn)
    BY <1>3 DEF Exclude
  <2>2. started
    BY <1>1, <2>1 DEF IInv, Numbered, Types
  <2>3. m.extLastSN = munger.extLastSN
    BY <1>1, <2>2, SwitchGood DEF SwitchedMunger, processSourceSwitch
  <2>4. GoodMunger(m)
    BY SwitchedIsReady
  <2> HIDE DEF m
  <2>5. /\ m \in Munger /\ IsRangeMap(m.snRangeMap)
        /\ OpenRange(m.snRangeMap).start <= sn
        /\ OpenRange(m.snRangeMap).value = m.snOffset
    BY <2>1, <2>4 DEF GoodMunger
  <2> QED BY <1>1, <2>1, <2>2, <2>3, <2>5, ExcludedGood
<1> QED BY <1>2, <1>3

(* It leaves no hole.                                                      *)
LEMMA SkipCovers ==
  ASSUME IInv, Covered, NEW l \in Layer, NEW sn \in Source,
         Filter(l, sn) \/ Exclude(l, sn)
  PROVE  Covered'
<1>1. Translate(l, sn) /\ UNCHANGED <<used, reserved, holes>>
  BY DEF Filter, Exclude, history
<1>2. munger'.extLastSN = munger.extLastSN
  BY <1>1, SkipKeepsLast
<1>3. Account \subseteq Account'
  BY <1>1, AccountGrows
<1> QED BY <1>1, <1>2, <1>3, SameLastCovers

(* A late packet takes a number that was kept.                             *)
LEMMA LateCovers ==
  ASSUME IInv, Covered, NEW l \in Layer, NEW sn \in Source, Late(l, sn)
  PROVE  Covered'
<1> DEFINE n == LateSN(munger, sn)
           packet == [n |-> n, by |-> l, sn |-> sn]
           kept == [sn |-> sn, n |-> n]
<1>1. used' = used \cup {packet} /\ UNCHANGED <<munger, reserved, holes>>
  BY DEF Late
<1>2. kept \in reserved /\ kept.n = n /\ packet.n = n
  BY LateIsKept
<1> HIDE DEF n, packet, kept
<1>3. Account \subseteq Account'
  BY <1>1, AccountGrows
<1>4. \A x \in used' \cup reserved' : x.n \in {y.n : y \in used \cup reserved}
  BY <1>1, <1>2
<1> QED BY <1>1, <1>3, <1>4, SameLastCovers

(* A relevant packet that is not selected: if it leaves a gap, the numbers *)
(* of the gap and its own are kept or given up.                            *)
LEMMA RejectCovers ==
  ASSUME IInv, IInv', Covered, NEW l \in Layer, NEW sn \in Source, Reject(l, sn)
  PROVE  Covered'
<1>1. UNCHANGED used /\ sn \in Int /\ munger.extLastSN \in Int
  BY LayersAreNumbers, MungerFields DEF Reject, IInv, Types
<1>2. CASE ~(started /\ sn > munger.extHighestIncomingSN)
  <2>1. UNCHANGED <<munger, reserved, holes>>
    BY <1>2 DEF Reject
  <2>2. Account \subseteq Account'
    BY <1>1, <2>1, AccountGrows
  <2> QED BY <1>1, <2>1, <2>2, SameLastCovers
<1>3. CASE started /\ sn > munger.extHighestIncomingSN
  <2>1. /\ GoodMunger(munger) /\ munger.extHighestIncomingSN < sn
        /\ NextSN(munger) \in {munger.extLastSN, munger.extLastSN + 1}
    BY <1>1, <1>3, MungerFields DEF IInv, Numbered, GoodMunger
  <2>2. CASE sn = munger.extHighestIncomingSN + 1
    <3>1. /\ munger' = PacketDropped(Advance(munger, sn), sn)
          /\ UNCHANGED <<reserved, holes>>
      BY <1>3, <2>2 DEF Reject
    <3>2. munger'.extLastSN = munger.extLastSN
      BY <1>1, <2>1, <2>2, <3>1, DroppedGood
    <3>3. Account \subseteq Account'
      BY <1>1, <3>1, AccountGrows
    <3> QED BY <1>1, <3>1, <3>2, <3>3, SameLastCovers
  <2>3. CASE sn # munger.extHighestIncomingSN + 1
    <3> DEFINE passed == PassedOver(munger, sn)
    <3>1. /\ munger' = Advance(munger, sn)
          /\ reserved' = reserved \cup (IF lastSSRC = l THEN passed ELSE {})
          /\ holes' = holes \cup {MungedSN(munger, sn)} \cup
                        (IF lastSSRC = l THEN {} ELSE {r.n : r \in passed})
      BY <1>3, <2>3 DEF Reject
    <3>2. /\ munger'.extLastSN = MungedSN(munger, sn)
          /\ NextSN(munger) <= munger'.extLastSN
      BY <1>1, <2>1, <3>1, AdvanceGood
    <3>3. munger'.extLastSN \in Int
      BY MungerFields DEF IInv, Types
    <3>4. /\ \A r \in passed : r.n \in Int /\ NextSN(munger) <= r.n
          /\ \A n \in Int : NextSN(munger) <= n /\ n < MungedSN(munger, sn)
               => n \in {r.n : r \in passed}
      BY <1>1, <2>1, PassedNumbers
    <3> HIDE DEF passed
    <3>5. Account \subseteq Account'
      BY <1>1, <3>1, AccountGrows
    <3>6. \A x \in used' \cup reserved' : x.n \in Int
      BY DEF IInv, Types
    <3>7. ASSUME NEW x \in used' \cup reserved'
          PROVE  \/ munger.extLastSN < x.n
                 \/ \E y \in used \cup reserved : y.n <= x.n
      <4>1. CASE x \in used \cup reserved
        BY <3>6, <4>1
      <4>2. CASE lastSSRC = l /\ x \in passed
        <5>1. NextSN(munger) = munger.extLastSN + 1
          BY <4>2, LayersAreNumbers DEF IInv, KeptNumbers
        <5>2. x.n \in Int /\ NextSN(munger) <= x.n
          BY <3>4, <4>2
        <5> QED BY <1>1, <5>1, <5>2
      <4> QED BY <1>1, <3>1, <4>1, <4>2
    <3>8. MungedSN(munger, sn) \in Account' /\ {r.n : r \in passed} \subseteq Account'
      BY <3>1 DEF Account
    <3>9. ASSUME NEW n \in Int, munger.extLastSN < n, n <= munger'.extLastSN
          PROVE  n \in Account'
      <4>1. NextSN(munger) <= n
        BY <1>1, <2>1, <3>9
      <4>2. CASE n < MungedSN(munger, sn)
        BY <3>4, <3>8, <4>1, <4>2
      <4>3. CASE n = MungedSN(munger, sn)
        BY <3>8, <4>3
      <4> QED BY <3>2, <3>3, <3>9, <4>2, <4>3
    <3> QED BY <1>1, <3>3, <3>5, <3>6, <3>7, <3>9, CoveredGrows
  <2> QED BY <2>2, <2>3
<1> QED BY <1>2, <1>3

(* Padding uses the numbers after the last one.                            *)
LEMMA PadCovers ==
  ASSUME IInv, IInv', Covered, NEW num \in 1..MaxBurst, Pad(num)
  PROVE  Covered'
<1> DEFINE m == maybeStart
           pads == {[n |-> m.extLastSN + i, by |-> 0, sn |-> bursts'] : i \in 1..num}
<1>1. /\ munger' = UpdateAndGetPaddingSnTs(m, num) /\ used' = used \cup pads
      /\ UNCHANGED <<reserved, holes>>
  BY DEF Pad
<1>2. num \in Nat /\ num >= 1
  BY ForwardingAssumption
<1>3. GoodMunger(m) /\ (used \cup reserved = {} \/ m.extLastSN = munger.extLastSN)
  <2>1. CASE started
    BY <2>1 DEF maybeStart, IInv, Numbered
  <2>2. CASE ~started
    <3>1. m = SetLastSnTs(DummySN) /\ DummySN \in Int
      BY <2>2, ForwardingAssumption DEF maybeStart
    <3>2. GoodMunger(m)
      BY <3>1, SetLastGood
    <3> QED BY <2>2, <3>2 DEF IInv, Numbered, KeptNumbers
  <2> QED BY <2>1, <2>2
<1>4. m.extLastSN \in Int
  BY <1>3, MungerFields DEF GoodMunger
<1> HIDE DEF m
<1>5. munger'.extLastSN = m.extLastSN + num
  BY <1>1, <1>2, <1>3, PaddingGood
<1>6. Account \subseteq Account'
  BY <1>1, AccountGrows
<1>7. \A x \in used' \cup reserved' : x.n \in Int
  BY DEF IInv, Types
<1>8. ASSUME NEW x \in pads PROVE m.extLastSN < x.n
  <2>1. PICK i \in 1..num : x = [n |-> m.extLastSN + i, by |-> 0, sn |-> bursts']
    BY <1>8
  <2> QED BY <1>2, <1>4, <2>1
<1>9. ASSUME NEW n \in Int, m.extLastSN < n, n <= munger'.extLastSN
      PROVE  n \in Account'
  <2> DEFINE i == n - m.extLastSN
             p == [n |-> m.extLastSN + i, by |-> 0, sn |-> bursts']
  <2>1. i \in 1..num /\ m.extLastSN + i = n
    BY <1>2, <1>4, <1>5, <1>9
  <2> HIDE DEF i
  <2>2. p \in pads /\ p.n = n
    BY <2>1
  <2> QED BY <1>1, <2>2 DEF Account
<1> HIDE DEF pads
<1>10. \A x \in used' \cup reserved' :
         m.extLastSN < x.n \/ \E y \in used \cup reserved : y.n <= x.n
  BY <1>1, <1>7, <1>8
<1> QED BY <1>2, <1>3, <1>4, <1>5, <1>6, <1>7, <1>9, <1>10, CoveredGrows

(* Every step of the track keeps the numbers accounted for.                *)
LEMMA NextCovers == IInv /\ IInv' /\ Covered /\ [Next]_vars => Covered'
<1> SUFFICES ASSUME IInv, IInv', Covered, [Next]_vars PROVE Covered'
  OBVIOUS
<1>1. ASSUME UNCHANGED <<munger, used, reserved, holes>> PROVE Covered'
  BY <1>1 DEF Covered, Account
<1>2. ASSUME NEW l \in Layer, NEW sn \in Source, WriteRTP(l, sn) PROVE Covered'
  <2>1. CASE Rollback(l, sn)
    BY <1>1, <2>1 DEF Rollback, history
  <2>2. CASE Forward(l, sn) \/ Waste(l, sn)
    BY <2>2, ForwardCovers
  <2>3. CASE Filter(l, sn) \/ Exclude(l, sn)
    BY <2>3, SkipCovers
  <2>4. CASE Late(l, sn)
    BY <2>4, LateCovers
  <2>5. CASE TooLate(l, sn)
    BY <1>1, <2>5 DEF TooLate, history
  <2>6. CASE Reject(l, sn)
    BY <2>6, RejectCovers
  <2> QED BY <1>2, <2>1, <2>2, <2>3, <2>4, <2>5, <2>6 DEF WriteRTP
<1>3. ASSUME NEW num \in 1..MaxBurst, WritePaddingRTP(num) \/ writeBlankFrameRTP(num)
      PROVE  Covered'
  <2>1. Pad(num)
    BY <1>3 DEF WritePaddingRTP, writeBlankFrameRTP
  <2> QED BY <2>1, PadCovers
<1>4. CASE Stop
  <2>1. /\ UNCHANGED <<munger, used>> /\ reserved' = {}
        /\ holes' = holes \cup {r.n : r \in reserved}
    BY <1>4 DEF Stop
  <2>2. Account \subseteq Account'
    BY <2>1, AccountGrows
  <2> QED BY <2>1, <2>2, SameLastCovers
<1>5. CASE Resume
  BY <1>1, <1>5 DEF Resume, forwarderVars, history
<1>6. ASSUME NEW j \in pending, push(j) \/ pushPadding(j) PROVE Covered'
  BY <1>1, <1>6 DEF push, pushPadding, forwarderVars, history
<1>7. CASE UNCHANGED vars
  BY <1>1, <1>7 DEF vars, forwarderVars, history
<1> QED BY <1>2, <1>3, <1>4, <1>5, <1>6, <1>7 DEF Next

(* For any number of packets, bursts of padding and stops: what is dropped *)
(* or filtered leaves no hole in the numbers that are sent, but for those  *)
(* of missing packets and those that were given up.                        *)
THEOREM NoNumberIsLost == Spec => []NoHoles
<1>1. Init => Covered
  BY DEF Init, Covered
<1>2. Covered => NoHoles
  BY DEF Covered, Account, NoHoles
<1> QED BY <1>1, <1>2, IInvHolds, NextCovers, PTL DEF Spec

-----------------------------------------------------------------------------
(* Numbers on the wire.                                                    *)

(* Division with remainder.                                               *)
LEMMA Division ==
  ASSUME NEW m \in Nat \ {0}, NEW a \in Int
  PROVE  a \div m \in Int /\ a % m \in 0..(m - 1) /\ a = m * (a \div m) + (a % m)
OBVIOUS

(* A multiple is no less.                                                  *)
LEMMA Multiple ==
  ASSUME NEW m \in Nat \ {0}, NEW q \in Int, q > 0
  PROVE  m * q >= m
OBVIOUS

(* Numbers with one remainder are a whole turn apart.                      *)
LEMMA ATurnApart ==
  ASSUME NEW m \in Nat \ {0}, NEW a \in Int, NEW b \in Int, a < b, a % m = b % m
  PROVE  b - a >= m
<1> DEFINE p == a \div m
           q == b \div m
           r == a % m
<1>1. p \in Int /\ r \in 0..(m-1) /\ a = m * p + r
  BY Division
<1>2. q \in Int /\ b = m * q + r
  BY Division
<1> HIDE DEF p, q, r
<1>3. b - a = m * (q - p)
  BY ONLY <1>1, <1>2, m \in Nat
<1>4. q - p > 0
  BY ONLY <1>1, <1>2, <1>3, m \in Nat \ {0}, a < b
<1> QED BY <1>1, <1>2, <1>3, <1>4, Multiple

(* The number on the wire and the highest number give the number back, as  *)
(* getExtPacketMetas does it, if it is less than a turn behind.            *)
LEMMA NumberIsFound ==
  ASSUME NEW w \in Nat \ {0}, NEW n \in Int, NEW h \in Int, n <= h, h - n < w
  PROVE  /\ (n % w) + (h - (h % w)) - (IF n % w > h % w THEN w ELSE 0) = n
         /\ ((h % w) - (n % w)) % w = h - n
<1> DEFINE p == n \div w
           q == h \div w
           r == n % w
           s == h % w
<1>1. p \in Int /\ r \in 0..(w - 1) /\ n = w * p + r
  BY Division
<1>2. q \in Int /\ s \in 0..(w - 1) /\ h = w * q + s
  BY Division
<1> HIDE DEF p, q, r, s
<1>3. h - n = w * (q - p) + (s - r)
  BY ONLY <1>1, <1>2, w \in Nat
<1>4. q - p \in {0, 1}
  <2>1. q - p < 0 => w * (q - p) <= -w
    BY ONLY <1>1, <1>2, w \in Nat \ {0}
  <2>2. q - p > 1 => w * (q - p) >= 2 * w
    BY ONLY <1>1, <1>2, w \in Nat \ {0}
  <2> QED BY <1>1, <1>2, <1>3, <2>1, <2>2
<1>5. CASE q = p
  <2>1. h - n = s - r /\ ~(r > s)
    BY <1>1, <1>2, <1>3, <1>5
  <2>2. (s - r) % w = s - r
    BY ONLY <1>1, <1>2, <2>1, w \in Nat \ {0}, n \in Int, h \in Int, n <= h, h - n < w
  <2> QED BY <1>1, <1>2, <1>5, <2>1, <2>2 DEF r, s
<1>6. CASE q = p + 1
  <2>1. h - n = w + (s - r) /\ s < r
    BY <1>1, <1>2, <1>3, <1>6
  <2>2. (s - r) % w = w + (s - r)
    BY ONLY <1>1, <1>2, <2>1, w \in Nat \ {0}
  <2> QED BY <1>1, <1>2, <2>1, <2>2 DEF r, s
<1> QED BY <1>1, <1>2, <1>4, <1>5, <1>6

-----------------------------------------------------------------------------
(* The sequencer.                                                          *)

(* The assumption on its size: fewer numbers are given while a goroutine   *)
(* is between its two steps than the sequencer remembers, and it remembers *)
(* at most half of the numbers there are on the wire.                      *)
SizeFits == MaxOvertake < Size /\ 2 * Size <= Width

(* What the sequencer remembers is less than a turn of the numbers on the  *)
(* wire behind.  Slots that padding passes over are not cleared, so that   *)
(* this is not so by itself: a packet may stay in its slot for long.       *)
RingIsRecent ==
  \A slot \in 0..(Size - 1), p \in used :
    /\ p.by # 0
    /\ meta[slot] = [by |-> p.by, sn |-> p.sn, targetSeqNo |-> p.n % Width]
    => sequencer.extHighestSN - p.n < Width

(* Numbers are positive, like the first ones.                              *)
Positive ==
  /\ started => 1 <= munger.extLastSN
  /\ \A x \in used \cup reserved : 1 <= x.n

IsPadding(n) == \E p \in used : p.n = n /\ p.by = 0

(* Who is about to record something has sent it.  Padding that others      *)
(* overtake is overtaken by few.                                           *)
PendingIsSent ==
  /\ pending \subseteq [by : {0} \cup Layer, first : Int, last : Int, sn : Int]
  /\ \A j \in pending :
       /\ j.by # 0 => /\ j.last = j.first
                      /\ [n |-> j.first, by |-> j.by, sn |-> j.sn] \in used
       /\ j.by = 0 => /\ MaybeSparse /\ j.first <= j.last
                      /\ \A n \in j.first..j.last : IsPadding(n)
                      /\ \/ munger.extLastSN <= j.last
                         \/ munger.extLastSN <= j.first + MaxOvertake
  /\ \A j, k \in pending : j.by = 0 /\ k.by = 0 => j = k

Sequencer ==
  [initialized : BOOLEAN, extStartSN : Int, extHighestSN : Int, snOffset : Int,
   snRangeMap : Seq(Range)]

GoodSequencer ==
  /\ sequencer \in Sequencer
  /\ IsRangeMap(sequencer.snRangeMap) /\ Steady(sequencer.snRangeMap)
  /\ OpenRange(sequencer.snRangeMap).value = sequencer.snOffset
  /\ OpenRange(sequencer.snRangeMap).start <= sequencer.extHighestSN + 1
  /\ ~MaybeSparse \/ ~sequencer.initialized
       => sequencer.snRangeMap = initRanges(0, 0)

(* The highest number was sent and is recorded.                            *)
HighestIsRecorded ==
  sequencer.initialized =>
    /\ \E p \in used : p.n = sequencer.extHighestSN
    /\ \A j \in pending : sequencer.extHighestSN \notin j.first..j.last

(* What the ranges leave out is padding.                                   *)
GapsArePadding ==
  LET ranges == sequencer.snRangeMap
  IN  \A n \in ranges[1].start..OpenRange(ranges).start :
        ~HasValue(ranges, n) => IsPadding(n)

Slot(ranges, n) == (n - GetValue(ranges, n)) % Size
Entry(p) == [by |-> p.by, sn |-> p.sn, targetSeqNo |-> p.n % Width]
IsPending(p) == \E j \in pending : j.first = p.n

(* A packet that was recorded stays in its slot while it is recent.        *)
Recorded ==
  \A p \in used :
    p.by # 0 /\ ~IsPending(p) =>
      /\ sequencer.initialized
      /\ /\ sequencer.extStartSN <= p.n
         /\ sequencer.snRangeMap[1].start <= p.n
         /\ sequencer.extHighestSN - p.n < Size
         => /\ p.n <= sequencer.extHighestSN
            /\ HasValue(sequencer.snRangeMap, p.n)
            /\ meta[Slot(sequencer.snRangeMap, p.n)] = Entry(p)

(* A slot is empty or has a packet that was sent.                          *)
SlotsAreSent ==
  /\ DOMAIN meta = 0..(Size - 1)
  /\ \A slot \in 0..(Size - 1) :
       \/ meta[slot] = NoMeta
       \/ /\ sequencer.initialized
          /\ \E p \in used : /\ p.by # 0 /\ p.n <= sequencer.extHighestSN
                             /\ meta[slot] = Entry(p)

SInv ==
  /\ Positive /\ PendingIsSent /\ GoodSequencer /\ HighestIsRecorded
  /\ GapsArePadding /\ Recorded /\ SlotsAreSent

(* The fields of the sequencer have their types.                           *)
LEMMA SequencerFields ==
  ASSUME GoodSequencer
  PROVE  /\ sequencer.initialized \in BOOLEAN /\ sequencer.extStartSN \in Int
         /\ sequencer.extHighestSN \in Int /\ sequencer.snOffset \in Int
         /\ sequencer.snRangeMap \in Seq(Range)
         /\ IsRangeMap(sequencer.snRangeMap) /\ Steady(sequencer.snRangeMap)
         /\ sequencer.snRangeMap[1].start \in Int
         /\ OpenRange(sequencer.snRangeMap).start \in Int
<1>1. sequencer \in Sequencer /\ IsRangeMap(sequencer.snRangeMap)
      /\ Steady(sequencer.snRangeMap)
  BY DEF GoodSequencer
<1>2. /\ sequencer.snRangeMap[1].start \in Int
      /\ OpenRange(sequencer.snRangeMap).start \in Int
  BY <1>1, LengthIsPositive, RangesAreTyped, OpenIsTyped
<1> QED BY <1>1, <1>2 DEF Sequencer

(* With and without a map of ranges, the slot of a number is that of the   *)
(* ranges.                                                                 *)
LEMMA SlotOfNumber ==
  ASSUME GoodSequencer, NEW n \in Int, 1 <= n
  PROVE  /\ IsMapped(sequencer, n) <=> HasValue(sequencer.snRangeMap, n)
         /\ HasValue(sequencer.snRangeMap, n)
              => Adjusted(sequencer, n) = n - GetValue(sequencer.snRangeMap, n)
<1>1. CASE MaybeSparse
  BY <1>1 DEF IsMapped, Adjusted
<1>2. CASE ~MaybeSparse
  <2> DEFINE ranges == initRanges(0, 0)
  <2>1. sequencer.snRangeMap = ranges
    BY <1>2 DEF GoodSequencer
  <2>2. /\ IsRangeMap(ranges) /\ OpenRange(ranges).start = 0
        /\ OpenRange(ranges).value = 0
    BY InitRanges
  <2> HIDE DEF ranges
  <2>3. HasValue(ranges, n) /\ GetValue(ranges, n) = 0
    BY <2>2, OpenValue
  <2> QED BY <1>2, <2>1, <2>3 DEF IsMapped, Adjusted
<1> QED BY <1>1, <1>2

(* A number after the highest one comes after all that is left out.        *)
LEMMA AboveHighest ==
  ASSUME GoodSequencer, NEW n \in Int, sequencer.extHighestSN < n
  PROVE  /\ HasValue(sequencer.snRangeMap, n)
         /\ GetValue(sequencer.snRangeMap, n) = sequencer.snOffset
<1>1. OpenRange(sequencer.snRangeMap).start <= n
  BY SequencerFields DEF GoodSequencer
<1> QED BY <1>1, SequencerFields, OpenValue DEF GoodSequencer

(* A number up to the highest one is no more slots than numbers behind it. *)
LEMMA UpToHighest ==
  ASSUME GoodSequencer, NEW n \in Int, n <= sequencer.extHighestSN,
         HasValue(sequencer.snRangeMap, n)
  PROVE  LET slot == n - GetValue(sequencer.snRangeMap, n)
         IN  /\ slot \in Int /\ slot <= HighestAdjusted(sequencer)
             /\ HighestAdjusted(sequencer) - slot <= sequencer.extHighestSN - n
<1> DEFINE h == sequencer.extHighestSN
           off == sequencer.snOffset
           v == GetValue(sequencer.snRangeMap, n)
<1>1. h \in Int /\ off \in Int /\ h + 1 \in Int /\ h < h + 1 /\ n < h + 1
  BY SequencerFields
<1>2. HasValue(sequencer.snRangeMap, h + 1) /\ GetValue(sequencer.snRangeMap, h + 1) = off
  BY <1>1, AboveHighest
<1>3. v \in Int /\ v <= off /\ n - v < (h + 1) - off
  BY <1>1, <1>2, SequencerFields, SteadyKeys
<1> HIDE DEF h, off, v
<1>4. HighestAdjusted(sequencer) = h - off
  BY DEF HighestAdjusted, h, off
<1>5. /\ n - v \in Int /\ n - v <= h - off /\ (h - off) - (n - v) <= h - n
  BY <1>1, <1>3
<1> QED BY <1>4, <1>5 DEF h, v

(* Different numbers that are near each other have different slots.        *)
LEMMA OtherSlot ==
  ASSUME NEW a \in Int, NEW b \in Int, a # b, a - b < Size, b - a < Size
  PROVE  a % Size # b % Size
<1>1. Size \in Nat \ {0}
  BY ForwardingAssumption
<1>2. SUFFICES ASSUME a % Size = b % Size PROVE FALSE
  OBVIOUS
<1>3. CASE a < b
  <2>1. b - a >= Size
    BY <1>1, <1>2, <1>3, ATurnApart
  <2> QED BY <1>1, <2>1
<1>4. CASE b < a
  <2>1. a - b >= Size
    BY <1>1, <1>2, <1>4, ATurnApart
  <2> QED BY <1>1, <2>1
<1> QED BY <1>3, <1>4

(* A packet is not padding, pending or not.                                *)
LEMMA PacketsAreNotPadding ==
  ASSUME IInv, PendingIsSent, NEW p \in used, p.by # 0
  PROVE  /\ ~IsPadding(p.n)
         /\ \A j \in pending : j.by = 0 => p.n \notin j.first..j.last
<1>1. ~IsPadding(p.n)
  BY DEF IInv, NumbersAreUnique, IsPadding
<1> QED BY <1>1 DEF PendingIsSent

(* The packet that a goroutine is about to record.                         *)
PacketOf(j) == [n |-> j.first, by |-> j.by, sn |-> j.sn]

(* What push looks at: the sequencer, once it is initialized; the slot     *)
(* before the modulus; whether the packet is stored at all.                *)
PushedTo(j) == Initialized(sequencer, j.first)
PushedSlot(j) ==
  IF j.first < PushedTo(j).extHighestSN THEN Adjusted(PushedTo(j), j.first)
                                        ELSE j.first - PushedTo(j).snOffset
IsStored(j) ==
  /\ j.first >= PushedTo(j).extStartSN
  /\ j.first < PushedTo(j).extHighestSN => IsMapped(PushedTo(j), j.first)
  /\ PushedSlot(j) - HighestAdjusted(PushedTo(j)) > -Size
Passed(j) ==
  {e % Size : e \in (HighestAdjusted(PushedTo(j)) + 1)..(PushedSlot(j) - 1)}

(* push in these terms.                                                    *)
LEMMA PushDoes ==
  ASSUME NEW j \in pending, push(j)
  PROVE  /\ j.by # 0 /\ pending' = pending \ {j}
         /\ IsStored(j) =>
              /\ sequencer' = [PushedTo(j) EXCEPT !.extHighestSN =
                   IF j.first > PushedTo(j).extHighestSN
                     THEN j.first ELSE PushedTo(j).extHighestSN]
              /\ meta' = [slot \in 0..(Size - 1) |->
                   IF slot = PushedSlot(j) % Size THEN Entry(PacketOf(j))
                   ELSE IF slot \in Passed(j) THEN NoMeta ELSE meta[slot]]
         /\ ~IsStored(j) => sequencer' = PushedTo(j) /\ meta' = meta
         /\ UNCHANGED <<kind, started, munger, used, reserved>>
<1>1. /\ j.by # 0 /\ pending' = pending \ {j}
      /\ UNCHANGED <<kind, started, munger, used, reserved>>
  BY DEF push, forwarderVars, history
<1>2. Entry(PacketOf(j)) = [by |-> j.by, sn |-> j.sn, targetSeqNo |-> j.first % Width]
  BY DEF Entry, PacketOf
<1>3. /\ IsStored(j) =>
           /\ sequencer' = [PushedTo(j) EXCEPT !.extHighestSN =
                IF j.first > PushedTo(j).extHighestSN
                  THEN j.first ELSE PushedTo(j).extHighestSN]
           /\ meta' = [slot \in 0..(Size - 1) |->
                IF slot = PushedSlot(j) % Size
                  THEN [by |-> j.by, sn |-> j.sn, targetSeqNo |-> j.first % Width]
                  ELSE IF slot \in Passed(j) THEN NoMeta ELSE meta[slot]]
      /\ ~IsStored(j) => sequencer' = PushedTo(j) /\ meta' = meta
  BY DEF push, PushedTo, PushedSlot, IsStored, Passed
<1> QED BY <1>1, <1>2, <1>3

(* Who records a packet leaves the others pending, and none of them has    *)
(* its number.                                                             *)
LEMMA PushLeavesOthers ==
  ASSUME IInv, SInv, NEW j \in pending, push(j)
  PROVE  /\ PacketOf(j) \in used /\ PacketOf(j).by # 0 /\ PacketOf(j).n = j.first
         /\ j.first \in Int /\ 1 <= j.first
         /\ j.first \in j.first..j.last
         /\ Positive' /\ PendingIsSent'
         /\ \A k \in pending' : j.first \notin k.first..k.last
         /\ \A p \in used' :
              p.by # 0 /\ ~IsPending(p)' => p = PacketOf(j) \/ ~IsPending(p)
<1>1. /\ j.by # 0 /\ pending' = pending \ {j}
      /\ UNCHANGED <<kind, started, munger, used, reserved>>
  BY PushDoes
<1>2. /\ pending \subseteq [by : {0} \cup Layer, first : Int, last : Int, sn : Int]
      /\ j.last = j.first /\ PacketOf(j) \in used
  BY <1>1 DEF SInv, PendingIsSent, PacketOf
<1>3. PacketOf(j).by # 0 /\ PacketOf(j).n = j.first
  BY <1>1 DEF PacketOf
<1>4. j.first \in Int /\ 1 <= j.first /\ j.first \in j.first..j.last
  BY <1>2, <1>3 DEF SInv, Positive
<1>5. Positive'
  BY <1>1 DEF SInv, Positive
<1>6. PendingIsSent'
  BY <1>1 DEF SInv, PendingIsSent, IsPadding, MaybeSparse
<1>7. ASSUME NEW k \in pending', j.first \in k.first..k.last PROVE FALSE
  <2>1. k \in pending /\ k # j
    BY <1>1
  <2>2. k.by # 0
    BY <1>2, <1>3, <1>7, <2>1, PacketsAreNotPadding DEF SInv
  <2>3. k.last = k.first /\ PacketOf(k) \in used
    BY <2>1, <2>2 DEF SInv, PendingIsSent, PacketOf
  <2>4. k.first = j.first
    BY <1>2, <1>4, <1>7, <2>1, <2>3
  <2>5. PacketOf(k) = PacketOf(j)
    BY <1>2, <2>3, <2>4 DEF IInv, NumbersAreUnique, PacketOf
  <2>6. k.by = j.by /\ k.sn = j.sn
    BY <2>5 DEF PacketOf
  <2> QED BY <1>2, <2>1, <2>3, <2>4, <2>6
<1>8. ASSUME NEW p \in used', p.by # 0, ~IsPending(p)', p # PacketOf(j)
      PROVE  ~IsPending(p)
  <2>1. p.n # j.first
    BY <1>1, <1>2, <1>3, <1>8 DEF IInv, NumbersAreUnique
  <2> QED BY <1>1, <1>8, <2>1 DEF IsPending
<1> QED BY <1>2, <1>3, <1>4, <1>5, <1>6, <1>7, <1>8

(* The ranges of a sequencer that has recorded nothing.                    *)
LEMMA FirstRange ==
  LET ranges == initRanges(0, 0)
  IN  /\ IsRangeMap(ranges) /\ OpenRange(ranges).start = 0
      /\ OpenRange(ranges).value = 0 /\ ranges[1].start = 0
      /\ Steady(ranges) /\ ranges \in Seq(Range)
<1> DEFINE ranges == initRanges(0, 0)
<1>1. /\ IsRangeMap(ranges) /\ OpenRange(ranges).start = 0
      /\ OpenRange(ranges).value = 0 /\ ranges[1].start = 0
  BY InitRanges
<1>2. Len(ranges) = 1
  BY DEF initRanges
<1> HIDE DEF ranges
<1>3. \A i, j \in 1..Len(ranges) : ~(i < j)
  BY ONLY <1>2
<1>4. Steady(ranges)
  BY <1>3 DEF Steady
<1> QED BY <1>1, <1>4 DEF IsRangeMap, ranges

(* The first packet that is recorded initializes the sequencer.            *)
LEMMA FirstPushKeeps ==
  ASSUME IInv, SInv, NEW j \in pending, push(j), ~sequencer.initialized
  PROVE  SInv'
<1> DEFINE n == j.first
           p == PacketOf(j)
           s == PushedTo(j)
           ranges == initRanges(0, 0)
<1>1. /\ p \in used /\ p.by # 0 /\ p.n = n /\ n \in Int /\ 1 <= n
      /\ Positive' /\ PendingIsSent'
      /\ \A k \in pending' : n \notin k.first..k.last
      /\ \A q \in used' : q.by # 0 /\ ~IsPending(q)' => q = p \/ ~IsPending(q)
  BY PushLeavesOthers
<1>2. UNCHANGED <<kind, used>>
  BY PushDoes
<1>3. /\ IsRangeMap(ranges) /\ OpenRange(ranges).start = 0
      /\ OpenRange(ranges).value = 0 /\ ranges[1].start = 0
      /\ Steady(ranges) /\ ranges \in Seq(Range) /\ ranges = initRanges(0, 0)
  BY FirstRange
<1>4. sequencer.snRangeMap = ranges /\ sequencer.snOffset = 0 /\ sequencer \in Sequencer
  BY <1>3 DEF SInv, GoodSequencer
<1> HIDE DEF ranges
<1>5. /\ s \in Sequencer /\ s.initialized /\ s.extStartSN = n /\ s.extHighestSN = n
      /\ s.snOffset = 0 /\ s.snRangeMap = ranges
  BY <1>1, <1>4 DEF PushedTo, Initialized, Sequencer
<1> HIDE DEF s
<1>6. Size \in Nat \ {0}
  BY ForwardingAssumption
<1>7. PushedSlot(j) = n /\ HighestAdjusted(s) = n
  BY <1>1, <1>5 DEF PushedSlot, HighestAdjusted, s
<1>8. IsStored(j)
  BY <1>1, <1>5, <1>6, <1>7 DEF IsStored, s
<1>9. /\ sequencer' = [s EXCEPT !.extHighestSN = IF n > s.extHighestSN THEN n ELSE s.extHighestSN]
      /\ meta' = [slot \in 0..(Size - 1) |->
                    IF slot = PushedSlot(j) % Size THEN Entry(p)
                    ELSE IF slot \in Passed(j) THEN NoMeta ELSE meta[slot]]
  BY <1>8, PushDoes DEF s
<1>10. /\ sequencer' \in Sequencer /\ sequencer'.initialized
       /\ sequencer'.extStartSN = n /\ sequencer'.extHighestSN = n
       /\ sequencer'.snOffset = 0 /\ sequencer'.snRangeMap = ranges
  BY <1>1, <1>5, <1>9 DEF Sequencer
<1>11. /\ DOMAIN meta' = 0..(Size - 1) /\ meta'[n % Size] = Entry(p)
       /\ \A slot \in 0..(Size - 1) : meta'[slot] \in {Entry(p), NoMeta, meta[slot]}
  <2>1. n % Size \in 0..(Size - 1)
    BY <1>1, <1>6, Division
  <2> QED BY <1>7, <1>9, <2>1
<1> HIDE DEF p
<1>12. GoodSequencer'
  <2>1. 0 <= n + 1
    BY <1>1
  <2> QED BY <1>3, <1>10, <2>1 DEF GoodSequencer
<1>13. HighestIsRecorded'
  BY <1>1, <1>2, <1>10 DEF HighestIsRecorded
<1>14. GapsArePadding'
  <2>1. ASSUME NEW k \in 0..0 PROVE HasValue(ranges, k)
    BY <1>3, OpenValue
  <2> QED BY <1>3, <1>10, <2>1 DEF GapsArePadding
<1>15. Recorded'
  <2>1. ASSUME NEW q \in used', q.by # 0, ~IsPending(q)' PROVE q = p
    BY <1>1, <1>2, <2>1 DEF SInv, Recorded
  <2>2. HasValue(ranges, n) /\ GetValue(ranges, n) = 0
    BY <1>1, <1>3, OpenValue
  <2>3. Slot(ranges, n) = n % Size
    BY <1>1, <2>2 DEF Slot
  <2> QED BY <1>1, <1>10, <1>11, <2>1, <2>2, <2>3 DEF Recorded
<1>16. SlotsAreSent'
  <2>1. \A slot \in 0..(Size - 1) : meta[slot] = NoMeta
    BY DEF SInv, SlotsAreSent
  <2> QED BY <1>1, <1>2, <1>10, <1>11, <2>1 DEF SlotsAreSent
<1> QED BY <1>1, <1>12, <1>13, <1>14, <1>15, <1>16 DEF SInv

(* A packet that is recorded when the sequencer knows others: its number   *)
(* is not the highest one, its slot is that of its number, and it is       *)
(* stored if it is recent.                                                 *)
LEMMA PushFinds ==
  ASSUME IInv, SInv, NEW j \in pending, push(j), sequencer.initialized
  PROVE  LET ranges == sequencer.snRangeMap
             n == j.first
         IN  /\ PushedTo(j) = sequencer /\ n # sequencer.extHighestSN
             /\ HasValue(ranges, n) =>
                  /\ PushedSlot(j) = n - GetValue(ranges, n) /\ PushedSlot(j) \in Int
             /\ IsStored(j) => HasValue(ranges, n)
             /\ /\ sequencer.extStartSN <= n /\ ranges[1].start <= n
                /\ sequencer.extHighestSN - n < Size
                => IsStored(j)
<1> DEFINE n == j.first
           p == PacketOf(j)
           ranges == sequencer.snRangeMap
           h == sequencer.extHighestSN
           off == sequencer.snOffset
<1>1. p \in used /\ p.by # 0 /\ p.n = n /\ n \in Int /\ 1 <= n /\ n \in j.first..j.last
  BY PushLeavesOthers
<1>2. PushedTo(j) = sequencer
  BY DEF PushedTo, Initialized
<1>3. /\ h \in Int /\ off \in Int /\ IsRangeMap(ranges)
      /\ ranges[1].start \in Int /\ OpenRange(ranges).start \in Int
      /\ HighestAdjusted(sequencer) = h - off
  BY SequencerFields DEF SInv, HighestAdjusted
<1>4. n # h
  BY <1>1 DEF SInv, HighestIsRecorded
<1>5. Size \in Nat \ {0}
  BY ForwardingAssumption
<1>6. CASE n < h
  <2>1. /\ IsMapped(sequencer, n) <=> HasValue(ranges, n)
        /\ HasValue(ranges, n) => Adjusted(sequencer, n) = n - GetValue(ranges, n)
    BY <1>1, SlotOfNumber DEF SInv
  <2>2. PushedSlot(j) = Adjusted(sequencer, n)
    BY <1>2, <1>6 DEF PushedSlot
  <2>3. ASSUME HasValue(ranges, n)
        PROVE  /\ n - GetValue(ranges, n) \in Int
               /\ (h - off) - (n - GetValue(ranges, n)) <= h - n
    BY <1>1, <1>3, <1>6, <2>3, UpToHighest DEF SInv
  <2>4. IsStored(j) => HasValue(ranges, n)
    BY <1>2, <1>6, <2>1 DEF IsStored
  <2>5. ASSUME sequencer.extStartSN <= n, ranges[1].start <= n, h - n < Size
        PROVE  IsStored(j)
    <3>1. HasValue(ranges, n)
      <4>1. CASE OpenRange(ranges).start <= n
        BY <1>1, <1>3, <4>1, OpenValue
      <4>2. CASE n < OpenRange(ranges).start
        <5>1. n \in ranges[1].start..OpenRange(ranges).start
          BY <1>1, <1>3, <2>5, <4>2
        <5>2. ~IsPadding(n)
          BY <1>1, PacketsAreNotPadding DEF SInv
        <5> QED BY <5>1, <5>2 DEF SInv, GapsArePadding
      <4> QED BY <1>1, <1>3, <4>1, <4>2
    <3>2. (n - GetValue(ranges, n)) - (h - off) > -Size
      BY <1>1, <1>3, <1>5, <2>3, <2>5, <3>1
    <3>3. sequencer.extStartSN \in Int
      BY SequencerFields DEF SInv
    <3> QED BY <1>1, <1>2, <1>3, <2>1, <2>2, <2>5, <3>1, <3>2, <3>3 DEF IsStored
  <2> QED BY <1>2, <1>4, <2>1, <2>2, <2>3, <2>4, <2>5
<1>7. CASE h < n
  <2>1. HasValue(ranges, n) /\ GetValue(ranges, n) = off
    BY <1>1, <1>7, AboveHighest DEF SInv
  <2>2. PushedSlot(j) = n - off
    BY <1>1, <1>2, <1>3, <1>7 DEF PushedSlot
  <2>3. ASSUME sequencer.extStartSN <= n PROVE IsStored(j)
    <3>1. (n - off) - (h - off) > -Size
      BY <1>1, <1>3, <1>5, <1>7
    <3>2. sequencer.extStartSN \in Int /\ ~(n < h)
      BY <1>1, <1>3, <1>7, SequencerFields DEF SInv
    <3> QED BY <1>1, <1>2, <1>3, <2>2, <2>3, <3>1, <3>2 DEF IsStored
  <2>4. n - off \in Int
    BY <1>1, <1>3
  <2> QED BY <1>2, <1>4, <2>1, <2>2, <2>3, <2>4
<1> QED BY <1>1, <1>3, <1>4, <1>6, <1>7

(* A packet that is stored takes the slot of no packet that stays recent.  *)
LEMMA OthersKeepTheirSlots ==
  ASSUME IInv, SInv, NEW j \in pending, push(j), sequencer.initialized, IsStored(j),
         NEW q \in used, q # PacketOf(j),
         q.n <= sequencer.extHighestSN, HasValue(sequencer.snRangeMap, q.n),
         sequencer.extHighestSN - q.n < Size, j.first - q.n < Size
  PROVE  meta'[Slot(sequencer.snRangeMap, q.n)] = meta[Slot(sequencer.snRangeMap, q.n)]
<1> DEFINE n == j.first
           k == q.n
           ranges == sequencer.snRangeMap
           h == sequencer.extHighestSN
           off == sequencer.snOffset
           a == k - GetValue(ranges, k)
           b == PushedSlot(j)
<1>1. /\ PacketOf(j) \in used /\ PacketOf(j).n = n /\ n \in Int /\ k \in Int
  BY PushLeavesOthers DEF IInv, Types
<1>2. n # k
  BY <1>1 DEF IInv, NumbersAreUnique
<1>3. /\ h \in Int /\ off \in Int /\ IsRangeMap(ranges) /\ Steady(ranges)
      /\ HighestAdjusted(sequencer) = h - off
  BY SequencerFields DEF SInv, HighestAdjusted
<1>4. PushedTo(j) = sequencer /\ n # h /\ HasValue(ranges, n)
      /\ b = n - GetValue(ranges, n) /\ b \in Int
  BY PushFinds
<1>5. a \in Int /\ a <= h - off /\ (h - off) - a <= h - k
  BY <1>1, <1>3, UpToHighest DEF SInv
<1>6. Size \in Nat \ {0}
  BY ForwardingAssumption
<1>7. a # b
  <2>1. CASE k < n
    <3>1. a < b
      BY <1>1, <1>3, <1>4, <2>1, SteadyKeys
    <3> QED BY <1>4, <1>5, <3>1
  <2>2. CASE n < k
    <3>1. b < a
      BY <1>1, <1>3, <1>4, <2>2, SteadyKeys
    <3> QED BY <1>4, <1>5, <3>1
  <2> QED BY <1>1, <1>2, <2>1, <2>2
<1>8. b - (h - off) > -Size
  BY <1>3, <1>4 DEF IsStored
<1>9. n < h => b <= h - off
  BY <1>1, <1>3, <1>4, UpToHighest DEF SInv
<1>10. h < n => b = n - off
  BY <1>1, <1>4, AboveHighest DEF SInv
<1>11. h - k < Size /\ n - k < Size
  OBVIOUS
<1> HIDE DEF n, k, h, off, a, b, ranges
<1>12. ASSUME NEW e \in Int, e = b \/ (h - off < e /\ e < b) PROVE a % Size # e % Size
  <2>1. a # e /\ a - e < Size /\ e - a < Size
    <3>1. CASE n < h
      BY <1>3, <1>4, <1>5, <1>6, <1>7, <1>8, <1>9, <1>11, <1>12, <3>1, <1>1
    <3>2. CASE h < n
      BY <1>3, <1>4, <1>5, <1>6, <1>7, <1>10, <1>11, <1>12, <3>2, <1>1
    <3> QED BY <1>1, <1>3, <1>4, <3>1, <3>2
  <2> QED BY <1>5, <2>1, OtherSlot
<1>13. a % Size # b % Size
  BY <1>4, <1>12
<1>14. a % Size \notin Passed(j)
  <2>1. ASSUME NEW e \in (h - off + 1)..(b - 1) PROVE a % Size # e % Size
    BY <1>3, <1>4, <1>12, <2>1
  <2> QED BY <1>3, <1>4, <2>1 DEF Passed, b
<1>15. a % Size \in 0..(Size - 1)
  BY <1>5, <1>6, Division
<1>16. meta' = [slot \in 0..(Size - 1) |->
                  IF slot = b % Size THEN Entry(PacketOf(j))
                  ELSE IF slot \in Passed(j) THEN NoMeta ELSE meta[slot]]
  BY PushDoes DEF b
<1>17. meta'[a % Size] = meta[a % Size]
  BY ONLY <1>13, <1>14, <1>15, <1>16
<1>18. Slot(ranges, k) = a % Size
  BY DEF Slot, a
<1> QED BY <1>17, <1>18 DEF ranges, k

(* A packet that is recorded when the sequencer knows others.              *)
LEMMA LaterPushKeeps ==
  ASSUME IInv, SInv, NEW j \in pending, push(j), sequencer.initialized
  PROVE  SInv'
<1> DEFINE n == j.first
           p == PacketOf(j)
           ranges == sequencer.snRangeMap
           h == sequencer.extHighestSN
           top == IF n > h THEN n ELSE h
<1>1. /\ p \in used /\ p.by # 0 /\ p.n = n /\ n \in Int
      /\ Positive' /\ PendingIsSent'
      /\ \A k \in pending' : n \notin k.first..k.last
      /\ \A q \in used' : q.by # 0 /\ ~IsPending(q)' => q = p \/ ~IsPending(q)
  BY PushLeavesOthers
<1>2. UNCHANGED <<kind, used>> /\ pending' = pending \ {j}
  BY PushDoes
<1>3. /\ PushedTo(j) = sequencer /\ n # h
      /\ HasValue(ranges, n) => PushedSlot(j) = n - GetValue(ranges, n) /\ PushedSlot(j) \in Int
      /\ IsStored(j) => HasValue(ranges, n)
      /\ /\ sequencer.extStartSN <= n /\ ranges[1].start <= n /\ h - n < Size
         => IsStored(j)
  BY PushFinds
<1>4. /\ h \in Int /\ sequencer \in Sequencer /\ OpenRange(ranges).start \in Int
      /\ Size \in Nat \ {0}
  BY ForwardingAssumption, SequencerFields DEF SInv, GoodSequencer
<1>5. CASE ~IsStored(j)
  <2>1. sequencer' = sequencer /\ meta' = meta
    BY <1>3, <1>5, PushDoes
  <2>2. GoodSequencer' /\ GapsArePadding' /\ SlotsAreSent'
    BY <1>2, <2>1 DEF SInv, GoodSequencer, MaybeSparse, GapsArePadding, IsPadding, SlotsAreSent
  <2>3. HighestIsRecorded'
    BY <1>2, <2>1 DEF SInv, HighestIsRecorded
  <2>4. Recorded'
    <3>1. ASSUME NEW q \in used', q.by # 0, ~IsPending(q)',
                 sequencer'.extStartSN <= q.n, sequencer'.snRangeMap[1].start <= q.n,
                 sequencer'.extHighestSN - q.n < Size
          PROVE  /\ q.n <= sequencer'.extHighestSN
                 /\ HasValue(sequencer'.snRangeMap, q.n)
                 /\ meta'[Slot(sequencer'.snRangeMap, q.n)] = Entry(q)
      <4>1. q # p
        BY <1>1, <1>3, <1>5, <2>1, <3>1
      <4> QED BY <1>1, <1>2, <2>1, <3>1, <4>1 DEF SInv, Recorded
    <3> QED BY <2>1, <3>1 DEF Recorded
  <2> QED BY <1>1, <2>2, <2>3, <2>4 DEF SInv
<1>6. CASE IsStored(j)
  <2>1. /\ sequencer' = [sequencer EXCEPT !.extHighestSN = top]
        /\ meta' = [slot \in 0..(Size - 1) |->
                      IF slot = PushedSlot(j) % Size THEN Entry(p)
                      ELSE IF slot \in Passed(j) THEN NoMeta ELSE meta[slot]]
    BY <1>3, <1>6, PushDoes
  <2>2. top \in Int /\ h <= top /\ n <= top /\ top \in {n, h}
    BY <1>1, <1>4
  <2> HIDE DEF top
  <2>3. /\ sequencer' \in Sequencer /\ sequencer'.initialized
        /\ sequencer'.extStartSN = sequencer.extStartSN /\ sequencer'.extHighestSN = top
        /\ sequencer'.snOffset = sequencer.snOffset /\ sequencer'.snRangeMap = ranges
    BY <1>4, <2>1, <2>2 DEF Sequencer
  <2>4. HasValue(ranges, n) /\ PushedSlot(j) = n - GetValue(ranges, n) /\ PushedSlot(j) \in Int
    BY <1>3, <1>6
  <2>5. GoodSequencer'
    <3>1. OpenRange(ranges).start <= h + 1
      BY DEF SInv, GoodSequencer
    <3>2. OpenRange(ranges).start <= top + 1
      BY <1>4, <2>2, <3>1
    <3> QED BY <1>2, <2>3, <3>2 DEF SInv, GoodSequencer, MaybeSparse
  <2>6. HighestIsRecorded'
    BY <1>1, <1>2, <2>2, <2>3 DEF SInv, HighestIsRecorded
  <2>7. GapsArePadding'
    BY <1>2, <2>3 DEF SInv, GapsArePadding, IsPadding
  <2>8. ASSUME NEW q \in used', q.by # 0, ~IsPending(q)',
               sequencer'.extStartSN <= q.n, sequencer'.snRangeMap[1].start <= q.n,
               sequencer'.extHighestSN - q.n < Size
        PROVE  /\ q.n <= sequencer'.extHighestSN
               /\ HasValue(sequencer'.snRangeMap, q.n)
               /\ meta'[Slot(sequencer'.snRangeMap, q.n)] = Entry(q)
    <3>1. CASE q = p
      <4>1. Slot(ranges, n) = PushedSlot(j) % Size
        BY <2>4 DEF Slot
      <4>2. PushedSlot(j) % Size \in 0..(Size - 1)
        BY <1>4, <2>4, Division
      <4>3. meta'[Slot(ranges, n)] = Entry(p)
        BY ONLY <2>1, <4>1, <4>2
      <4> QED BY <1>1, <2>2, <2>3, <2>4, <3>1, <4>3
    <3>2. CASE q # p
      <4>1. q \in used /\ ~IsPending(q) /\ q.n \in Int
        BY <1>1, <1>2, <2>8, <3>2 DEF IInv, Types
      <4>2. h - q.n < Size /\ n - q.n < Size
        BY <1>1, <1>4, <2>2, <2>3, <2>8, <4>1
      <4>3. /\ q.n <= h /\ HasValue(ranges, q.n)
            /\ meta[Slot(ranges, q.n)] = Entry(q)
        BY <2>3, <2>8, <4>1, <4>2 DEF SInv, Recorded
      <4>4. meta'[Slot(ranges, q.n)] = meta[Slot(ranges, q.n)]
        BY <1>6, <3>2, <4>1, <4>2, <4>3, OthersKeepTheirSlots
      <4> QED BY <1>4, <2>2, <2>3, <4>1, <4>3, <4>4
    <3> QED BY <3>1, <3>2
  <2>9. Recorded'
    BY <2>3, <2>8 DEF Recorded
  <2>10. SlotsAreSent'
    <3>1. \A slot \in 0..(Size - 1) : meta'[slot] \in {Entry(p), NoMeta, meta[slot]}
      BY <2>1
    <3>2. ASSUME NEW slot \in 0..(Size - 1), meta'[slot] # NoMeta
          PROVE  \E q \in used : q.by # 0 /\ q.n <= top /\ meta'[slot] = Entry(q)
      <4>1. CASE meta'[slot] = Entry(p)
        BY <1>1, <2>2, <4>1
      <4>2. CASE meta'[slot] = meta[slot]
        <5>1. PICK q \in used : q.by # 0 /\ q.n <= h /\ meta[slot] = Entry(q)
          BY <3>2, <4>2 DEF SInv, SlotsAreSent
        <5>2. q.n \in Int
          BY DEF IInv, Types
        <5> QED BY <1>4, <2>2, <4>2, <5>1, <5>2
      <4> QED BY <3>1, <3>2, <4>1, <4>2
    <3>3. DOMAIN meta' = 0..(Size - 1)
      BY <2>1
    <3> QED BY <1>2, <2>3, <3>2, <3>3 DEF SlotsAreSent
  <2> QED BY <1>1, <2>5, <2>6, <2>7, <2>9, <2>10 DEF SInv
<1> QED BY <1>5, <1>6

(* Padding that is recorded has numbers of its own.                        *)
LEMMA PushPaddingLeavesOthers ==
  ASSUME IInv, SInv, NEW j \in pending, pushPadding(j)
  PROVE  /\ j.by = 0 /\ pending' = pending \ {j} /\ UNCHANGED <<kind, used>>
         /\ MaybeSparse /\ j.first \in Int /\ j.last \in Int /\ j.first <= j.last
         /\ \A n \in j.first..j.last : 1 <= n /\ IsPadding(n)
         /\ \/ munger.extLastSN <= j.last
            \/ munger.extLastSN <= j.first + MaxOvertake
         /\ Positive' /\ PendingIsSent'
         /\ \A k \in pending' : j.last \notin k.first..k.last
         /\ \A p \in used' : p.by # 0 /\ ~IsPending(p)' => ~IsPending(p)
<1>1. /\ j.by = 0 /\ pending' = pending \ {j}
      /\ UNCHANGED <<kind, started, munger, used, reserved>>
  BY DEF pushPadding, forwarderVars, history
<1>2. /\ MaybeSparse /\ j.first <= j.last
      /\ \A n \in j.first..j.last : IsPadding(n)
      /\ \/ munger.extLastSN <= j.last
         \/ munger.extLastSN <= j.first + MaxOvertake
  BY <1>1 DEF SInv, PendingIsSent
<1>3. j.first \in Int /\ j.last \in Int
  BY DEF SInv, PendingIsSent
<1>4. \A n \in j.first..j.last : 1 <= n
  BY <1>2 DEF SInv, Positive, IsPadding
<1>5. Positive'
  BY <1>1 DEF SInv, Positive
<1>6. PendingIsSent'
  BY <1>1 DEF SInv, PendingIsSent, IsPadding, MaybeSparse
<1>7. ASSUME NEW k \in pending', j.last \in k.first..k.last PROVE FALSE
  <2>1. k \in pending /\ k # j
    BY <1>1
  <2>2. k.by # 0
    BY <1>1, <2>1 DEF SInv, PendingIsSent
  <2>3. k.last = k.first /\ PacketOf(k) \in used /\ k.first \in Int
    BY <2>1, <2>2 DEF SInv, PendingIsSent, PacketOf
  <2>4. PacketOf(k).by # 0 /\ PacketOf(k).n = k.first
    BY <2>2 DEF PacketOf
  <2>5. k.first \in j.first..j.last
    BY <1>2, <1>3, <1>7, <2>3
  <2> QED BY <1>1, <2>3, <2>4, <2>5, PacketsAreNotPadding DEF SInv
<1>8. ASSUME NEW p \in used', p.by # 0, ~IsPending(p)' PROVE ~IsPending(p)
  <2>1. p \in used /\ j.first \in j.first..j.last
    BY <1>1, <1>2, <1>3
  <2>2. p.n # j.first
    BY <1>1, <1>8, <2>1, PacketsAreNotPadding DEF SInv
  <2> QED BY <1>1, <1>8, <2>2 DEF IsPending
<1> QED BY <1>1, <1>2, <1>3, <1>4, <1>5, <1>6, <1>7, <1>8

(* Padding that was overtaken is less than the size of the sequencer       *)
(* behind: so many numbers are not given while it is recorded.             *)
LEMMA OvertakenByFew ==
  ASSUME SizeFits, IInv, SInv, NEW j \in pending, pushPadding(j),
         sequencer.initialized, j.first <= sequencer.extHighestSN
  PROVE  sequencer.extHighestSN - j.first < Size
<1> DEFINE h == sequencer.extHighestSN
           top == munger.extLastSN
<1>1. /\ j.first \in Int /\ j.last \in Int
      /\ top <= j.last \/ top <= j.first + MaxOvertake
  BY PushPaddingLeavesOthers
<1>2. PICK p \in used : p.n = h
  BY DEF SInv, HighestIsRecorded
<1>3. h \in Int /\ top \in Int /\ h <= top
  <2>1. h \in Int
    BY SequencerFields DEF SInv
  <2>2. munger \in Munger
    BY DEF IInv, Types
  <2>3. p.n <= munger.extLastSN
    BY DEF IInv, Numbered, Types
  <2> QED BY <1>2, <2>1, <2>2, <2>3, MungerFields
<1>4. h \notin j.first..j.last
  BY DEF SInv, HighestIsRecorded
<1>5. MaxOvertake < Size /\ MaxOvertake \in Nat /\ Size \in Nat
  BY ForwardingAssumption DEF SizeFits
<1> QED BY <1>1, <1>3, <1>4, <1>5

(* Padding that was overtaken: the slots it would have had are cleared,    *)
(* and they are no slots of packets that are recent.                       *)
LEMMA OvertakenPaddingKeeps ==
  ASSUME SizeFits, IInv, SInv, NEW j \in pending, pushPadding(j),
         sequencer.initialized, j.first <= sequencer.extHighestSN
  PROVE  SInv'
<1> DEFINE ranges == sequencer.snRangeMap
           h == sequencer.extHighestSN
           off == sequencer.snOffset
           lost == {n \in j.first..j.last : n < h /\ n - h >= -Size /\ IsMapped(sequencer, n)}
           cleared == {Adjusted(sequencer, e) % Size : e \in lost}
<1>1. /\ j.by = 0 /\ pending' = pending \ {j} /\ UNCHANGED <<kind, used>>
      /\ MaybeSparse /\ j.first \in Int /\ j.last \in Int
      /\ \A n \in j.first..j.last : 1 <= n /\ IsPadding(n)
      /\ Positive' /\ PendingIsSent'
      /\ \A p \in used' : p.by # 0 /\ ~IsPending(p)' => ~IsPending(p)
  BY PushPaddingLeavesOthers
<1>2. /\ meta' = [slot \in DOMAIN meta |-> IF slot \in cleared THEN NoMeta ELSE meta[slot]]
      /\ sequencer' = sequencer
  BY <1>1 DEF pushPadding
<1>3. DOMAIN meta = 0..(Size - 1) /\ Size \in Nat \ {0}
  BY ForwardingAssumption DEF SInv, SlotsAreSent
<1>4. h - j.first < Size
  BY OvertakenByFew
<1>5. /\ h \in Int /\ off \in Int /\ IsRangeMap(ranges) /\ Steady(ranges)
      /\ HighestAdjusted(sequencer) = h - off
  BY SequencerFields DEF SInv, HighestAdjusted
<1>6. ASSUME NEW q \in used, q.by # 0, q.n <= h, HasValue(ranges, q.n), h - q.n < Size
      PROVE  Slot(ranges, q.n) \in 0..(Size - 1) /\ Slot(ranges, q.n) \notin cleared
  <2> DEFINE k == q.n
             a == k - GetValue(ranges, k)
  <2>1. k \in Int
    BY DEF IInv, Types
  <2>2. a \in Int /\ a <= h - off /\ (h - off) - a <= h - k
    BY <1>5, <1>6, <2>1, UpToHighest DEF SInv
  <2>3. Slot(ranges, k) = a % Size /\ a % Size \in 0..(Size - 1)
    BY <1>3, <2>2, Division DEF Slot
  <2>4. ASSUME NEW e \in lost PROVE a % Size # Adjusted(sequencer, e) % Size
    <3> DEFINE b == e - GetValue(ranges, e)
    <3>1. e \in Int /\ j.first <= e /\ e < h /\ 1 <= e /\ IsPadding(e) /\ IsMapped(sequencer, e)
      BY <1>1
    <3>2. HasValue(ranges, e) /\ Adjusted(sequencer, e) = b
      BY <3>1, SlotOfNumber DEF SInv
    <3>3. b \in Int /\ b <= h - off /\ (h - off) - b <= h - e
      BY <1>5, <3>1, <3>2, UpToHighest DEF SInv
    <3>4. e # k
      BY <1>6, <3>1, PacketsAreNotPadding DEF SInv
    <3>5. a # b
      <4>1. CASE k < e
        <5>1. a < b
          BY <1>5, <1>6, <2>1, <3>1, <3>2, <4>1, SteadyKeys
        <5> QED BY <2>2, <3>3, <5>1
      <4>2. CASE e < k
        <5>1. b < a
          BY <1>5, <1>6, <2>1, <3>1, <3>2, <4>2, SteadyKeys
        <5> QED BY <2>2, <3>3, <5>1
      <4> QED BY <2>1, <3>1, <3>4, <4>1, <4>2
    <3>6. h - k < Size /\ h - e < Size
      BY <1>1, <1>3, <1>4, <1>5, <1>6, <3>1
    <3> HIDE DEF a, b, k, h, off, lost
    <3>7. a - b < Size /\ b - a < Size
      BY <1>3, <1>5, <2>1, <2>2, <3>1, <3>3, <3>6
    <3> QED BY <2>2, <3>2, <3>3, <3>5, <3>7, OtherSlot
  <2> HIDE DEF a, k, lost
  <2> QED BY <2>3, <2>4 DEF k
<1> HIDE DEF cleared
<1>7. GoodSequencer' /\ GapsArePadding'
  BY <1>1, <1>2 DEF SInv, GoodSequencer, MaybeSparse, GapsArePadding, IsPadding
<1>8. HighestIsRecorded'
  BY <1>1, <1>2 DEF SInv, HighestIsRecorded
<1>9. Recorded'
  <2>1. ASSUME NEW q \in used', q.by # 0, ~IsPending(q)',
               sequencer'.extStartSN <= q.n, sequencer'.snRangeMap[1].start <= q.n,
               sequencer'.extHighestSN - q.n < Size
        PROVE  /\ q.n <= sequencer'.extHighestSN
               /\ HasValue(sequencer'.snRangeMap, q.n)
               /\ meta'[Slot(sequencer'.snRangeMap, q.n)] = Entry(q)
    <3>1. /\ q \in used /\ q.n <= h /\ HasValue(ranges, q.n)
          /\ meta[Slot(ranges, q.n)] = Entry(q)
      BY <1>1, <1>2, <2>1 DEF SInv, Recorded
    <3>2. Slot(ranges, q.n) \in 0..(Size - 1) /\ Slot(ranges, q.n) \notin cleared
      BY <1>2, <1>6, <2>1, <3>1
    <3>3. meta'[Slot(ranges, q.n)] = meta[Slot(ranges, q.n)]
      BY ONLY <1>2, <1>3, <3>2
    <3> QED BY <1>2, <3>1, <3>3
  <2> QED BY <1>2, <2>1 DEF Recorded
<1>10. SlotsAreSent'
  <2>1. /\ DOMAIN meta' = 0..(Size - 1)
        /\ \A slot \in 0..(Size - 1) : meta'[slot] \in {NoMeta, meta[slot]}
    BY <1>2, <1>3
  <2> QED BY <1>1, <1>2, <2>1 DEF SInv, SlotsAreSent
<1> QED BY <1>1, <1>7, <1>8, <1>9, <1>10 DEF SInv

(* Padding after the highest number: its numbers are left out.             *)
LEMMA NewPaddingKeeps ==
  ASSUME IInv, SInv, NEW j \in pending, pushPadding(j),
         sequencer.initialized, sequencer.extHighestSN < j.first
  PROVE  SInv'
<1> DEFINE ranges == sequencer.snRangeMap
           h == sequencer.extHighestSN
           new == ExcludeRange(ranges, j.first, j.last + 1, SequencerRanges)
<1>1. /\ j.by = 0 /\ pending' = pending \ {j} /\ UNCHANGED <<kind, used>>
      /\ MaybeSparse /\ j.first \in Int /\ j.last \in Int /\ j.first <= j.last
      /\ \A n \in j.first..j.last : IsPadding(n)
      /\ Positive' /\ PendingIsSent'
      /\ \A k \in pending' : j.last \notin k.first..k.last
      /\ \A p \in used' : p.by # 0 /\ ~IsPending(p)' => ~IsPending(p)
  BY PushPaddingLeavesOthers
<1>2. /\ h \in Int /\ IsRangeMap(ranges) /\ Steady(ranges)
      /\ ranges[1].start \in Int /\ sequencer \in Sequencer
      /\ OpenRange(ranges).start \in Int /\ OpenRange(ranges).start <= h + 1
  BY SequencerFields DEF SInv, GoodSequencer
<1>3. /\ meta' = meta
      /\ sequencer' = [sequencer EXCEPT !.snRangeMap = new, !.extHighestSN = j.last,
                                        !.snOffset = GetValue(new, j.last + 1)]
  <2>1. ~(j.first <= h)
    BY <1>1, <1>2
  <2> QED BY <1>1, <2>1 DEF pushPadding
<1>4. SequencerRanges \in Nat \ {0}
  BY ForwardingAssumption DEF SequencerRanges
<1>5. /\ j.last + 1 \in Int /\ j.first < j.last + 1 /\ OpenRange(ranges).start <= j.first
      /\ j.first \in j.first..j.last /\ j.last \in j.first..j.last
  BY <1>1, <1>2
<1>6. /\ IsRangeMap(new) /\ Steady(new) /\ KeepsUpTo(ranges, new, j.first - 1)
      /\ OpenRange(new).start = j.last + 1
  BY <1>1, <1>2, <1>4, <1>5, ExcludeKeepsOthers, ExcludeSteady
<1> HIDE DEF new
<1>7. /\ GetValue(new, j.last + 1) = OpenRange(new).value /\ OpenRange(new).value \in Int
      /\ new \in Seq(Range) /\ new[1].start \in Int
  <2>1. GetValue(new, j.last + 1) = OpenRange(new).value
    BY <1>5, <1>6, OpenValue
  <2> QED BY <1>6, <2>1, OpenIsTyped, LengthIsPositive, RangesAreTyped
<1>8. /\ sequencer' \in Sequencer /\ sequencer'.initialized
      /\ sequencer'.extStartSN = sequencer.extStartSN /\ sequencer'.extHighestSN = j.last
      /\ sequencer'.snOffset = OpenRange(new).value /\ sequencer'.snRangeMap = new
  BY <1>1, <1>2, <1>3, <1>7 DEF Sequencer
<1>9. GoodSequencer'
  <2>1. OpenRange(new).start <= j.last + 1
    BY <1>5, <1>6
  <2> QED BY <1>1, <1>6, <1>8, <2>1 DEF GoodSequencer, MaybeSparse
<1>10. HighestIsRecorded'
  <2>1. IsPadding(j.last)
    BY <1>1, <1>5
  <2> QED BY <1>1, <1>8, <2>1 DEF HighestIsRecorded, IsPadding
<1>11. ranges[1].start <= new[1].start
  BY <1>6 DEF KeepsUpTo
<1>12. ASSUME NEW n \in new[1].start..OpenRange(new).start, ~HasValue(new, n)
       PROVE  IsPadding(n)
  <2>1. n \in Int /\ new[1].start <= n /\ n <= j.last + 1
    BY <1>5, <1>6, <1>7
  <2>2. n # j.last + 1
    BY <1>5, <1>6, <1>12, OpenValue
  <2>3. CASE j.first <= n
    BY <1>1, <2>1, <2>2, <2>3
  <2>4. CASE n < j.first
    <3>1. ~HasValue(ranges, n)
      BY <1>1, <1>6, <1>12, <2>1, <2>4 DEF KeepsUpTo
    <3>2. n < OpenRange(ranges).start
      BY <1>2, <2>1, <3>1, OpenValue
    <3>3. n \in ranges[1].start..OpenRange(ranges).start
      BY <1>2, <1>7, <1>11, <2>1, <3>2
    <3> QED BY <3>1, <3>3 DEF SInv, GapsArePadding
  <2> QED BY <1>1, <2>1, <2>3, <2>4
<1>13. GapsArePadding'
  BY <1>1, <1>8, <1>12 DEF GapsArePadding, IsPadding
<1>14. ASSUME NEW q \in used', q.by # 0, ~IsPending(q)',
              sequencer'.extStartSN <= q.n, sequencer'.snRangeMap[1].start <= q.n,
              sequencer'.extHighestSN - q.n < Size
       PROVE  /\ q.n <= sequencer'.extHighestSN
              /\ HasValue(sequencer'.snRangeMap, q.n)
              /\ meta'[Slot(sequencer'.snRangeMap, q.n)] = Entry(q)
  <2>1. q \in used /\ ~IsPending(q) /\ q.n \in Int /\ Size \in Nat
    BY <1>1, <1>14, ForwardingAssumption DEF IInv, Types
  <2>2. new[1].start <= q.n /\ ranges[1].start <= q.n /\ h - q.n < Size
    <3>1. new[1].start <= q.n /\ j.last - q.n < Size
      BY <1>8, <1>14
    <3>2. h < j.first /\ h \in Int /\ ranges[1].start \in Int
      BY <1>2
    <3> HIDE DEF h, ranges
    <3>3. h - q.n < Size
      BY ONLY <1>1, <2>1, <3>1, <3>2
    <3>4. ranges[1].start <= q.n
      BY ONLY <1>7, <1>11, <2>1, <3>1, <3>2
    <3> QED BY ONLY <3>1, <3>3, <3>4
  <2>3. q.n <= h /\ HasValue(ranges, q.n) /\ meta[Slot(ranges, q.n)] = Entry(q)
    BY <1>8, <1>14, <2>1, <2>2 DEF SInv, Recorded
  <2>4. q.n <= j.first - 1 /\ q.n <= j.last
    BY <1>1, <1>2, <2>1, <2>3
  <2>5. HasValue(new, q.n) /\ GetValue(new, q.n) = GetValue(ranges, q.n)
    BY <1>6, <2>1, <2>2, <2>3, <2>4 DEF KeepsUpTo
  <2>6. Slot(new, q.n) = Slot(ranges, q.n)
    BY <2>5 DEF Slot
  <2> QED BY <1>3, <1>8, <2>3, <2>4, <2>5, <2>6
<1>15. Recorded'
  BY <1>8, <1>14 DEF Recorded
<1>16. SlotsAreSent'
  <2>1. ASSUME NEW slot \in 0..(Size - 1), meta[slot] # NoMeta
        PROVE  \E q \in used : q.by # 0 /\ q.n <= j.last /\ meta[slot] = Entry(q)
    <3>1. PICK q \in used : q.by # 0 /\ q.n <= h /\ meta[slot] = Entry(q)
      BY <2>1 DEF SInv, SlotsAreSent
    <3>2. q.n \in Int
      BY DEF IInv, Types
    <3> QED BY <1>1, <1>2, <3>1, <3>2
  <2>2. DOMAIN meta = 0..(Size - 1)
    BY DEF SInv, SlotsAreSent
  <2> QED BY <1>1, <1>3, <1>8, <2>1, <2>2 DEF SlotsAreSent
<1> QED BY <1>1, <1>9, <1>10, <1>13, <1>15, <1>16 DEF SInv

(* Whatever is recorded, the invariant holds.                              *)
LEMMA RecordingKeeps ==
  ASSUME SizeFits, IInv, SInv, NEW j \in pending, push(j) \/ pushPadding(j)
  PROVE  SInv'
<1>1. CASE push(j)
  BY <1>1, FirstPushKeeps, LaterPushKeeps
<1>2. CASE pushPadding(j) /\ ~sequencer.initialized
  <2>1. UNCHANGED <<sequencer, meta>>
    BY <1>2 DEF pushPadding, sequencerVars
  <2>2. /\ pending' = pending \ {j} /\ UNCHANGED <<kind, used>>
        /\ Positive' /\ PendingIsSent'
        /\ \A p \in used' : p.by # 0 /\ ~IsPending(p)' => ~IsPending(p)
    BY <1>2, PushPaddingLeavesOthers
  <2>3. GoodSequencer' /\ GapsArePadding' /\ SlotsAreSent' /\ HighestIsRecorded'
    BY <2>1, <2>2 DEF SInv, GoodSequencer, MaybeSparse, GapsArePadding, IsPadding,
       SlotsAreSent, HighestIsRecorded
  <2>4. Recorded'
    BY <2>1, <2>2 DEF SInv, Recorded
  <2> QED BY <2>2, <2>3, <2>4 DEF SInv
<1>3. CASE pushPadding(j) /\ sequencer.initialized
  <2>1. sequencer.extHighestSN \in Int /\ j.first \in Int
    BY <1>3, SequencerFields, PushPaddingLeavesOthers DEF SInv
  <2>2. j.first <= sequencer.extHighestSN \/ sequencer.extHighestSN < j.first
    BY <2>1
  <2> QED BY <1>3, <2>2, OvertakenPaddingKeeps, NewPaddingKeeps
<1> QED BY <1>1, <1>2, <1>3

(* What a step of the forwarder is for the sequencer: numbers are given to *)
(* nobody who records them, to a packet, or to a burst of padding.         *)
GivesNumbers ==
  /\ UNCHANGED <<kind, sequencer, meta>> /\ used \subseteq used' /\ Positive'
  /\ munger'.extLastSN = munger.extLastSN \/ NotOvertaken(munger')
  /\ \/ pending' = pending /\ \A p \in used' \ used : p.by = 0
     \/ \E p \in used' \ used :
          /\ p.by # 0 /\ used' = used \cup {p}
          /\ pending' = pending \cup {Job(p.by, p.n, p.n, p.sn)}
     \/ \E first, last \in Int :
          /\ MaybeSparse /\ first <= last /\ munger'.extLastSN <= last
          /\ \A j \in pending : j.by # 0
          /\ pending' = pending \cup {Job(0, first, last, 0)}
          /\ \A p \in used' \ used : p.by = 0
          /\ \A n \in first..last : \E p \in used' \ used : p.n = n

(* New numbers do not disturb what is recorded.                            *)
LEMMA GivenKeeps ==
  ASSUME IInv, IInv', SInv, GivesNumbers
  PROVE  SInv'
<1>1. /\ UNCHANGED <<kind, sequencer, meta>> /\ used \subseteq used' /\ Positive'
      /\ munger'.extLastSN = munger.extLastSN \/ NotOvertaken(munger')
  BY DEF GivesNumbers
<1>2. /\ GoodSequencer' /\ GapsArePadding' /\ SlotsAreSent'
  BY <1>1 DEF SInv, GoodSequencer, MaybeSparse, GapsArePadding, IsPadding, SlotsAreSent
<1>3. /\ pending \subseteq [by : {0} \cup Layer, first : Int, last : Int, sn : Int]
      /\ used' \subseteq [n : Int, by : {0} \cup Layer, sn : Int]
  BY DEF SInv, PendingIsSent, IInv, Types
<1>4. ASSUME NEW j \in pending
      PROVE  /\ j.by # 0 => /\ j.last = j.first
                            /\ [n |-> j.first, by |-> j.by, sn |-> j.sn] \in used'
             /\ j.by = 0 => /\ MaybeSparse' /\ j.first <= j.last
                            /\ \A n \in j.first..j.last : IsPadding(n)'
                            /\ \/ munger'.extLastSN <= j.last
                               \/ munger'.extLastSN <= j.first + MaxOvertake
  BY <1>1 DEF SInv, PendingIsSent, MaybeSparse, IsPadding, NotOvertaken
<1>5. ASSUME NEW p \in used' \ used
      PROVE  sequencer.initialized => p.n # sequencer.extHighestSN
  BY <1>1, <1>5 DEF SInv, HighestIsRecorded, IInv, NumbersAreUnique
<1>6. CASE pending' = pending /\ \A p \in used' \ used : p.by = 0
  <2>1. PendingIsSent'
    BY <1>3, <1>4, <1>6 DEF PendingIsSent, SInv
  <2>2. HighestIsRecorded'
    BY <1>1, <1>6 DEF SInv, HighestIsRecorded
  <2>3. Recorded'
    BY <1>1, <1>6 DEF SInv, Recorded, IsPending
  <2> QED BY <1>1, <1>2, <2>1, <2>2, <2>3 DEF SInv
<1>7. ASSUME NEW p \in used' \ used, p.by # 0, used' = used \cup {p},
             pending' = pending \cup {Job(p.by, p.n, p.n, p.sn)}
      PROVE  SInv'
  <2> DEFINE new == Job(p.by, p.n, p.n, p.sn)
  <2>1. p \in [n : Int, by : {0} \cup Layer, sn : Int] /\ p \in used'
    BY <1>3
  <2>2. /\ new \in [by : {0} \cup Layer, first : Int, last : Int, sn : Int]
        /\ new.by # 0 /\ new.first = p.n /\ new.last = p.n
        /\ [n |-> new.first, by |-> new.by, sn |-> new.sn] = p
    BY <1>7, <2>1 DEF Job
  <2>3. pending' = pending \cup {new}
    BY <1>7
  <2> HIDE DEF new
  <2>4. PendingIsSent'
    <3>1. pending' \subseteq [by : {0} \cup Layer, first : Int, last : Int, sn : Int]
      BY <1>3, <2>2, <2>3
    <3>2. \A j, k \in pending' : j.by = 0 /\ k.by = 0 => j = k
      BY <2>2, <2>3 DEF SInv, PendingIsSent
    <3>3. ASSUME NEW j \in pending'
          PROVE  /\ j.by # 0 => /\ j.last = j.first
                                /\ [n |-> j.first, by |-> j.by, sn |-> j.sn] \in used'
                 /\ j.by = 0 => /\ MaybeSparse' /\ j.first <= j.last
                                /\ \A n \in j.first..j.last : IsPadding(n)'
                                /\ \/ munger'.extLastSN <= j.last
                                   \/ munger'.extLastSN <= j.first + MaxOvertake
      <4>1. CASE j \in pending
        BY <1>4, <4>1
      <4>2. CASE j = new
        BY <2>1, <2>2, <4>2
      <4> QED BY <2>3, <4>1, <4>2
    <3> QED BY <3>1, <3>2, <3>3 DEF PendingIsSent
  <2>5. HighestIsRecorded'
    <3>1. sequencer.initialized => sequencer.extHighestSN \notin new.first..new.last
      BY <1>5, <2>1, <2>2
    <3> QED BY <1>1, <2>3, <3>1 DEF SInv, HighestIsRecorded
  <2>6. Recorded'
    <3>1. ASSUME NEW q \in used', q.by # 0, ~IsPending(q)' PROVE q \in used /\ ~IsPending(q)
      BY <1>7, <2>2, <2>3, <3>1 DEF IsPending
    <3> QED BY <1>1, <3>1 DEF SInv, Recorded
  <2> QED BY <1>1, <1>2, <2>4, <2>5, <2>6 DEF SInv
<1>8. ASSUME NEW first \in Int, NEW last \in Int, MaybeSparse, first <= last,
             munger'.extLastSN <= last, \A j \in pending : j.by # 0,
             pending' = pending \cup {Job(0, first, last, 0)},
             \A p \in used' \ used : p.by = 0,
             \A n \in first..last : \E p \in used' \ used : p.n = n
      PROVE  SInv'
  <2> DEFINE new == Job(0, first, last, 0)
  <2>1. /\ new \in [by : {0} \cup Layer, first : Int, last : Int, sn : Int]
        /\ new.by = 0 /\ new.first = first /\ new.last = last
    BY DEF Job
  <2>2. pending' = pending \cup {new}
    BY <1>8
  <2> HIDE DEF new
  <2>3. PendingIsSent'
    <3>1. pending' \subseteq [by : {0} \cup Layer, first : Int, last : Int, sn : Int]
      BY <1>3, <2>1, <2>2
    <3>2. \A j, k \in pending' : j.by = 0 /\ k.by = 0 => j = k
      BY <1>8, <2>1, <2>2
    <3>3. ASSUME NEW j \in pending'
          PROVE  /\ j.by # 0 => /\ j.last = j.first
                                /\ [n |-> j.first, by |-> j.by, sn |-> j.sn] \in used'
                 /\ j.by = 0 => /\ MaybeSparse' /\ j.first <= j.last
                                /\ \A n \in j.first..j.last : IsPadding(n)'
                                /\ \/ munger'.extLastSN <= j.last
                                   \/ munger'.extLastSN <= j.first + MaxOvertake
      <4>1. CASE j \in pending
        BY <1>4, <4>1
      <4>2. CASE j = new
        <5>1. MaybeSparse'
          BY <1>1, <1>8 DEF MaybeSparse
        <5>2. \A n \in first..last : IsPadding(n)'
          BY <1>8 DEF IsPadding
        <5> QED BY <1>8, <2>1, <4>2, <5>1, <5>2
      <4> QED BY <2>2, <4>1, <4>2
    <3> QED BY <3>1, <3>2, <3>3 DEF PendingIsSent
  <2>4. HighestIsRecorded'
    <3>1. sequencer.initialized => sequencer.extHighestSN \notin new.first..new.last
      BY <1>5, <1>8, <2>1
    <3> QED BY <1>1, <2>2, <3>1 DEF SInv, HighestIsRecorded
  <2>5. Recorded'
    <3>1. ASSUME NEW q \in used', q.by # 0, ~IsPending(q)' PROVE q \in used /\ ~IsPending(q)
      BY <1>8, <2>2, <3>1 DEF IsPending
    <3> QED BY <1>1, <3>1 DEF SInv, Recorded
  <2> QED BY <1>1, <1>2, <2>3, <2>4, <2>5 DEF SInv
<1> QED BY <1>6, <1>7, <1>8 DEF GivesNumbers

(* A packet in order, sent or wasted.                                      *)
LEMMA ForwardGives ==
  ASSUME IInv, IInv', SInv, NEW l \in Layer, NEW sn \in Source,
         Forward(l, sn) \/ Waste(l, sn)
  PROVE  GivesNumbers
<1> DEFINE m == SwitchedMunger(l, sn)
           packet == [n |-> MungedSN(m, sn), by |-> l, sn |-> sn]
<1>1. /\ Translate(l, sn) /\ Arrives(l, sn) /\ m.extHighestIncomingSN < sn
      /\ munger' = Advance(m, sn) /\ NotOvertaken(munger')
      /\ reserved' = Kept(l) \cup PassedOver(m, sn)
      /\ \/ /\ used' = used \cup {packet}
            /\ pending' = pending \cup {Job(l, MungedSN(m, sn), MungedSN(m, sn), sn)}
         \/ used' = used /\ pending' = pending
  BY DEF Forward, Waste, Translate
<1>2. /\ GoodMunger(m) /\ sn \in Int /\ l # 0 /\ started' /\ 1 <= sn
      /\ started => NextSN(m) = m.extLastSN + 1
  BY <1>1, SwitchedIsReady, LayersAreNumbers, ForwardingAssumption DEF Translate, Source
<1>3. NextSN(m) \in Int /\ MungedSN(m, sn) \in Int /\ 1 <= NextSN(m)
  <2>1. NextSN(m) \in Int /\ m.extLastSN \in Int /\ MungedSN(m, sn) \in Int
    BY <1>2, MungerFields DEF GoodMunger, NextSN, MungedSN
  <2>2. CASE ~started
    <3>1. m = SetLastSnTs(sn)
      BY <1>2, <2>2 DEF SwitchedMunger, processSourceSwitch, IInv, Numbered
    <3> QED BY <1>2, <2>1, <3>1, SetLastGood
  <2>3. CASE started
    <3>1. munger \in Munger
      BY DEF IInv, Types
    <3>2. m.extLastSN = munger.extLastSN
      BY <1>2, <2>3, <3>1, SwitchGood DEF SwitchedMunger, processSourceSwitch
    <3>3. 1 <= munger.extLastSN
      BY <2>3 DEF SInv, Positive
    <3> QED BY <1>2, <2>1, <2>3, <3>2, <3>3
  <2> QED BY <2>1, <2>2, <2>3
<1> HIDE DEF m
<1>4. munger'.extLastSN = MungedSN(m, sn) /\ NextSN(m) <= MungedSN(m, sn)
  BY <1>1, <1>2, AdvanceGood
<1>5. \A r \in PassedOver(m, sn) : r.n \in Int /\ NextSN(m) <= r.n
  BY <1>1, <1>2, PassedNumbers
<1>6. packet.n = MungedSN(m, sn) /\ packet.by = l /\ packet.sn = sn
  OBVIOUS
<1> HIDE DEF packet
<1>7. 1 <= MungedSN(m, sn) /\ \A r \in PassedOver(m, sn) : 1 <= r.n
  BY <1>3, <1>4, <1>5
<1>8. Positive'
  <2>1. ASSUME NEW x \in used' \cup reserved' PROVE 1 <= x.n
    <3>1. CASE x \in used \cup reserved
      BY <3>1 DEF SInv, Positive
    <3>2. CASE x = packet \/ x \in PassedOver(m, sn)
      BY <1>6, <1>7, <3>2
    <3> QED BY <1>1, <3>1, <3>2 DEF Kept
  <2> QED BY <1>4, <1>7, <2>1 DEF Positive
<1>9. packet \notin used
  BY <1>1, <1>2, <1>6 DEF Arrives, IInv, SentArrived
<1>10. UNCHANGED <<kind, sequencer, meta>>
  BY <1>1 DEF Arrives, sequencerVars
<1>11. CASE used' = used /\ pending' = pending
  BY <1>1, <1>8, <1>10, <1>11 DEF GivesNumbers
<1>12. CASE /\ used' = used \cup {packet}
            /\ pending' = pending \cup {Job(l, MungedSN(m, sn), MungedSN(m, sn), sn)}
  <2>1. /\ packet \in used' \ used /\ packet.by # 0
        /\ pending' = pending \cup {Job(packet.by, packet.n, packet.n, packet.sn)}
    BY <1>2, <1>6, <1>9, <1>12
  <2> QED BY <1>1, <1>8, <1>10, <1>12, <2>1 DEF GivesNumbers
<1> QED BY <1>1, <1>11, <1>12

(* A late packet: its number was kept.                                     *)
LEMMA LateGives ==
  ASSUME IInv, SInv, NEW l \in Layer, NEW sn \in Source, Late(l, sn)
  PROVE  GivesNumbers
<1> DEFINE n == LateSN(munger, sn)
           packet == [n |-> n, by |-> l, sn |-> sn]
           kept == [sn |-> sn, n |-> n]
<1>1. /\ used' = used \cup {packet} /\ UNCHANGED <<munger, reserved>>
      /\ pending' = pending \cup {Job(l, n, n, sn)}
      /\ Arrives(l, sn) /\ lastSSRC = l
  BY DEF Late, Translate
<1>2. kept \in reserved /\ kept.n = n /\ sn \notin arrived[l] /\ l # 0
  BY LateIsKept, LayersAreNumbers
<1>3. packet.n = n /\ packet.by = l /\ packet.sn = sn
  OBVIOUS
<1> HIDE DEF n, packet, kept
<1>4. packet \notin used
  BY <1>2, <1>3 DEF IInv, SentArrived
<1>5. started
  BY <1>1, <1>2 DEF IInv, Numbered, Types
<1>6. Positive'
  BY <1>1, <1>2, <1>3, <1>5 DEF SInv, Positive
<1>7. UNCHANGED <<kind, sequencer, meta>>
  BY <1>1 DEF Arrives, sequencerVars
<1>8. /\ packet \in used' \ used /\ packet.by # 0
      /\ pending' = pending \cup {Job(packet.by, packet.n, packet.n, packet.sn)}
  BY <1>1, <1>2, <1>3, <1>4
<1> QED BY <1>1, <1>6, <1>7, <1>8 DEF GivesNumbers

(* A step that gives no number and keeps no new one.                       *)
LEMMA NothingIsGiven ==
  ASSUME SInv, UNCHANGED <<kind, sequencer, meta, pending, used>>,
         munger'.extLastSN = munger.extLastSN, reserved' \subseteq reserved,
         started' = started \/ 1 <= munger'.extLastSN
  PROVE  GivesNumbers
BY DEF SInv, Positive, GivesNumbers

(* A relevant packet that is not selected.                                 *)
LEMMA RejectGives ==
  ASSUME IInv, SInv, NEW l \in Layer, NEW sn \in Source, Reject(l, sn)
  PROVE  GivesNumbers
<1>1. /\ UNCHANGED <<kind, sequencer, meta, pending, used, started>>
      /\ NotOvertaken(munger') /\ sn \in Int
  BY LayersAreNumbers DEF Reject, Arrives, sequencerVars
<1>2. CASE ~(started /\ sn > munger.extHighestIncomingSN)
  <2>1. UNCHANGED <<munger, reserved>>
    BY <1>2 DEF Reject
  <2> QED BY <1>1, <2>1, NothingIsGiven
<1>3. CASE started /\ sn > munger.extHighestIncomingSN
  <2>1. /\ GoodMunger(munger) /\ munger.extHighestIncomingSN < sn
        /\ NextSN(munger) \in {munger.extLastSN, munger.extLastSN + 1}
        /\ munger.extLastSN \in Int
    BY <1>1, <1>3, MungerFields DEF IInv, Numbered, GoodMunger
  <2>2. CASE sn = munger.extHighestIncomingSN + 1
    <3>1. munger' = PacketDropped(Advance(munger, sn), sn) /\ UNCHANGED reserved
      BY <1>3, <2>2 DEF Reject
    <3>2. munger'.extLastSN = munger.extLastSN
      BY <1>1, <2>1, <2>2, <3>1, DroppedGood
    <3> QED BY <1>1, <3>1, <3>2, NothingIsGiven
  <2>3. CASE sn # munger.extHighestIncomingSN + 1
    <3>1. /\ munger' = Advance(munger, sn)
          /\ reserved' \subseteq reserved \cup PassedOver(munger, sn)
      BY <1>3, <2>3 DEF Reject
    <3>2. 1 <= NextSN(munger) /\ NextSN(munger) \in Int
      BY <1>3, <2>1 DEF SInv, Positive
    <3>3. /\ munger'.extLastSN = MungedSN(munger, sn)
          /\ NextSN(munger) <= munger'.extLastSN
      BY <1>1, <2>1, <3>1, AdvanceGood
    <3>4. MungedSN(munger, sn) \in Int
      BY <1>1, <2>1, MungerFields DEF GoodMunger, MungedSN
    <3>5. \A r \in PassedOver(munger, sn) : r.n \in Int /\ NextSN(munger) <= r.n
      BY <1>1, <2>1, PassedNumbers
    <3>6. 1 <= munger'.extLastSN /\ \A r \in PassedOver(munger, sn) : 1 <= r.n
      BY <3>2, <3>3, <3>4, <3>5
    <3>7. Positive'
      BY <1>1, <3>1, <3>6 DEF SInv, Positive
    <3> QED BY <1>1, <3>7 DEF GivesNumbers
  <2> QED BY <2>2, <2>3
<1> QED BY <1>2, <1>3

(* A burst of padding, and silence that nobody records.                    *)
LEMMA PadGives ==
  ASSUME IInv, SInv, NEW num \in 1..MaxBurst,
         WritePaddingRTP(num) \/ writeBlankFrameRTP(num)
  PROVE  GivesNumbers
<1> DEFINE m == maybeStart
           pads == {[n |-> m.extLastSN + i, by |-> 0, sn |-> bursts'] : i \in 1..num}
           first == m.extLastSN + 1
           last == munger'.extLastSN
<1>1. Pad(num)
  BY DEF WritePaddingRTP, writeBlankFrameRTP
<1>2. /\ munger' = UpdateAndGetPaddingSnTs(m, num) /\ used' = used \cup pads
      /\ NotOvertaken(munger') /\ started'
      /\ UNCHANGED <<kind, sequencer, meta, reserved>>
  BY <1>1 DEF Pad, sequencerVars
<1>3. \/ pending' = pending
      \/ /\ MaybeSparse /\ \A j \in pending : j.by # 0
         /\ pending' = pending \cup {Job(0, first, last, 0)}
  BY DEF WritePaddingRTP, writeBlankFrameRTP, MaybeSparse
<1>4. num \in Nat /\ num >= 1
  BY ForwardingAssumption
<1>5. GoodMunger(m) /\ 1 <= m.extLastSN /\ \A p \in used : p.n <= m.extLastSN
  <2>1. CASE started
    BY <2>1 DEF maybeStart, IInv, Numbered, SInv, Positive
  <2>2. CASE ~started
    <3>1. m = SetLastSnTs(DummySN) /\ DummySN \in Int /\ 1 <= DummySN
      BY <2>2, ForwardingAssumption DEF maybeStart
    <3>2. GoodMunger(m) /\ m.extLastSN = DummySN
      BY <3>1, SetLastGood
    <3> QED BY <2>2, <3>1, <3>2 DEF IInv, Numbered
  <2> QED BY <2>1, <2>2
<1>6. m.extLastSN \in Int
  BY <1>5, MungerFields DEF GoodMunger
<1> HIDE DEF m
<1>7. last = m.extLastSN + num
  BY <1>2, <1>4, <1>5, PaddingGood
<1>8. /\ first \in Int /\ last \in Int /\ first <= last /\ 1 <= last
  BY <1>4, <1>5, <1>6, <1>7
<1>9. ASSUME NEW p \in pads PROVE p.by = 0 /\ m.extLastSN < p.n /\ p.n \in Int
  <2>1. PICK i \in 1..num : p = [n |-> m.extLastSN + i, by |-> 0, sn |-> bursts']
    BY <1>9
  <2> QED BY <1>4, <1>6, <2>1
<1>10. \A n \in first..last : \E p \in pads : p.n = n
  <2>1. SUFFICES ASSUME NEW n \in first..last PROVE \E p \in pads : p.n = n
    OBVIOUS
  <2> DEFINE i == n - m.extLastSN
             p == [n |-> m.extLastSN + i, by |-> 0, sn |-> bursts']
  <2>2. i \in 1..num /\ m.extLastSN + i = n
    BY <1>4, <1>6, <1>7
  <2> HIDE DEF i
  <2>3. p \in pads /\ p.n = n
    BY <2>2
  <2> QED BY <2>3
<1> HIDE DEF pads, first, last
<1>11. pads \cap used = {}
  <2>1. SUFFICES ASSUME NEW p \in pads, p \in used PROVE FALSE
    OBVIOUS
  <2>2. m.extLastSN < p.n /\ p.n <= m.extLastSN /\ p.n \in Int
    BY <1>5, <1>9, <2>1
  <2> QED BY <1>6, <2>2
<1>12. used' \ used = pads
  BY <1>2, <1>11
<1>13. Positive'
  <2>1. \A p \in pads : 1 <= p.n
    BY <1>5, <1>6, <1>9
  <2> QED BY <1>2, <1>8, <2>1 DEF SInv, Positive, last
<1>14. munger'.extLastSN <= last
  BY <1>8 DEF last
<1>15. /\ \A p \in used' \ used : p.by = 0
       /\ \A n \in first..last : \E p \in used' \ used : p.n = n
  BY <1>9, <1>10, <1>12
<1> QED BY <1>2, <1>3, <1>8, <1>13, <1>14, <1>15 DEF GivesNumbers

(* Every step keeps the invariant.                                         *)
LEMMA NextSInv ==
  ASSUME SizeFits
  PROVE  IInv /\ IInv' /\ SInv /\ [Next]_vars => SInv'
<1> SUFFICES ASSUME IInv, IInv', SInv, [Next]_vars PROVE SInv'
  OBVIOUS
<1>1. ASSUME NEW l \in Layer, NEW sn \in Source, WriteRTP(l, sn) PROVE GivesNumbers
  <2>1. CASE Rollback(l, sn)
    BY <2>1, NothingIsGiven DEF Rollback, Arrives, sequencerVars, history
  <2>2. CASE Forward(l, sn) \/ Waste(l, sn)
    BY <2>2, ForwardGives
  <2>3. CASE Filter(l, sn) \/ Exclude(l, sn)
    <3>1. /\ Translate(l, sn) /\ Arrives(l, sn) /\ started'
          /\ UNCHANGED <<pending, used, reserved>>
      BY <2>3 DEF Filter, Exclude, Translate, history
    <3>2. started /\ munger'.extLastSN = munger.extLastSN
      BY <2>3, <3>1, SkipKeepsLast
    <3>3. 1 <= munger.extLastSN
      BY <3>2 DEF SInv, Positive
    <3> QED BY <3>1, <3>2, <3>3, NothingIsGiven DEF Arrives, sequencerVars
  <2>4. CASE Late(l, sn)
    BY <2>4, LateGives
  <2>5. CASE TooLate(l, sn)
    <3>1. /\ Arrives(l, sn) /\ lastSSRC = l /\ l # 0
          /\ UNCHANGED <<munger, pending, used, reserved>>
      BY <2>5, LayersAreNumbers DEF TooLate, Translate, history
    <3>2. 1 <= munger.extLastSN
      BY <3>1 DEF IInv, Numbered, Types, SInv, Positive
    <3> QED BY <3>1, <3>2, NothingIsGiven DEF Arrives, sequencerVars
  <2>6. CASE Reject(l, sn)
    BY <2>6, RejectGives
  <2> QED BY <1>1, <2>1, <2>2, <2>3, <2>4, <2>5, <2>6 DEF WriteRTP
<1>2. ASSUME NEW num \in 1..MaxBurst, WritePaddingRTP(num) \/ writeBlankFrameRTP(num)
      PROVE  GivesNumbers
  BY <1>2, PadGives
<1>3. CASE Stop \/ Resume \/ UNCHANGED vars
  <2>1. /\ UNCHANGED <<kind, sequencer, meta, pending, used, munger, started>>
        /\ reserved' \subseteq reserved
    BY <1>3 DEF Stop, Resume, vars, forwarderVars, sequencerVars, history
  <2> QED BY <2>1, NothingIsGiven, GivenKeeps
<1>4. ASSUME NEW j \in pending, push(j) \/ pushPadding(j) PROVE SInv'
  BY <1>4, RecordingKeeps
<1> QED BY <1>1, <1>2, <1>3, <1>4, GivenKeeps DEF Next

(* A sequencer that has recorded nothing satisfies the invariant.          *)
LEMMA InitSInv == Init => SInv
<1> SUFFICES ASSUME Init PROVE SInv
  OBVIOUS
<1> DEFINE ranges == initRanges(0, 0)
<1>1. /\ IsRangeMap(ranges) /\ OpenRange(ranges).start = 0
      /\ OpenRange(ranges).value = 0 /\ ranges[1].start = 0
      /\ Steady(ranges) /\ ranges \in Seq(Range) /\ ranges = initRanges(0, 0)
  BY FirstRange
<1>2. /\ sequencer = [initialized |-> FALSE, extStartSN |-> 0, extHighestSN |-> 0,
                      snOffset |-> 0, snRangeMap |-> ranges]
      /\ used = {} /\ reserved = {} /\ pending = {} /\ started = FALSE
      /\ meta = [slot \in 0..(Size - 1) |-> NoMeta]
  BY DEF Init, newSequencer
<1> HIDE DEF ranges
<1>3. GoodSequencer
  BY <1>1, <1>2 DEF GoodSequencer, Sequencer
<1>4. Positive /\ PendingIsSent /\ HighestIsRecorded /\ Recorded /\ SlotsAreSent
  BY <1>2 DEF Positive, PendingIsSent, HighestIsRecorded, Recorded, SlotsAreSent
<1>5. GapsArePadding
  <2>1. ASSUME NEW k \in 0..0 PROVE HasValue(ranges, k)
    BY <1>1, OpenValue
  <2> QED BY <1>1, <1>2, <2>1 DEF GapsArePadding
<1> QED BY <1>3, <1>4, <1>5 DEF SInv

(* The packet that is found is one that was sent with the number.          *)
LEMMA FoundWasSent ==
  ASSUME IInv, SInv, RingIsRecent
  PROVE  OnlySentIsServed
<1> SUFFICES ASSUME NEW sn \in 0..(Width - 1), NEW x \in getExtPacketMetas(sn)
             PROVE  x \in used
  BY DEF OnlySentIsServed
<1> DEFINE h == sequencer.extHighestSN
           wire == h % Width
           ext == sn + (h - wire) - (IF sn > wire THEN Width ELSE 0)
           slot == Adjusted(sequencer, ext) % Size
<1>1. /\ x = [n |-> ext, by |-> meta[slot].by, sn |-> meta[slot].sn]
      /\ IsMapped(sequencer, ext)
      /\ meta[slot].targetSeqNo = sn /\ meta[slot] # NoMeta
  BY DEF getExtPacketMetas
<1>2. Width \in Nat \ {0} /\ Size \in Nat \ {0} /\ h \in Int /\ wire \in Int /\ sn \in Int
  <2>1. Width \in Nat \ {0} /\ Size \in Nat \ {0} /\ h \in Int
    BY ForwardingAssumption, SequencerFields DEF SInv
  <2>2. wire \in 0..(Width - 1)
    BY <2>1, Division
  <2> QED BY <2>1, <2>2
<1>3. ext \in Int
  BY <1>2
<1>4. slot \in 0..(Size - 1)
  <2>1. Adjusted(sequencer, ext) \in Int
    <3> HIDE DEF ext
    <3>1. CASE ~MaybeSparse
      BY <1>3, <3>1 DEF Adjusted
    <3>2. CASE MaybeSparse
      <4>1. HasValue(sequencer.snRangeMap, ext)
        BY <1>1, <3>2 DEF IsMapped
      <4>2. IsRangeMap(sequencer.snRangeMap)
        BY SequencerFields DEF SInv
      <4>3. PICK i \in 1..Len(sequencer.snRangeMap) : Holds(sequencer.snRangeMap, i, ext)
        BY <4>1, <4>2, LengthIsPositive DEF HasValue
      <4>4. GetValue(sequencer.snRangeMap, ext) = sequencer.snRangeMap[i].value
        BY <1>3, <4>2, <4>3, ValueIsUnique
      <4>5. GetValue(sequencer.snRangeMap, ext) \in Int
        BY <4>2, <4>4, RangesAreTyped
      <4> QED BY <1>3, <3>2, <4>5 DEF Adjusted
    <3> QED BY <3>1, <3>2
  <2> HIDE DEF ext
  <2> QED BY <1>2, <2>1, Division
<1> HIDE DEF slot
<1>5. PICK p \in used : p.by # 0 /\ p.n <= h /\ meta[slot] = Entry(p)
  BY <1>1, <1>4 DEF SInv, SlotsAreSent
<1>6. p \in [n : Int, by : {0} \cup Layer, sn : Int]
  BY DEF IInv, Types
<1>7. h - p.n < Width
  BY <1>4, <1>5 DEF RingIsRecent, Entry
<1>8. /\ meta[slot].by = p.by /\ meta[slot].sn = p.sn
      /\ meta[slot].targetSeqNo = p.n % Width
  BY <1>5 DEF Entry
<1>9. sn = p.n % Width
  BY <1>1, <1>8
<1>10. (p.n % Width) + (h - (h % Width)) - (IF p.n % Width > h % Width THEN Width ELSE 0) = p.n
  <2>1. p.n \in Int
    BY <1>6
  <2> QED BY <1>2, <1>5, <1>7, <2>1, NumberIsFound
<1>11. ext = p.n
  BY ONLY <1>9, <1>10
<1> HIDE DEF ext
<1> QED BY <1>1, <1>6, <1>8, <1>11

(* A packet that is recorded and recent is found.                          *)
LEMMA RecentIsFound ==
  ASSUME SizeFits, IInv, SInv
  PROVE  RecentIsServed
<1> SUFFICES ASSUME NEW p \in used, p.by # 0, \A j \in pending : j.first # p.n,
                    sequencer.extStartSN <= p.n,
                    sequencer.snRangeMap[1].start <= p.n,
                    sequencer.extHighestSN - p.n < Size
             PROVE  p \in getExtPacketMetas(p.n % Width)
  BY DEF RecentIsServed
<1> DEFINE h == sequencer.extHighestSN
           k == p.n
           sn == k % Width
           wire == h % Width
           ext == sn + (h - wire) - (IF sn > wire THEN Width ELSE 0)
           ranges == sequencer.snRangeMap
           a == k - GetValue(ranges, k)
<1>1. /\ sequencer.initialized /\ k <= h /\ HasValue(ranges, k)
      /\ meta[Slot(ranges, k)] = Entry(p)
  BY DEF SInv, Recorded, IsPending
<1>2. p \in [n : Int, by : {0} \cup Layer, sn : Int] /\ k \in Int /\ 1 <= k
  BY DEF IInv, Types, SInv, Positive
<1>3. /\ Width \in Nat \ {0} /\ Size \in Nat \ {0} /\ 2 * Size <= Width /\ h \in Int
  BY ForwardingAssumption, SequencerFields DEF SInv, SizeFits
<1>4. IsMapped(sequencer, k) /\ Adjusted(sequencer, k) = a
  BY <1>1, <1>2, SlotOfNumber DEF SInv
<1>5. /\ a \in Int /\ a <= HighestAdjusted(sequencer)
      /\ HighestAdjusted(sequencer) - a <= h - k
  BY <1>1, <1>2, UpToHighest DEF SInv
<1>6. h - k < Size
  OBVIOUS
<1> HIDE DEF h, k, a
<1>7. ext = k /\ (wire - sn) % Width = h - k
  <2>1. h - k < Width
    BY ONLY <1>2, <1>3, <1>6
  <2>2. k <= h
    BY <1>1
  <2>3. k \in Int /\ h \in Int
    BY <1>2, <1>3
  <2> QED BY ONLY <1>3, <2>1, <2>2, <2>3, NumberIsFound
<1>8. h - k <= Width \div 2
  BY ONLY <1>2, <1>3, <1>6
<1>9. HighestAdjusted(sequencer) - a \in 0..(Size - 1)
  <2>1. HighestAdjusted(sequencer) \in Int
    BY SequencerFields DEF SInv, HighestAdjusted
  <2> QED BY ONLY <1>2, <1>3, <1>5, <1>6, <2>1
<1>10. Slot(ranges, k) = a % Size
  BY DEF Slot, a
<1>11. /\ Entry(p).targetSeqNo = sn /\ Entry(p) # NoMeta
       /\ Entry(p).by = p.by /\ Entry(p).sn = p.sn
  <2>1. Entry(p).by # NoMeta.by
    BY DEF Entry, NoMeta
  <2> QED BY <2>1 DEF Entry, k
<1>12. p = [n |-> k, by |-> p.by, sn |-> p.sn]
  BY <1>2 DEF k
<1> HIDE DEF ext, sn, wire
<1>13. LET slot == meta[Adjusted(sequencer, ext) % Size]
           behind == HighestAdjusted(sequencer) - Adjusted(sequencer, ext)
       IN  /\ (wire - sn) % Width <= Width \div 2
           /\ IsMapped(sequencer, ext) /\ behind \in 0..(Size - 1)
           /\ slot.targetSeqNo = sn /\ slot # NoMeta
           /\ p = [n |-> ext, by |-> slot.by, sn |-> slot.sn]
  BY <1>1, <1>4, <1>7, <1>8, <1>9, <1>10, <1>11, <1>12
<1>14. p \in getExtPacketMetas(sn)
  BY <1>1, <1>13 DEF getExtPacketMetas, ext, wire, h
<1> QED BY <1>14 DEF sn, k

(* The condition holds while fewer numbers were sent than there are on the *)
(* wire.                                                                   *)
LEMMA FirstTurnIsRecent ==
  ASSUME IInv, SInv, \A p, q \in used : p.n - q.n < Width
  PROVE  RingIsRecent
<1> SUFFICES ASSUME NEW slot \in 0..(Size - 1), NEW p \in used, p.by # 0,
                    meta[slot] = Entry(p)
             PROVE  sequencer.extHighestSN - p.n < Width
  BY DEF RingIsRecent, Entry
<1>1. meta[slot] # NoMeta
  <2>1. Entry(p).by # NoMeta.by
    BY DEF Entry, NoMeta
  <2> QED BY <2>1
<1>2. sequencer.initialized
  BY <1>1 DEF SInv, SlotsAreSent
<1> QED BY <1>2 DEF SInv, HighestIsRecorded

(* For any number of packets, bursts of padding and stops, and whoever     *)
(* records first what was sent first or last: a packet that is recorded,   *)
(* recent and not before the first one is found by getExtPacketMetas when  *)
(* a NACK asks for its number; and what is sent again is what had that     *)
(* number, as long as the sequencer holds nothing that is a whole turn of  *)
(* the numbers on the wire behind, as in the first turn.                   *)
THEOREM NacksFindTheirPacket ==
  ASSUME SizeFits
  PROVE  Spec => [](/\ RecentIsServed
                    /\ RingIsRecent => NacksAreServed
                    /\ (\A p, q \in used : p.n - q.n < Width) => NacksAreServed)
<1>1. IInv /\ IInv' /\ SInv /\ [Next]_vars => SInv'
  BY NextSInv
<1>2. IInv /\ SInv => RecentIsServed
  BY RecentIsFound
<1>3. IInv /\ SInv /\ RingIsRecent => NacksAreServed
  BY RecentIsFound, FoundWasSent DEF NacksAreServed
<1>4. IInv /\ SInv /\ (\A p, q \in used : p.n - q.n < Width) => RingIsRecent
  BY FirstTurnIsRecent
<1>5. IInv /\ SInv => (/\ RecentIsServed
                       /\ RingIsRecent => NacksAreServed
                       /\ (\A p, q \in used : p.n - q.n < Width) => NacksAreServed)
  BY <1>2, <1>3, <1>4
<1> QED BY <1>1, <1>5, InitSInv, IInvHolds, PTL DEF Spec

=============================================================================
