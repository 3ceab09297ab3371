----------------------------- MODULE RangeMap ------------------------------
(***************************************************************************)
(* RangeMap (pkg/sfu/utils/rangemap.go): values of ranges of keys.  Closed *)
(* ranges come first, in order, and the last range is open; keys between   *)
(* two ranges are excluded.  Keys are 64 bits wide and never get near half *)
(* of that, so that the code's modular comparisons are plain ones; values  *)
(* are offsets, which the code keeps modulo 2^64 and may be negative here. *)
(* A map is the sequence of its ranges.                                    *)
(***************************************************************************)
EXTENDS Integers, Sequences

Range == [start : Int, end : Int, value : Int]

(* initRanges, ClearAndResetValue: one open range.                         *)
initRanges(start, val) == <<[start |-> start, end |-> 0, value |-> val]>>

OpenRange(ranges) == ranges[Len(ranges)]
WithOpenRange(ranges, lr) == [ranges EXCEPT ![Len(ranges)] = lr]

(* prune: the open range and the last "size" closed ones stay.             *)
prune(ranges, size) ==
  IF Len(ranges) > size + 1
    THEN SubSeq(ranges, Len(ranges) - size, Len(ranges))
    ELSE ranges

(* The open range ends, and another begins.                                *)
CloseOpenRange(ranges, end, start, value, size) ==
  prune(Append(WithOpenRange(ranges, [OpenRange(ranges) EXCEPT !.end = end]),
               [start |-> start, end |-> 0, value |-> value]), size)

(* Mutant: the keys of the open range before "end" get it too.             *)
DecValueInPlace(ranges, end, dec, size) ==
  WithOpenRange(ranges, [OpenRange(ranges) EXCEPT !.value = @ - dec])

(* DecValue: keys after "end" get a smaller value.                         *)
DecValue(ranges, end, dec, size) ==
  LET lr == OpenRange(ranges)
  IN  IF lr.start > end
        THEN WithOpenRange(ranges, [lr EXCEPT !.value = @ - dec])
        ELSE CloseOpenRange(ranges, end, end + 1, lr.value - dec, size)

(* ExcludeRange: an error, which callers log, leaves the map alone.        *)
ExcludeRange(ranges, startInclusive, endExclusive, size) ==
  LET lr == OpenRange(ranges)
      newValue == lr.value + (endExclusive - startInclusive)
  IN  CASE endExclusive <= startInclusive \/ lr.start > startInclusive -> ranges
        [] lr.start = startInclusive ->
             WithOpenRange(ranges, [start |-> endExclusive, end |-> lr.end,
                                    value |-> newValue])
        [] OTHER -> CloseOpenRange(ranges, startInclusive - 1, endExclusive,
                                   newValue, size)

(* GetValue: no range holds a key that is too old or excluded.             *)
Holds(ranges, i, key) ==
  ranges[i].start <= key /\ (i = Len(ranges) \/ key <= ranges[i].end)
HasValue(ranges, key) == \E i \in DOMAIN ranges : Holds(ranges, i, key)
GetValue(ranges, key) ==
  ranges[CHOOSE i \in DOMAIN ranges : Holds(ranges, i, key)].value
=============================================================================
