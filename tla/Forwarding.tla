---------------------------- MODULE Forwarding -----------------------------
(***************************************************************************)
(* The sequence numbers of a DownTrack (pkg/sfu/downtrack.go): Forwarder   *)
(* (forwarder.go) and RTPMunger (rtpmunger.go) give each packet that is    *)
(* forwarded, and each padding packet, its outgoing number; the sequencer  *)
(* (sequencer.go) remembers which packet has which number, for NACKs.      *)
(*                                                                         *)
(* Packets of each layer are forwarded by a goroutine of their own         *)
(* (receiver_base.go), padding by another.  Numbers are given under the    *)
(* forwarder's lock and recorded later, under the sequencer's.             *)
(*                                                                         *)
(* A packet is its layer and its extended sequence number there; the       *)
(* buffer in front does not hand out duplicates.  What the selectors and   *)
(* codec mungers decide about a packet is left open as far as they may     *)
(* decide it; timestamps, markers, retransmission limits and the state     *)
(* that a migrated track starts with are left out.  The first packet of a  *)
(* stream has a payload.                                                   *)
(***************************************************************************)
EXTENDS RangeMap, FiniteSets

CONSTANTS
  Kinds,        (* Of "audio", "simulcast", "svc" (dependency descriptor)  *)
                (* and "vp9": what the track carries.                      *)
  Width,        (* 2^16: numbers on the wire are modulo this.              *)
  Size,         (* Packets that the sequencer remembers.                   *)
  MungerRanges, (* Closed ranges that the munger remembers.                *)
  FirstSN,      (* The first sequence number of a layer.                   *)
  DummySN,      (* Where padding starts that precedes the first packet.    *)
  MaxSN,        (* Bound: sequence numbers of a layer,                     *)
  MaxPackets,   (* and packets that come, of all layers.                   *)
  MaxBursts,    (* Bound: bursts of padding,                               *)
  MaxBurst,     (* and packets in one.                                     *)
  MaxStops,     (* Bound: times forwarding stops.                          *)
  MaxOvertake   (* Bound: numbers given while a goroutine is between its   *)
                (* two steps.                                              *)

ASSUME ForwardingAssumption ==
  /\ Kinds \subseteq {"audio", "simulcast", "svc", "vp9"}
  /\ Width \in Nat \ {0} /\ Size \in Nat \ {0} /\ MungerRanges \in Nat \ {0}
  /\ FirstSN \in Nat \ {0} /\ DummySN \in Nat \ {0}
  /\ MaxSN \in Nat /\ MaxPackets \in Nat /\ MaxBursts \in Nat /\ MaxBurst \in Nat
  /\ MaxStops \in Nat /\ MaxOvertake \in Nat

Layer == {1, 2}
Source == FirstSN..MaxSN

VARIABLES
  kind,
  arrived,    (* the sequence numbers that came, by layer                  *)
  (* Forwarder.                                                            *)
  stopped,    (* muted, or paused by the stream allocator                  *)
  current,    (* the selector's current layer, or 0                        *)
  lastSSRC,   (* the layer forwarded last, or 0                            *)
  started, munger,
  (* DownTrack: who has a number and has not recorded it yet.              *)
  pending,
  (* The sequencer.                                                        *)
  sequencer, meta,
  (* History.                                                              *)
  used,       (* numbers sent, with the packet                             *)
  reserved,   (* numbers kept for packets that are missing from the source *)
  holes,      (* other numbers that were given up                          *)
  bursts, stops

forwarderVars == <<current, lastSSRC, started, munger>>
sequencerVars == <<sequencer, meta>>
history == <<used, reserved, holes>>
vars == <<kind, arrived, stopped, forwarderVars, pending, sequencerVars,
          history, bursts, stops>>

Munger ==
  [extHighestIncomingSN : Int, snRangeMap : Seq(Range), extLastSN : Int,
   extSecondLastSN : Int, snOffset : Int]

-----------------------------------------------------------------------------
(* RTPMunger.                                                              *)

NewRTPMunger ==
  [extHighestIncomingSN |-> 0, snRangeMap |-> initRanges(0, 0),
   extLastSN |-> 0, extSecondLastSN |-> 0, snOffset |-> 0]

(* updateSnOffset.                                                         *)
WithOffset(m) ==
  [m EXCEPT !.snOffset =
     IF HasValue(m.snRangeMap, m.extHighestIncomingSN + 1)
       THEN GetValue(m.snRangeMap, m.extHighestIncomingSN + 1)
       ELSE 0]

SetLastSnTs(sn) ==
  WithOffset([extHighestIncomingSN |-> sn - 1, snRangeMap |-> initRanges(sn, 0),
              extLastSN |-> sn, extSecondLastSN |-> sn - 1, snOffset |-> 0])

UpdateSnTsOffsets(m, sn, snAdjust) ==
  WithOffset([m EXCEPT
    !.extHighestIncomingSN = sn - 1,
    !.snRangeMap = initRanges(sn, sn - m.extLastSN - snAdjust)])

(* The packet is not sent, so that its range and its number are free.      *)
Excluded(m, sn) ==
  WithOffset([m EXCEPT
    !.extHighestIncomingSN = sn,
    !.snRangeMap = ExcludeRange(m.snRangeMap, sn, sn + 1, MungerRanges)])

(* Mutant: the number that the packet got stays taken.                     *)
PacketDroppedKeepsNumber(m, sn) ==
  IF m.extHighestIncomingSN # sn THEN m ELSE Excluded(m, sn)

PacketDropped(m, sn) ==
  IF m.extHighestIncomingSN # sn THEN m
  ELSE [Excluded(m, sn) EXCEPT !.extLastSN = m.extSecondLastSN]

(* UpdateAndGetSnTs of a packet in order, with the number it gets.         *)
MungedSN(m, sn) == sn - m.snOffset
Advance(m, sn) ==
  [m EXCEPT !.extHighestIncomingSN = sn,
            !.extSecondLastSN = m.extLastSN,
            !.extLastSN = MungedSN(m, sn)]

(* UpdateAndGetSnTs of a late packet.                                      *)
LateSN(m, sn) == sn - GetValue(m.snRangeMap, sn)
IsFound(m, sn) == HasValue(m.snRangeMap, sn) /\ LateSN(m, sn) < m.extLastSN

(* Mutant: the packets that follow are not moved.                          *)
UpdateAndGetPaddingSnTsUnmoved(m, num) ==
  [m EXCEPT !.extSecondLastSN = m.extLastSN + num - 1,
            !.extLastSN = m.extLastSN + num]

UpdateAndGetPaddingSnTs(m, num) ==
  WithOffset([m EXCEPT
    !.extSecondLastSN = m.extLastSN + num - 1,
    !.extLastSN = m.extLastSN + num,
    !.snRangeMap = DecValue(m.snRangeMap, m.extHighestIncomingSN, num,
                            MungerRanges)])

-----------------------------------------------------------------------------
(* Forwarder and DownTrack: packets.                                       *)

Job(by, first, last, sn) == [by |-> by, first |-> first, last |-> last, sn |-> sn]
NotOvertaken(m) == \A j \in pending : m.extLastSN <= j.first + MaxOvertake

(* The goroutine of the layer has the next packet.  One that finds the     *)
(* forwarder stopped, or is neither selected nor relevant, changes nothing *)
(* and is here like one that is lost.                                      *)
Arrives(l, sn) ==
  /\ l = 1 \/ kind = "simulcast"
  /\ \A j \in pending : j.by # l
  /\ sn \notin arrived[l]
  /\ Cardinality(arrived[1]) + Cardinality(arrived[2]) < MaxPackets
  /\ arrived' = [arrived EXCEPT ![l] = @ \cup {sn}]
  /\ UNCHANGED <<kind, stopped, sequencerVars, bursts, stops>>
InOrder(l, sn) == \A k \in arrived[l] : k < sn

(* Select: a layer is switched to, or forwarding resumes, at a key frame.  *)
(* In VP9 (videolayerselector/vp9.go) the packet that resumes is not       *)
(* selected itself.                                                        *)
Selects(l) == ~stopped /\ (kind = "vp9" => current = l)

(* processSourceSwitch may refuse, and Rollback undoes the selection; but  *)
(* for VP9, whose selection came with an earlier packet, nothing changes.  *)
Rollback(l, sn) ==
  /\ Arrives(l, sn) /\ kind = "vp9" /\ Selects(l) /\ lastSSRC # l
  /\ ~started => ~InOrder(l, sn)
  /\ current' = 0
  /\ UNCHANGED <<lastSSRC, started, munger, pending, history>>

processSourceSwitch(sn) ==
  IF started THEN UpdateSnTsOffsets(munger, sn, 1) ELSE SetLastSnTs(sn)

(* The munger that translates a selected packet, and the reservations that *)
(* still matter.                                                           *)
SwitchedMunger(l, sn) ==
  IF lastSSRC = l THEN munger ELSE processSourceSwitch(sn)
Kept(l) == IF lastSSRC = l THEN reserved ELSE {}
Forgotten(l) == {r.n : r \in reserved \ Kept(l)}

Translate(l, sn) ==
  /\ Arrives(l, sn) /\ Selects(l)
  /\ ~started => InOrder(l, sn)
  /\ current' = l /\ lastSSRC' = l /\ started' = TRUE

PassedOver(m, sn) ==
  {[sn |-> k, n |-> MungedSN(m, k)] : k \in (m.extHighestIncomingSN + 1)..(sn - 1)}

(* WriteRTP of a packet in order: it is forwarded.                         *)
Forward(l, sn) ==
  LET m == SwitchedMunger(l, sn)
  IN  /\ Translate(l, sn)
      /\ sn > m.extHighestIncomingSN
      /\ munger' = Advance(m, sn)
      /\ NotOvertaken(munger')
      /\ pending' = pending \cup {Job(l, MungedSN(m, sn), MungedSN(m, sn), sn)}
      /\ used' = used \cup {[n |-> MungedSN(m, sn), by |-> l, sn |-> sn]}
      /\ reserved' = Kept(l) \cup PassedOver(m, sn)
      /\ holes' = holes \cup Forgotten(l)

(* It is translated and then not sent (FlagPauseOnDowngrade, or a payload  *)
(* that overflows the packet).                                             *)
Waste(l, sn) ==
  LET m == SwitchedMunger(l, sn)
  IN  /\ Translate(l, sn)
      /\ sn > m.extHighestIncomingSN
      /\ munger' = Advance(m, sn)
      /\ NotOvertaken(munger')
      /\ reserved' = Kept(l) \cup PassedOver(m, sn)
      /\ holes' = holes \cup Forgotten(l) \cup {MungedSN(m, sn)}
      /\ UNCHANGED <<pending, used>>

(* It follows on the one before and is filtered out by its temporal layer. *)
Filter(l, sn) ==
  /\ Translate(l, sn) /\ kind = "simulcast" /\ lastSSRC = l
  /\ sn = munger.extHighestIncomingSN + 1
  /\ munger' = PacketDropped(Advance(munger, sn), sn)
  /\ UNCHANGED <<pending, history>>

(* It follows on the one before and has no payload.                        *)
Exclude(l, sn) ==
  LET m == SwitchedMunger(l, sn)
  IN  /\ Translate(l, sn) /\ kind # "vp9"
      /\ lastSSRC = l \/ (kind = "audio" /\ started)
      /\ sn = m.extHighestIncomingSN + 1
      /\ munger' = Excluded(m, sn)
      /\ UNCHANGED <<pending, history>>

(* WriteRTP of a late packet: it is sent with the number kept for it.      *)
Late(l, sn) ==
  /\ Translate(l, sn) /\ lastSSRC = l
  /\ sn < munger.extHighestIncomingSN
  /\ IsFound(munger, sn)
  /\ pending' = pending \cup {Job(l, LateSN(munger, sn), LateSN(munger, sn), sn)}
  /\ used' = used \cup {[n |-> LateSN(munger, sn), by |-> l, sn |-> sn]}
  /\ UNCHANGED <<munger, reserved, holes>>

(* It is too old, or the codec munger does not know its picture.           *)
TooLate(l, sn) ==
  /\ Translate(l, sn) /\ lastSSRC = l
  /\ sn < munger.extHighestIncomingSN
  /\ kind = "audio" => ~IsFound(munger, sn)
  /\ UNCHANGED <<munger, pending, history>>

(* Select rejects a packet that is relevant: the munger is told.           *)
Reject(l, sn) ==
  /\ Arrives(l, sn) /\ ~stopped /\ kind \in {"svc", "vp9"}
  /\ current = l \/ kind = "vp9"
  /\ current' = l
  /\ IF started /\ sn > munger.extHighestIncomingSN
       THEN IF sn = munger.extHighestIncomingSN + 1
              THEN /\ munger' = PacketDropped(Advance(munger, sn), sn)
                   /\ UNCHANGED <<reserved, holes>>
              ELSE LET passed == PassedOver(munger, sn)
                   IN  /\ munger' = Advance(munger, sn)
                       /\ reserved' = reserved \cup
                                        (IF lastSSRC = l THEN passed ELSE {})
                       /\ holes' = holes \cup {MungedSN(munger, sn)} \cup
                                    (IF lastSSRC = l THEN {} ELSE {r.n : r \in passed})
       ELSE UNCHANGED <<munger, reserved, holes>>
  /\ NotOvertaken(munger')
  /\ UNCHANGED <<lastSSRC, started, pending, used>>

-----------------------------------------------------------------------------
(* Padding, and what stops forwarding.                                     *)

maybeStart == IF started THEN munger ELSE SetLastSnTs(DummySN)

(* GetSnTsForPadding, GetSnTsForBlankFrames.  Padding that is refused      *)
(* because the last packet ends no frame changes nothing.                  *)
Pad(num) ==
  LET m == maybeStart
  IN  /\ bursts < MaxBursts /\ bursts' = bursts + 1
      /\ started' = TRUE
      /\ munger' = UpdateAndGetPaddingSnTs(m, num)
      /\ NotOvertaken(munger')
      /\ used' = used \cup {[n |-> m.extLastSN + i, by |-> 0, sn |-> bursts'] :
                              i \in 1..num}
      /\ UNCHANGED <<kind, arrived, stopped, current, lastSSRC, sequencerVars,
                     reserved, holes, stops>>

(* WritePaddingRTP: to probe, or to start a track that is muted.           *)
WritePaddingRTP(num) ==
  /\ kind # "audio" /\ \A j \in pending : j.by # 0
  /\ Pad(num)
  /\ pending' = pending \cup {Job(0, maybeStart.extLastSN + 1,
                                  munger'.extLastSN, 0)}

(* Silence after a mute, which may still come when forwarding resumes, or  *)
(* to start a track that is muted; the sequencer does not hear of it.      *)
writeBlankFrameRTP(num) ==
  /\ kind = "audio"
  /\ Pad(num)
  /\ UNCHANGED pending

(* Mute, PubMute, a pause by the stream allocator, with resyncLocked.      *)
Stop ==
  /\ ~stopped /\ stops < MaxStops /\ stops' = stops + 1
  /\ stopped' = TRUE /\ current' = 0 /\ lastSSRC' = 0
  /\ reserved' = {} /\ holes' = holes \cup {r.n : r \in reserved}
  /\ UNCHANGED <<kind, arrived, started, munger, pending, sequencerVars, used,
                 bursts>>

Resume ==
  /\ stopped /\ stopped' = FALSE
  /\ UNCHANGED <<kind, arrived, forwarderVars, pending, sequencerVars, history,
                 bursts, stops>>

-----------------------------------------------------------------------------
(* The sequencer.                                                          *)

NoMeta == [by |-> 0, sn |-> 0, targetSeqNo |-> 0]
newSequencer ==
  [initialized |-> FALSE, extStartSN |-> 0, extHighestSN |-> 0, snOffset |-> 0,
   snRangeMap |-> initRanges(0, 0)]

(* Only video may have padding, and a map of the ranges it leaves out.     *)
MaybeSparse == kind # "audio"
SequencerRanges == (Size + 1) \div 2

(* The slot of a number, once padding is left out, and the highest one.    *)
IsMapped(s, n) == MaybeSparse => HasValue(s.snRangeMap, n)
(* Mutant: a late packet is taken for one after all padding.               *)
AdjustedToNow(s, n) == n - s.snOffset
Adjusted(s, n) == IF MaybeSparse THEN n - GetValue(s.snRangeMap, n) ELSE n
HighestAdjusted(s) == s.extHighestSN - s.snOffset

Initialized(s, n) ==
  IF s.initialized THEN s
  ELSE [s EXCEPT !.initialized = TRUE, !.extStartSN = n, !.extHighestSN = n]

push(j) ==
  LET n == j.first
      s == Initialized(sequencer, n)
      adjusted == IF n < s.extHighestSN THEN Adjusted(s, n) ELSE n - s.snOffset
      IsStored == /\ n >= s.extStartSN
                  /\ n < s.extHighestSN => IsMapped(s, n)
                  /\ adjusted - HighestAdjusted(s) > -Size
      PassedSlots == {e % Size : e \in (HighestAdjusted(s) + 1)..(adjusted - 1)}
  IN  /\ j.by # 0 /\ pending' = pending \ {j}
      /\ IF IsStored
           THEN /\ sequencer' = [s EXCEPT !.extHighestSN =
                                  IF n > s.extHighestSN THEN n ELSE s.extHighestSN]
                /\ meta' = [slot \in 0..(Size - 1) |->
                     IF slot = adjusted % Size
                       THEN [by |-> j.by, sn |-> j.sn, targetSeqNo |-> n % Width]
                       ELSE IF slot \in PassedSlots THEN NoMeta ELSE meta[slot]]
           ELSE sequencer' = s /\ UNCHANGED meta
      /\ UNCHANGED <<kind, arrived, stopped, forwarderVars, history, bursts, stops>>

pushPadding(j) ==
  LET s == sequencer
      ranges == ExcludeRange(s.snRangeMap, j.first, j.last + 1, SequencerRanges)
      Invalidated ==
        {Adjusted(s, e) % Size :
           e \in {n \in j.first..j.last : /\ n < s.extHighestSN
                                          /\ n - s.extHighestSN >= -Size
                                          /\ IsMapped(s, n)}}
  IN  /\ j.by = 0 /\ pending' = pending \ {j}
      /\ CASE ~MaybeSparse \/ ~s.initialized -> UNCHANGED sequencerVars
           [] MaybeSparse /\ s.initialized /\ j.first <= s.extHighestSN ->
                /\ meta' = [slot \in DOMAIN meta |->
                              IF slot \in Invalidated THEN NoMeta ELSE meta[slot]]
                /\ UNCHANGED sequencer
           [] OTHER ->
                /\ sequencer' = [s EXCEPT !.snRangeMap = ranges,
                                          !.extHighestSN = j.last,
                                          !.snOffset = GetValue(ranges, j.last + 1)]
                /\ UNCHANGED meta
      /\ UNCHANGED <<kind, arrived, stopped, forwarderVars, history, bursts, stops>>

(* getExtPacketMetas: the packet sent again when "sn" is asked for.        *)
getExtPacketMetas(sn) ==
  LET s == sequencer
      highestSN == s.extHighestSN % Width
      extSN == sn + (s.extHighestSN - highestSN)
                 - (IF sn > highestSN THEN Width ELSE 0)
      slot == meta[Adjusted(s, extSN) % Size]
      behind == HighestAdjusted(s) - Adjusted(s, extSN)
  IN  IF /\ s.initialized
         /\ (highestSN - sn) % Width <= Width \div 2
         /\ IsMapped(s, extSN)
         /\ behind \in 0..(Size - 1)
         /\ slot.targetSeqNo = sn /\ slot # NoMeta
        THEN {[n |-> extSN, by |-> slot.by, sn |-> slot.sn]}
        ELSE {}

-----------------------------------------------------------------------------
Init ==
  /\ kind \in Kinds /\ arrived = [l \in Layer |-> {}]
  /\ stopped = FALSE /\ current = 0 /\ lastSSRC = 0
  /\ started = FALSE /\ munger = NewRTPMunger
  /\ pending = {}
  /\ sequencer = newSequencer /\ meta = [slot \in 0..(Size - 1) |-> NoMeta]
  /\ used = {} /\ reserved = {} /\ holes = {}
  /\ bursts = 0 /\ stops = 0

WriteRTP(l, sn) ==
  \/ Rollback(l, sn) \/ Forward(l, sn) \/ Waste(l, sn)
  \/ Filter(l, sn) \/ Exclude(l, sn) \/ Late(l, sn) \/ TooLate(l, sn)
  \/ Reject(l, sn)

Next ==
  \/ \E l \in Layer, sn \in Source : WriteRTP(l, sn)
  \/ \E num \in 1..MaxBurst : WritePaddingRTP(num) \/ writeBlankFrameRTP(num)
  \/ Stop \/ Resume
  \/ \E j \in pending : push(j) \/ pushPadding(j)

Spec == Init /\ [][Next]_vars

-----------------------------------------------------------------------------
(* No two packets are sent with one number, neither of two layers nor of a *)
(* layer and padding, however they were dropped, filtered, late or padded. *)
NumbersAreUnique == \A p, q \in used : p.n = q.n => p = q

(* Every number since the first one was sent, or stands for a packet that  *)
(* is missing from the source or was given up: what is filtered out leaves *)
(* no hole ("update sequence number offset to prevent holes").             *)
NoHoles ==
  \A p \in used : \A n \in p.n..munger.extLastSN :
    n \in {q.n : q \in used \cup reserved} \cup holes

(* A packet that is missing gets, when it comes late, the number that was  *)
(* kept for it when it was passed over, as long as its range is remembered:*)
(* the translation of a late packet never fails its last check ("should    *)
(* not happen, just being paranoid").                                      *)
LatePacketsFit ==
  lastSSRC # 0 =>
    \A sn \in Source \ arrived[lastSSRC] :
      /\ munger.snRangeMap[1].start <= sn
      /\ sn < munger.extHighestIncomingSN
      => /\ IsFound(munger, sn)
         /\ [sn |-> sn, n |-> LateSN(munger, sn)] \in reserved

(* What is sent again for a NACK is a packet that had the number, never    *)
(* padding.                                                                *)
OnlySentIsServed ==
  \A sn \in 0..(Width - 1) : getExtPacketMetas(sn) \subseteq used

(* A packet that is recorded, recent and not before the first one is found *)
(* when its number on the wire is asked for.                               *)
RecentIsServed ==
  \A p \in used :
    /\ p.by # 0 /\ \A j \in pending : j.first # p.n
    /\ sequencer.extStartSN <= p.n
    /\ sequencer.snRangeMap[1].start <= p.n
    /\ sequencer.extHighestSN - p.n < Size
    => p \in getExtPacketMetas(p.n % Width)

(* What is sent again for a NACK is the packet that had the number, never  *)
(* padding; and a packet that is recorded and recent is found.             *)
NacksAreServed == OnlySentIsServed /\ RecentIsServed
=============================================================================
