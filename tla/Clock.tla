--------------------------------- MODULE Clock ---------------------------------
(***************************************************************************)
(* The offset of the clock that a node learns from the version messages of *)
(* its peers: util.cpp, AddTimeData.                                       *)
(***************************************************************************)
EXTENDS Integers, Sequences, SequencesExt

CONSTANT MinSamples  \* 5: with fewer the node's own clock is right

ASSUME ClockAssumption == MinSamples \in Nat \ {0}

NoTimeData == [setKnown |-> {}, vTimeOffsets |-> <<>>, nTimeOffset |-> 0]

\* The samples are sorted at times; their order does not matter but for this.
Median(offsets) == SortSeq(offsets, <)[1 + Len(offsets) \div 2]

\* Mutant of AddTimeData: an address is heard as often as it says something.
AddTimeDataTwice(c, s) ==
    LET offsets == Append(IF c.vTimeOffsets = <<>> THEN <<0>> ELSE c.vTimeOffsets, s.offset)
    IN  [setKnown |-> c.setKnown, vTimeOffsets |-> offsets,
         nTimeOffset |-> IF Len(offsets) >= MinSamples /\ Len(offsets) % 2 = 1
                         THEN Median(offsets) ELSE c.nTimeOffset]

\* One sample of an address; the first of all comes after a 0, for the node itself.
AddTimeData(c, s) ==
    LET offsets == Append(IF c.vTimeOffsets = <<>> THEN <<0>> ELSE c.vTimeOffsets, s.offset)
    IN  IF s.ip \in c.setKnown THEN c
        ELSE [setKnown |-> c.setKnown \cup {s.ip}, vTimeOffsets |-> offsets,
              nTimeOffset |-> IF Len(offsets) >= MinSamples /\ Len(offsets) % 2 = 1
                              THEN Median(offsets) ELSE c.nTimeOffset]
=============================================================================
