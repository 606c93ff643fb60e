---------------------------- MODULE RegionLayout ----------------------------
(***************************************************************************)
(* Where a region file keeps what.  TraceRegion.createFile of              *)
(* lib/src/trace.dart chooses the places and writes them into 32-bit       *)
(* fields of the header; native/tracelite_runtime.c and the reader find    *)
(* registry slots, strings and rings through those fields alone.  Of the   *)
(* sizes a user asks for (lib/src/core_cli.dart:92), all positive, only    *)
(* the words of a ring are checked.                                        *)
(*                                                                         *)
(* An area is the record of its first byte and its length.                 *)
(***************************************************************************)
EXTENDS Integers

CONSTANTS
  FieldRange,     (* a header field holds 0..FieldRange-1; 2^32 in the code *)
  Layouts         (* the sizes regions are created with                     *)

Sizes == [producers : Nat \ {0}, pool : Nat \ {0}, words : Nat \ {0}]

ASSUME LayoutAssumption ==
  /\ FieldRange \in Nat \ {0}
  /\ Layouts \subseteq Sizes

HeaderSize == 128         (* tlt_region_header_t *)
RegistrySlotSize == 16    (* tlt_registry_slot_t *)
RingHeaderSize == 64      (* tlt_ring_header_t   *)
RegistryReservedBytes == 256 * RegistrySlotSize
TrackIds == 256           (* track_id is a uint8_t *)

Area(at, size) == [at |-> at, size |-> size]

-----------------------------------------------------------------------------
(* createFile.                                                             *)

(* Mutant: the header of a ring is not counted.                            *)
PerRingSizeOfData(s) == 8 * s.words

PerRingSize(s) == RingHeaderSize + 8 * s.words

(* _checkPowerOfTwo: createFile throws for other ring sizes.               *)
Accepted(s) == \E k \in 0..s.words : 2^k = s.words

RingSectionOffset(s) == HeaderSize + RegistryReservedBytes + s.pool

TotalSize(s) == RingSectionOffset(s) + PerRingSize(s) * s.producers

(* The header's fields, as setUint32 leaves them.                          *)
Field(n) == n % FieldRange

HeaderOf(s) ==
  [producer_registry_offset |-> Field(HeaderSize),
   string_pool_offset       |-> Field(HeaderSize + RegistryReservedBytes),
   string_pool_size         |-> Field(s.pool),
   producer_ring_offset     |-> Field(RingSectionOffset(s)),
   per_producer_ring_size   |-> Field(PerRingSize(s)),
   max_producers            |-> Field(s.producers)]

-----------------------------------------------------------------------------
(* What the runtime makes of the header h.                                 *)

TracksOf(h) == 0..h.max_producers-1

SlotAt(h, k) ==
  Area(h.producer_registry_offset + k * RegistrySlotSize, RegistrySlotSize)

PoolArea(h) == Area(h.string_pool_offset, h.string_pool_size)

(* A ring's header and the words of the mask that createFile gave it.      *)
RingAt(h, k, s) ==
  Area(h.producer_ring_offset + k * h.per_producer_ring_size,
       RingHeaderSize + 8 * s.words)

(* The track an event of slot k is recorded on: tlt_register_producer      *)
(* returns an int, the write functions take a uint8_t.                     *)
TrackArgument(k) == k % TrackIds

-----------------------------------------------------------------------------
(* Properties.                                                             *)

Before(a, b) == a.at + a.size <= b.at

(* Header, slots, pool and rings follow one another inside the file.       *)
InOrder(s) ==
  LET h == HeaderOf(s)
  IN  /\ \A k \in TracksOf(h) :
           /\ Before(Area(0, HeaderSize), SlotAt(h, k))
           /\ Before(SlotAt(h, k), PoolArea(h))
           /\ Before(PoolArea(h), RingAt(h, k, s))
           /\ Before(RingAt(h, k, s), Area(TotalSize(s), 0))
      /\ \A j, k \in TracksOf(h) : j < k =>
           /\ Before(SlotAt(h, j), SlotAt(h, k))
           /\ Before(RingAt(h, j, s), RingAt(h, k, s))

(* The counters of a ring are 64-bit atomics.                              *)
Aligned(s) ==
  \A k \in TracksOf(HeaderOf(s)) : RingAt(HeaderOf(s), k, s).at % 8 = 0

(* An event recorded for a slot goes into that slot's ring.                *)
OwnTracks(s) ==
  \A k \in TracksOf(HeaderOf(s)) : TrackArgument(k) = k

Representable(s) ==
  /\ RingSectionOffset(s) < FieldRange
  /\ PerRingSize(s) < FieldRange
  /\ s.producers < FieldRange

(* As long as no header field overflows, the areas of a region that        *)
(* createFile agrees to create are apart, its counters aligned and its     *)
(* slots recorded on their own rings exactly when it has at most 256       *)
(* producers ("Hard cap 256", doc/runtime-protocol.md:109) and a pool of   *)
(* whole words.  createFile refuses ring sizes only, so its caller has to  *)
(* keep to these.                                                          *)
LayoutExact ==
  \A s \in Layouts : Accepted(s) /\ Representable(s) =>
    (InOrder(s) /\ Aligned(s) /\ OwnTracks(s)
       <=> s.producers <= 256 /\ s.pool % 8 = 0)
=============================================================================
