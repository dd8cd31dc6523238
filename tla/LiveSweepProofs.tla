-------------------------- MODULE LiveSweepProofs --------------------------
(***************************************************************************)
(* What a live sweep session promises, proved for any volumes, limits,     *)
(* windows, budgets and constraints, any order of uploads and any fault.   *)
(* First its assembler on its own, whatever it is given; then the session, *)
(* which uses the assembler as that one allows, tries the prefixes it      *)
(* reaches in turn, and ends with none of them forgotten.                  *)
(***************************************************************************)
EXTENDS LiveSweep, FiniteSetTheorems, SequenceTheorems, TLAPS

(* ------------------------------ the assembler --------------------------- *)

(* Publications follow the volumes: one happened from the active volume or  *)
(* from an older one.                                                       *)
PublicationsAreBehind ==
  \A v \in published_volumes :
    \/ v = active_volume /\ safe_sweep_published
    \/ v.started < active_volume.started

AssemblerInv ==
  /\ AssemblerTypeOK
  /\ OneVolumeIsAssembled
  /\ NothingFollowsTheEnd
  /\ PublicationsAreBehind

(* No identity is the value that stands for no volume.                      *)
LEMMA VolumesAreReal ==
  \A v \in Volume : v # NoVolume /\ v.started \in Nat /\ v.started > 0
  BY VolumeAssumption DEF NoVolume

(* The empty assembler satisfies the invariant.                             *)
LEMMA AssemblerStarts == AssemblerInit => AssemblerInv
<1> SUFFICES ASSUME AssemblerInit
             PROVE  AssemblerInv
  OBVIOUS
<1> USE DEF AssemblerInit
<1>1. DOMAIN chunks = {}
  BY DEF NoChunks
<1>2. AssemblerTypeOK
  <2>1. terminal_sequence \in 0 .. MAX_REALTIME_CHUNKS
        /\ total_bytes \in 0 .. MAX_REALTIME_VOLUME_BYTES
    BY LimitAssumption
  <2>2. safe_sweep_published \in BOOLEAN
    OBVIOUS
  <2> QED BY <1>1, <2>1, <2>2 DEF AssemblerTypeOK
<1>3. OneVolumeIsAssembled /\ NothingFollowsTheEnd /\ PublicationsAreBehind
  BY <1>1 DEF OneVolumeIsAssembled, NothingFollowsTheEnd, PublicationsAreBehind
<1> QED BY <1>2, <1>3 DEF AssemblerInv

(* A first volume or a rollover starts over with one start chunk; every     *)
(* publication so far is of an older volume.                                *)
LEMMA OpenPreserves ==
  ASSUME AssemblerInv, NEW c \in Chunk, openVolume(c)
  PROVE  AssemblerInv'
<1> USE DEF openVolume, OpensVolume, AssemblerInv
<1>1. AssemblerTypeOK'
  <2>1. c.volume \in Volume /\ c.size \in 1 .. MAX_REALTIME_CHUNK_BYTES
    BY DEF Chunk
  <2>2. total_bytes' \in 0 .. MAX_REALTIME_VOLUME_BYTES
    BY <2>1, LimitAssumption
  <2>3. DOMAIN chunks' = {1} /\ chunks'[1] = c
    OBVIOUS
  <2>4. DOMAIN chunks' \subseteq Sequence /\ \A s \in DOMAIN chunks' : chunks'[s] \in Chunk
    BY <2>3, LimitAssumption DEF Sequence
  <2>5. terminal_sequence' \in 0 .. MAX_REALTIME_CHUNKS /\ published_volumes' \subseteq Volume
    BY LimitAssumption DEF AssemblerTypeOK
  <2>6. safe_sweep_published' \in BOOLEAN
    OBVIOUS
  <2> QED BY <2>1, <2>2, <2>4, <2>5, <2>6 DEF AssemblerTypeOK
<1>2. OneVolumeIsAssembled'
  BY DEF OneVolumeIsAssembled, validate_sequence_type
<1>3. NothingFollowsTheEnd'
  BY DEF NothingFollowsTheEnd, validate_sequence_type
<1>4. PublicationsAreBehind'
  <2> SUFFICES ASSUME NEW v \in published_volumes
               PROVE  v.started < c.volume.started
    BY DEF PublicationsAreBehind
  <2>1. v \in Volume /\ c.volume \in Volume
    BY DEF AssemblerTypeOK, Chunk
  <2>2. CASE active_volume = NoVolume
    BY <2>1, <2>2, VolumesAreReal DEF PublicationsAreBehind, NoVolume
  <2>3. CASE c.volume.started > active_volume.started
    <3>1. active_volume.started \in Nat
      BY VolumesAreReal DEF AssemblerTypeOK, NoVolume
    <3> QED BY <2>1, <2>3, <3>1, VolumesAreReal DEF PublicationsAreBehind
  <2> QED BY <2>2, <2>3
<1> QED BY <1>1, <1>2, <1>3, <1>4

(* A stored chunk takes a free place, none behind the end; an end chunk is  *)
(* stored behind all others and only where the end is known to be.          *)
LEMMA StorePreserves ==
  ASSUME AssemblerInv, NEW c \in Chunk, storeChunk(c)
  PROVE  AssemblerInv'
<1> USE DEF storeChunk, Acceptable, AssemblerInv
<1>1. c.sequence \in Sequence /\ c.kind \in ChunkKind /\ c.size \in Nat
  BY LimitAssumption DEF Chunk
<1>2. AssemblerTypeOK'
  BY <1>1, LimitAssumption DEF AssemblerTypeOK, TerminalAfter, Fits, Sequence
<1>3. OneVolumeIsAssembled'
  BY <1>1 DEF OneVolumeIsAssembled, validate_sequence_type
<1>4. NothingFollowsTheEnd'
  <2> SUFFICES ASSUME NEW s \in DOMAIN chunks'
               PROVE  /\ terminal_sequence' # 0 => s <= terminal_sequence'
                      /\ chunks'[s].kind = "end" => s = terminal_sequence'
    BY DEF NothingFollowsTheEnd
  <2>1. \A t \in DOMAIN chunks : t \in Sequence
    BY DEF AssemblerTypeOK
  <2>2. CASE s = c.sequence
    BY <1>1, <2>1, <2>2, LimitAssumption DEF EndAllows, TerminalAfter, Sequence
  <2>3. CASE s \in DOMAIN chunks /\ s # c.sequence
    BY <1>1, <2>1, <2>3, LimitAssumption
    DEF NothingFollowsTheEnd, EndAllows, TerminalAfter, Sequence, AssemblerTypeOK
  <2> QED BY <2>2, <2>3
<1>5. PublicationsAreBehind'
  BY DEF PublicationsAreBehind
<1> QED BY <1>2, <1>3, <1>4, <1>5

(* An end chunk that does not fit is noted all the same, where EndAllows it. *)
LEMMA RefusePreserves ==
  ASSUME AssemblerInv, NEW c \in Chunk, refuseTooLarge(c)
  PROVE  AssemblerInv'
<1> USE DEF refuseTooLarge, Acceptable, AssemblerInv
<1>1. c.sequence \in Sequence
  BY DEF Chunk
<1>2. \A t \in DOMAIN chunks : t \in Sequence
  BY DEF AssemblerTypeOK
<1>3. AssemblerTypeOK'
  BY <1>1, LimitAssumption DEF AssemblerTypeOK, TerminalAfter, Sequence
<1>4. NothingFollowsTheEnd'
  BY <1>1, <1>2, LimitAssumption
  DEF NothingFollowsTheEnd, EndAllows, TerminalAfter, Sequence, AssemblerTypeOK
<1>5. OneVolumeIsAssembled' /\ PublicationsAreBehind'
  BY DEF OneVolumeIsAssembled, PublicationsAreBehind
<1> QED BY <1>3, <1>4, <1>5

(* A publication adds the active volume and touches nothing else.           *)
LEMMA PublishPreserves ==
  ASSUME AssemblerInv, mark_safe_sweep_published
  PROVE  AssemblerInv'
  BY DEF AssemblerInv, mark_safe_sweep_published, AssemblerTypeOK,
     OneVolumeIsAssembled, NothingFollowsTheEnd, PublicationsAreBehind

(* Every step preserves the invariant.                                      *)
LEMMA AssemblerSteps ==
  AssemblerInv /\ [AssemblerNext]_assemblerVars => AssemblerInv'
<1> SUFFICES ASSUME AssemblerInv, [AssemblerNext]_assemblerVars
             PROVE  AssemblerInv'
  OBVIOUS
<1>1. CASE \E c \in Chunk : ingest(c)
  <2>1. PICK c \in Chunk : ingest(c)
    BY <1>1
  <2> QED BY <2>1, OpenPreserves, StorePreserves, RefusePreserves DEF ingest
<1>2. CASE mark_safe_sweep_published
  BY <1>2, PublishPreserves
<1>3. CASE UNCHANGED assemblerVars
  BY <1>3 DEF assemblerVars, AssemblerInv, AssemblerTypeOK, OneVolumeIsAssembled,
     NothingFollowsTheEnd, PublicationsAreBehind
<1> QED BY <1>1, <1>2, <1>3 DEF AssemblerNext

(* The invariant holds in every reachable state.                            *)
THEOREM AssemblerInvariant == AssemblerSpec => []AssemblerInv
  BY AssemblerStarts, AssemblerSteps, PTL DEF AssemblerSpec

(* What is offered to a decoder is of one volume, every chunk in its place. *)
THEOREM AssemblesOneVolume == AssemblerSpec => []OneVolumeIsAssembled
<1>1. AssemblerInv => OneVolumeIsAssembled
  BY DEF AssemblerInv
<1> QED BY <1>1, AssemblerInvariant, PTL

(* No chunk is ever stored behind the end of a volume.                      *)
THEOREM EndIsTheEnd == AssemblerSpec => []NothingFollowsTheEnd
<1>1. AssemblerInv => NothingFollowsTheEnd
  BY DEF AssemblerInv
<1> QED BY <1>1, AssemblerInvariant, PTL

(* A prefix handed to a decoder stays a prefix until a newer volume opens.  *)
THEOREM GrowthOnly == AssemblerSpec => AssemblyOnlyGrows
<1>1. [AssemblerNext]_assemblerVars =>
        [ \/ active_volume = NoVolume
          \/ active_volume'.started > active_volume.started
          \/ /\ active_volume' = active_volume
             /\ \A s \in DOMAIN chunks : s \in DOMAIN chunks' /\ chunks'[s] = chunks[s]
        ]_assemblerVars
  BY DEF AssemblerNext, ingest, openVolume, OpensVolume, storeChunk, Acceptable,
     refuseTooLarge, mark_safe_sweep_published, assemblerVars
<1> QED BY <1>1, PTL DEF AssemblerSpec, AssemblyOnlyGrows

(* Until the next volume opens, a complete volume never changes: every      *)
(* place up to its end is taken and nothing is stored behind it.            *)
THEOREM CompletionIsFinal == AssemblerSpec => CompleteIsFinal
<1>1. AssemblerInv /\ [AssemblerNext]_assemblerVars =>
        [complete /\ active_volume' = active_volume =>
           complete' /\ chunks' = chunks]_assemblerVars
  <2> SUFFICES ASSUME AssemblerInv, AssemblerNext, complete,
                      active_volume' = active_volume
               PROVE  complete' /\ chunks' = chunks
    BY DEF assemblerVars
  <2>1. ASSUME NEW c \in Chunk, Acceptable(c)
        PROVE  FALSE
    <3>1. c.sequence \in 1 .. terminal_sequence
      BY <2>1, LimitAssumption
      DEF Acceptable, EndAllows, complete, Chunk, Sequence, AssemblerInv, AssemblerTypeOK
    <3> QED BY <2>1, <3>1 DEF Acceptable, complete, ContiguousThrough
  <2>2. ASSUME NEW c \in Chunk, openVolume(c)
        PROVE  FALSE
    <3>0. 1 \in DOMAIN chunks
      BY LimitAssumption DEF complete, ContiguousThrough, AssemblerInv, AssemblerTypeOK
    <3>1. active_volume # NoVolume
      BY <3>0, VolumesAreReal
      DEF AssemblerInv, AssemblerTypeOK, OneVolumeIsAssembled, Chunk
    <3>2. active_volume \in Volume
      BY <3>1 DEF AssemblerInv, AssemblerTypeOK
    <3> QED BY <2>2, <3>1, <3>2, VolumesAreReal DEF openVolume, OpensVolume
  <2>3. mark_safe_sweep_published
    BY <2>1, <2>2 DEF AssemblerNext, ingest, storeChunk, refuseTooLarge
  <2> QED BY <2>3 DEF mark_safe_sweep_published, complete, ContiguousThrough
<1> QED BY <1>1, AssemblerInvariant, PTL DEF AssemblerSpec, CompleteIsFinal

(* One safe sweep is published from a volume, whatever comes after it.      *)
THEOREM PublicationIsOnce == AssemblerSpec => PublishedOncePerVolume
<1>1. AssemblerInv /\ [AssemblerNext]_assemblerVars =>
        [safe_sweep_published' /\ ~safe_sweep_published =>
           active_volume' \notin published_volumes]_assemblerVars
  <2> SUFFICES ASSUME AssemblerInv, AssemblerNext,
                      safe_sweep_published', ~safe_sweep_published
               PROVE  active_volume' \notin published_volumes
    BY DEF assemblerVars
  <2>1. mark_safe_sweep_published
    BY DEF AssemblerNext, ingest, openVolume, storeChunk, refuseTooLarge
  <2>2. active_volume' = active_volume /\ active_volume \in Volume
    BY <2>1 DEF mark_safe_sweep_published, AssemblerInv, AssemblerTypeOK
  <2>3. active_volume.started \in Nat
    BY <2>2, VolumesAreReal
  <2> QED BY <2>2, <2>3 DEF AssemblerInv, PublicationsAreBehind
<1> QED BY <1>1, AssemblerInvariant, PTL DEF AssemblerSpec, PublishedOncePerVolume
(* --------------------------- lists and numbers -------------------------- *)

(* A list of some elements or other, which the model leaves untyped where   *)
(* nothing depends on their bytes.                                          *)
IsList(list) == list \in Seq(ToSet(list))

LEMMA ListsAreSequences ==
  ASSUME NEW S, NEW list \in Seq(S)
  PROVE  IsList(list) /\ ToSet(list) \subseteq S
<1>1. Len(list) \in Nat /\ list \in [1 .. Len(list) -> S]
  BY LenProperties
<1>2. list \in [1 .. Len(list) -> ToSet(list)]
  BY <1>1 DEF ToSet
<1>3. list \in Seq(ToSet(list))
  BY <1>1, <1>2, SeqDef
<1>4. QED
  BY <1>1, <1>3 DEF IsList, ToSet

LEMMA NothingListed == IsList(<<>>) /\ Len(<<>>) = 0
  BY EmptySeq DEF IsList

(* Capturing a prefix adds it behind the others.                            *)
LEMMA ListGrows ==
  ASSUME NEW list, IsList(list), NEW x
  PROVE  LET longer == list \o <<x>>
         IN  /\ IsList(longer) /\ Len(longer) = Len(list) + 1
             /\ Len(list) \in Nat
             /\ \A i \in 1 .. Len(list) : longer[i] = list[i]
             /\ longer[Len(list) + 1] = x
<1> DEFINE S == ToSet(list) \cup {x}
           longer == list \o <<x>>
<1>1. list \in Seq(S)
  BY SeqMonotonic DEF IsList
<1>2. <<x>> \in Seq(S) /\ Len(<<x>>) = 1 /\ <<x>>[1] = x
  OBVIOUS
<1>3. /\ longer \in Seq(S) /\ Len(longer) = Len(list) + 1
      /\ \A i \in 1 .. Len(list) + 1 :
           longer[i] = IF i <= Len(list) THEN list[i] ELSE <<x>>[i - Len(list)]
  <2> HIDE DEF S
  <2> QED BY <1>1, <1>2, ConcatProperties
<1>4. Len(list) \in Nat
  BY <1>1, LenProperties
<1>5. IsList(longer)
  BY <1>3, ListsAreSequences
<1>6. longer[Len(list) + 1] = x
  BY <1>2, <1>3, <1>4
<1>7. \A i \in 1 .. Len(list) : longer[i] = list[i]
  BY <1>3, <1>4
<1>8. QED
  BY <1>3, <1>4, <1>5, <1>6, <1>7

LEMMA ListStays ==
  ASSUME NEW list, IsList(list)
  PROVE  list \o <<>> = list
  BY ConcatEmptySeq DEF IsList

(* A part of a list, by its places.                                         *)
LEMMA ListParts ==
  ASSUME NEW list, IsList(list), NEW m \in Nat, NEW n \in Nat,
         1 <= m, m <= n + 1, n <= Len(list)
  PROVE  LET part == SubSeq(list, m, n)
         IN  /\ IsList(part) /\ Len(part) = n + 1 - m
             /\ \A i \in 1 .. n + 1 - m : part[i] = list[m + i - 1]
<1>1. Len(list) \in Nat
  BY LenProperties DEF IsList
<1>2. \A i \in m .. n : list[i] \in ToSet(list)
  BY <1>1, ElementOfSeq DEF IsList
<1>3. SubSeq(list, m, n) \in Seq(ToSet(list))
  BY <1>2, SubSeqProperties
<1>4. /\ Len(SubSeq(list, m, n)) = n + 1 - m
      /\ \A i \in 1 .. n + 1 - m : SubSeq(list, m, n)[i] = list[m + i - 1]
  BY <1>2, SubSeqProperties
<1>5. QED
  BY <1>3, <1>4, ListsAreSequences

LEMMA ListShrinks ==
  ASSUME NEW list, IsList(list), list # <<>>
  PROVE  /\ IsList(Tail(list)) /\ Len(Tail(list)) = Len(list) - 1
         /\ Len(list) \in Nat \ {0} /\ Head(list) = list[1]
         /\ \A i \in 1 .. Len(list) - 1 : Tail(list)[i] = list[i + 1]
<1>1. Len(list) \in Nat /\ Len(list) # 0
  BY LenProperties, EmptySeq DEF IsList
<1>2. /\ Tail(list) \in Seq(ToSet(list)) /\ Len(Tail(list)) = Len(list) - 1
      /\ \A i \in 1 .. Len(Tail(list)) : Tail(list)[i] = list[i + 1]
  BY HeadTailProperties DEF IsList
<1>3. Head(list) = list[1]
  OBVIOUS
<1>4. IsList(Tail(list))
  BY <1>2, ListsAreSequences
<1>5. QED
  BY <1>1, <1>2, <1>3, <1>4

(* Every non-empty set of natural numbers has a least member.               *)
LEMMA LeastExists ==
  ASSUME NEW S, S \subseteq Nat, S # {}
  PROVE  \E least \in S : \A n \in S : least <= n
<1> DEFINE Less == {p \in Nat \X Nat : p[1] < p[2]}
<1>1. IsWellFoundedOn(Less, Nat)
  BY NatLessThanWellFounded DEF OpToRel
<1>2. PICK least \in S : \A n \in S : ~ (<<n, least>> \in Less)
  <2> HIDE DEF Less
  <2> QED BY <1>1, WFMin
<1>3. ASSUME NEW n \in S PROVE least <= n
  <2>1. n \in Nat /\ least \in Nat
    OBVIOUS
  <2>2. n < least => <<n, least>> \in Less
    BY <2>1
  <2>3. QED
    BY <1>2, <2>1, <2>2
<1>4. QED
  BY <1>3

(* And a greatest, when it is bounded.                                      *)
LEMMA GreatestIsMember ==
  ASSUME NEW S, S \subseteq Nat, S # {}, NEW bound \in Nat, \A n \in S : n <= bound
  PROVE  Max(S) \in S
<1> DEFINE Above == {b \in Nat : \A n \in S : n <= b}
<1>1. PICK least \in Above : \A b \in Above : least <= b
  BY LeastExists
<1>2. least \in S
  <2>1. SUFFICES ASSUME least \notin S PROVE FALSE
    OBVIOUS
  <2>2. \A n \in S : n \in Nat /\ n < least
    BY <1>1, <2>1
  <2>3. least - 1 \in Nat /\ \A n \in S : n <= least - 1
    <3>1. PICK n \in S : TRUE
      OBVIOUS
    <3>2. n \in Nat /\ n < least /\ least \in Nat
      BY <1>1, <2>2, <3>1
    <3>3. \A k \in S : k \in Nat /\ k < least
      BY <2>2
    <3>4. least - 1 \in Nat
      BY <3>2
    <3>5. QED
      BY <3>2, <3>3, <3>4
  <2>4. least - 1 \in Above
    BY <2>3
  <2>5. least <= least - 1
    <3> HIDE DEF Above
    <3> QED BY <1>1, <2>4
  <2>6. QED
    BY <1>1, <2>5
<1>3. \A n \in S : least >= n
  BY <1>1
<1>4. QED
  BY <1>2, <1>3 DEF Max

(* ----------------------- prefixes and their decodes --------------------- *)

(* Of any places, those from the first up to the first that is free.        *)
LEMMA PrefixExists ==
  ASSUME NEW D, D \subseteq Sequence
  PROVE  \E n \in 0 .. MAX_REALTIME_CHUNKS : 1 .. n \subseteq D /\ n + 1 \notin D
<1> DEFINE Free == {n \in Nat : n >= 1 /\ n \notin D}
<1>1. MAX_REALTIME_CHUNKS \in Nat
  BY LimitAssumption
<1>2. MAX_REALTIME_CHUNKS + 1 \in Free
  BY <1>1 DEF Sequence
<1>3. PICK free \in Free : \A n \in Free : free <= n
  <2>1. Free \subseteq Nat /\ Free # {}
    BY <1>2
  <2> HIDE DEF Free
  <2>2. QED
    BY <2>1, LeastExists
<1>4. free - 1 \in 0 .. MAX_REALTIME_CHUNKS
  BY <1>1, <1>2, <1>3
<1>5. \A n \in 1 .. free - 1 : n \in D
  BY <1>3
<1>6. (free - 1) + 1 \notin D
  BY <1>3
<1>7. QED
  BY <1>4, <1>5, <1>6

LEMMA PrefixIsContiguous ==
  ASSUME AssemblerTypeOK
  PROVE  contiguous_through \in 0 .. MAX_REALTIME_CHUNKS /\ ContiguousThrough(contiguous_through)
<1>1. DOMAIN chunks \subseteq Sequence
  BY DEF AssemblerTypeOK
<1>2. \E n \in 0 .. MAX_REALTIME_CHUNKS : ContiguousThrough(n)
  BY <1>1, PrefixExists DEF ContiguousThrough
<1>3. QED
  BY <1>2 DEF contiguous_through

LEMMA PrefixIsContiguousAfter ==
  ASSUME AssemblerTypeOK'
  PROVE  /\ contiguous_through' \in 0 .. MAX_REALTIME_CHUNKS
         /\ 1 .. contiguous_through' \subseteq DOMAIN chunks'
         /\ contiguous_through' + 1 \notin DOMAIN chunks'
<1>1. DOMAIN chunks' \subseteq Sequence
  BY DEF AssemblerTypeOK, Sequence
<1> DEFINE Through(n) == 1 .. n \subseteq DOMAIN chunks' /\ n + 1 \notin DOMAIN chunks'
<1>2. \E n \in 0 .. MAX_REALTIME_CHUNKS : Through(n)
  BY <1>1, PrefixExists
<1>3. contiguous_through' = CHOOSE n \in 0 .. MAX_REALTIME_CHUNKS : Through(n)
  BY DEF contiguous_through, ContiguousThrough
<1>4. contiguous_through' \in 0 .. MAX_REALTIME_CHUNKS /\ Through(contiguous_through')
  <2> HIDE DEF Through
  <2> QED BY <1>2, <1>3
<1>5. QED
  BY <1>4

(* While chunks are only added the prefix they reach grows.                 *)
LEMMA PrefixGrows ==
  ASSUME AssemblerTypeOK, AssemblerTypeOK', DOMAIN chunks \subseteq DOMAIN chunks'
  PROVE  /\ contiguous_through \in Nat /\ contiguous_through' \in 0 .. MAX_REALTIME_CHUNKS
         /\ contiguous_through <= contiguous_through'
<1>0. MAX_REALTIME_CHUNKS \in Nat
  BY LimitAssumption
<1>1. contiguous_through \in Nat /\ 1 .. contiguous_through \subseteq DOMAIN chunks'
  BY <1>0, PrefixIsContiguous DEF ContiguousThrough
<1>2. /\ contiguous_through' \in 0 .. MAX_REALTIME_CHUNKS
      /\ contiguous_through' + 1 \notin DOMAIN chunks'
  BY PrefixIsContiguousAfter
<1>3. QED
  BY <1>0, <1>1, <1>2

(* Before the first volume there is no prefix, and behind its start one.    *)
LEMMA NothingIsHeld ==
  ASSUME AssemblerInv, active_volume = NoVolume
  PROVE  DOMAIN chunks = {} /\ contiguous_through = 0
<1>1. DOMAIN chunks = {}
  BY VolumesAreReal DEF AssemblerInv, AssemblerTypeOK, OneVolumeIsAssembled, Chunk
<1>2. contiguous_through \in Nat /\ 1 .. contiguous_through \subseteq {}
  BY <1>1, PrefixIsContiguous, LimitAssumption DEF AssemblerInv, ContiguousThrough
<1>3. QED
  BY <1>1, <1>2

LEMMA StartIsPrefix ==
  ASSUME AssemblerTypeOK', 1 \in DOMAIN chunks'
  PROVE  contiguous_through' # 0
  BY PrefixIsContiguousAfter

(* One prefix at least is decoded at a time, and no more than there are.    *)
LEMMA GroupIsSome ==
  ASSUME NEW bs, IsList(bs), bs # <<>>
  PROVE  GroupSize(bs) \in 1 .. Len(bs)
<1> DEFINE Sizes == {k \in 1 .. Len(bs) :
                       k = 1 \/ GroupBytes(bs, k) <= CONCURRENT_SAFE_DECODE_INPUT_BYTES}
<1>1. Len(bs) \in Nat \ {0}
  BY ListShrinks
<1>2. 1 \in Sizes
  BY <1>1
<1>3. Sizes \subseteq Nat /\ Sizes # {} /\ \A k \in Sizes : k <= Len(bs)
  BY <1>1, <1>2
<1>4. Max(Sizes) \in Sizes
  <2> HIDE DEF Sizes
  <2> QED BY <1>1, <1>3, GreatestIsMember
<1>5. QED
  BY <1>4 DEF GroupSize

(* What is decoded and what is left are the list, in its order.             *)
LEMMA DecodesInOrder ==
  ASSUME NEW bs, IsList(bs), bs # <<>>, NEW failure, startDecodes(bs, failure)
  PROVE  /\ phase' = "decoding" /\ error' = error /\ rescued' = failure
         /\ IsList(group)' /\ IsList(boundaries)' /\ group' # <<>>
         /\ Len(group') \in Nat /\ Len(boundaries') \in Nat
         /\ Len(group') + Len(boundaries') = Len(bs)
         /\ \A i \in 1 .. Len(group') : group'[i] = bs[i]
         /\ \A i \in 1 .. Len(boundaries') : boundaries'[i] = bs[Len(group') + i]
<1> DEFINE k == GroupSize(bs)
<1>1. Len(bs) \in Nat /\ k \in 1 .. Len(bs)
  BY ListShrinks, GroupIsSome
<1>2. group' = SubSeq(bs, 1, k) /\ boundaries' = SubSeq(bs, k + 1, Len(bs))
  BY DEF startDecodes
<1> HIDE DEF k
<1>3. /\ IsList(group') /\ Len(group') = k
      /\ \A i \in 1 .. k : group'[i] = bs[i]
  <2>1. /\ IsList(SubSeq(bs, 1, k)) /\ Len(SubSeq(bs, 1, k)) = k + 1 - 1
        /\ \A i \in 1 .. k + 1 - 1 : SubSeq(bs, 1, k)[i] = bs[1 + i - 1]
    BY <1>1, ListParts
  <2>2. QED
    BY <1>1, <1>2, <2>1
<1>4. /\ IsList(boundaries') /\ Len(boundaries') = Len(bs) - k
      /\ \A i \in 1 .. Len(bs) - k : boundaries'[i] = bs[k + i]
  <2>1. LET rest == SubSeq(bs, k + 1, Len(bs))
        IN  /\ IsList(rest) /\ Len(rest) = Len(bs) + 1 - (k + 1)
            /\ \A i \in 1 .. Len(bs) + 1 - (k + 1) : rest[i] = bs[k + 1 + i - 1]
    BY <1>1, ListParts
  <2>2. QED
    BY <1>1, <1>2, <2>1
<1>5. group' # <<>>
  BY <1>1, <1>3, NothingListed
<1>6. phase' = "decoding" /\ error' = error /\ rescued' = failure
  BY DEF startDecodes, Await
<1>7. QED
  BY <1>1, <1>3, <1>4, <1>5, <1>6 DEF IsList

(* ------------------------- the session's invariant ---------------------- *)

SweepTypeOK ==
  /\ uploaded \subseteq Object /\ IsFiniteSet(uploaded)
  /\ first_safe \in 2 .. MAX_REALTIME_CHUNKS + 1
  /\ first_malformed \in first_safe .. MAX_REALTIME_CHUNKS + 1
  /\ token_current \in BOOLEAN
  /\ candidates \in Seq(Chunk) /\ downloaded \in Seq(Results)
  /\ IsList(boundaries) /\ IsList(group) /\ IsList(reached)
  /\ rescued \in {"none", "download", "assembly"}
  /\ decoder_attempts \in Nat

(* The session downloads chunks of the volume it selected, and assembles    *)
(* that one only.                                                           *)
OneVolumeIsSelected ==
  /\ \A i \in 1 .. Len(candidates) : candidates[i].volume.started = selected_started_at
  /\ active_volume # NoVolume => active_volume.started = selected_started_at

(* Where the session is suspended it has what it goes on with.              *)
WorkIsThere ==
  /\ phase = "downloading" => candidates # <<>>
  /\ phase = "ingesting" => downloaded # <<>> /\ Len(downloaded) <= Len(candidates)
  /\ phase = "decoding" => group # <<>>
  /\ phase \in {"published", "completing", "complete"} => published_through # 0

FailuresEnd == error # "none" => phase = "failed"

(* Behind the prefixes that were tried come those being decoded, then those *)
(* that wait, and these are all.                                            *)
PendingIsReached ==
  published_through = 0 /\ phase \notin Ended =>
    /\ Len(reached) = decoder_attempts + Len(group) + Len(boundaries)
    /\ \A i \in 1 .. Len(group) : reached[decoder_attempts + i] = group[i]
    /\ \A i \in 1 .. Len(boundaries) :
         reached[decoder_attempts + Len(group) + i] = boundaries[i]

(* Prefixes wait only inside a window, and none after the publication.      *)
PendingIsAwaited ==
  /\ phase \notin Ended \cup {"ingesting", "decoding"} => boundaries = <<>>
  /\ phase \notin Ended \cup {"decoding"} => group = <<>>
  /\ published_through # 0 => phase # "decoding" /\ boundaries = <<>>

TriedInVain ==
  published_through = 0 /\ phase \notin Ended =>
    \A i \in 1 .. decoder_attempts : DecodeOf(reached[i]) = "incomplete"

(* The last prefix captured is the one the assembler holds.                 *)
PrefixIsCaptured ==
  /\ \A i \in 1 .. Len(reached) : reached[i].through \in Sequence
  /\ published_through = 0 /\ active_volume # NoVolume =>
       reached # <<>> /\ Last(reached).through = contiguous_through

SweepInv ==
  /\ AssemblerInv /\ SweepTypeOK /\ OneVolumeIsSelected /\ WorkIsThere /\ FailuresEnd
  /\ PendingIsReached /\ PendingIsAwaited /\ TriedInVain /\ PrefixIsCaptured
  /\ AsTryingEachInTurn /\ FailureKeepsSafeSweep

(* A session that has done nothing satisfies it.                            *)
LEMMA SweepStarts == LiveSweepInit => SweepInv
<1> SUFFICES ASSUME LiveSweepInit PROVE SweepInv
  OBVIOUS
<1>1. AssemblerInv /\ active_volume = NoVolume
  BY AssemblerStarts DEF LiveSweepInit, AssemblerInit
<1>2. SweepTypeOK
  <2>1. IsFiniteSet({}) /\ IsList(<<>>)
    BY FS_EmptySet, NothingListed
  <2>2. QED
    BY <2>1 DEF LiveSweepInit, SweepTypeOK
<1>3. OneVolumeIsSelected /\ WorkIsThere /\ FailuresEnd
  BY <1>1 DEF LiveSweepInit, OneVolumeIsSelected, WorkIsThere, FailuresEnd
<1>4. PendingIsReached /\ PendingIsAwaited /\ TriedInVain /\ PrefixIsCaptured
  BY <1>1 DEF LiveSweepInit, PendingIsReached, PendingIsAwaited, TriedInVain, PrefixIsCaptured
<1>5. AsTryingEachInTurn /\ FailureKeepsSafeSweep
  BY DEF LiveSweepInit, AsTryingEachInTurn, FailureKeepsSafeSweep
<1>6. QED
  BY <1>1, <1>2, <1>3, <1>4, <1>5 DEF SweepInv

(* --------------------- steps that capture and try nothing --------------- *)

(* A session that only moves on, with nothing under way, keeps its prefixes *)
(* and their answers as they are.                                           *)
LEMMA MovingOnKeeps ==
  ASSUME SweepInv, phase \notin Ended,
         UNCHANGED <<assemblerVars, decodeVars, reached, first_safe, first_malformed>>,
         \/ phase' \in Ended \/ phase' = phase
         \/ phase' # "decoding" /\ boundaries = <<>> /\ group = <<>>
  PROVE  /\ AssemblerInv' /\ PendingIsReached' /\ PendingIsAwaited' /\ TriedInVain'
         /\ PrefixIsCaptured' /\ AsTryingEachInTurn'
<1>1. AssemblerInv'
  BY AssemblerSteps DEF SweepInv
<1>2. UNCHANGED <<boundaries, group, decoder_attempts, published_through, reached>>
  BY DEF decodeVars
<1>3. UNCHANGED <<active_volume, chunks>>
  BY DEF assemblerVars
<1>4. PendingIsReached' /\ PendingIsAwaited'
  BY <1>2 DEF SweepInv, PendingIsReached, PendingIsAwaited, Ended
<1>5. TriedInVain' /\ AsTryingEachInTurn'
  BY <1>2 DEF SweepInv, TriedInVain, AsTryingEachInTurn, DecodeOf
<1>6. PrefixIsCaptured'
  <2>1. contiguous_through' = contiguous_through
    BY <1>3 DEF contiguous_through, ContiguousThrough
  <2>2. QED
    BY <1>2, <1>3, <2>1 DEF SweepInv, PrefixIsCaptured, Last
<1>7. QED
  BY <1>1, <1>4, <1>5, <1>6

LEMMA SameTypes ==
  ASSUME SweepInv, UNCHANGED <<providerVars, decodeVars, reached>>,
         token_current' \in BOOLEAN, candidates' \in Seq(Chunk), downloaded' \in Seq(Results)
  PROVE  SweepTypeOK'
  BY DEF SweepInv, SweepTypeOK, IsList, providerVars, decodeVars

(* A session that fails, for whatever reason but a chunk, keeps what it has. *)
LEMMA FailingKeeps ==
  ASSUME SweepInv, phase \notin Ended, NEW why \in {"stale", "dropped", "decode"}, Fail(why),
         UNCHANGED <<providerVars, pollVars, decodeVars, assemblerVars, token_current, reached>>
  PROVE  SweepInv'
<1>1. phase' = "failed" /\ error' = why /\ phase' \in Ended
  BY DEF Fail, Ended
<1>2. SweepTypeOK'
  BY SameTypes DEF SweepInv, SweepTypeOK, pollVars
<1>3. OneVolumeIsSelected' /\ WorkIsThere' /\ FailuresEnd' /\ FailureKeepsSafeSweep'
  BY <1>1 DEF SweepInv, OneVolumeIsSelected, WorkIsThere, FailuresEnd, FailureKeepsSafeSweep,
     pollVars, assemblerVars
<1>4. /\ AssemblerInv' /\ PendingIsReached' /\ PendingIsAwaited' /\ TriedInVain'
      /\ PrefixIsCaptured' /\ AsTryingEachInTurn'
  BY <1>1, MovingOnKeeps DEF providerVars
<1>5. QED
  BY <1>2, <1>3, <1>4 DEF SweepInv

LEMMA EndingsKeep ==
  ASSUME SweepInv, dropRequest \/ tokenStale \/ ingestStale
  PROVE  SweepInv'
  BY FailingKeeps DEF dropRequest, tokenStale, ingestStale, Awaits, Ended

(* While no window is under way there is nothing to decode.                 *)
LEMMA NothingPends ==
  ASSUME SweepInv, phase \notin Ended \cup {"ingesting", "decoding"}
  PROVE  boundaries = <<>> /\ group = <<>> /\ error = "none"
  BY DEF SweepInv, PendingIsAwaited, FailuresEnd, Ended

LEMMA EnvironmentKeeps ==
  ASSUME SweepInv, (\E o \in Object : upload(o)) \/ supersede
  PROVE  SweepInv'
<1>1. CASE \E o \in Object : upload(o)
  <2>1. PICK o \in Object : upload(o)
    BY <1>1
  <2>2. /\ phase = "listing" /\ uploaded' = uploaded \cup {o}
        /\ UNCHANGED <<first_safe, first_malformed, pollVars, decodeVars, assemblerVars,
                       token_current, phase, error, reached>>
    BY <2>1 DEF upload
  <2>3. SweepTypeOK'
    <3>1. uploaded' \subseteq Object /\ IsFiniteSet(uploaded')
      BY <2>2, FS_AddElement DEF SweepInv, SweepTypeOK
    <3>2. QED
      BY <2>2, <3>1 DEF SweepInv, SweepTypeOK, IsList, pollVars, decodeVars
  <2>4. OneVolumeIsSelected' /\ WorkIsThere' /\ FailuresEnd' /\ FailureKeepsSafeSweep'
    BY <2>2 DEF SweepInv, OneVolumeIsSelected, WorkIsThere, FailuresEnd, FailureKeepsSafeSweep,
       pollVars, assemblerVars, decodeVars, DecodeOf
  <2>5. /\ AssemblerInv' /\ PendingIsReached' /\ PendingIsAwaited' /\ TriedInVain'
        /\ PrefixIsCaptured' /\ AsTryingEachInTurn'
    BY <2>2, MovingOnKeeps DEF Ended
  <2>6. QED
    BY <2>3, <2>4, <2>5 DEF SweepInv
<1>2. CASE supersede
  <2>1. /\ phase \notin Ended /\ token_current' = FALSE
        /\ UNCHANGED <<providerVars, pollVars, decodeVars, assemblerVars, phase, error, reached>>
    BY <1>2 DEF supersede
  <2>2. SweepTypeOK'
    BY <2>1, SameTypes DEF SweepInv, SweepTypeOK, pollVars
  <2>3. OneVolumeIsSelected' /\ WorkIsThere' /\ FailuresEnd' /\ FailureKeepsSafeSweep'
    BY <2>1 DEF SweepInv, OneVolumeIsSelected, WorkIsThere, FailuresEnd, FailureKeepsSafeSweep,
       pollVars, assemblerVars, decodeVars
  <2>4. /\ AssemblerInv' /\ PendingIsReached' /\ PendingIsAwaited' /\ TriedInVain'
        /\ PrefixIsCaptured' /\ AsTryingEachInTurn'
    BY <2>1, MovingOnKeeps DEF providerVars
  <2>5. QED
    BY <2>2, <2>3, <2>4 DEF SweepInv
<1>3. QED
  BY <1>1, <1>2

(* -------------------------------- polling ------------------------------- *)

(* What is listed is downloaded in some order of what is fresh.             *)
LEMMA ListingIsFresh ==
  ASSUME NEW objects, objects \subseteq Chunk, IsFiniteSet(objects),
         NEW list \in InSequence(objects)
  PROVE  /\ list \in Seq(Chunk)
         /\ objects # {} => list # <<>>
         /\ \A i \in 1 .. Len(list) : list[i] \in objects
<1>1. Cardinality(objects) \in Nat
  BY FS_CardinalityType
<1>2. list \in [1 .. Cardinality(objects) -> objects]
  BY DEF InSequence, SetToSeqs
<1>3. list \in Seq(objects) /\ Len(list) = Cardinality(objects)
  BY <1>1, <1>2, SeqDef
<1>4. list \in Seq(Chunk)
  BY <1>3, SeqMonotonic
<1>5. objects # {} => list # <<>>
  BY <1>3, FS_EmptySet, EmptySeq
<1>6. QED
  BY <1>2, <1>3, <1>4, <1>5

LEMMA WindowIsSome ==
  ASSUME SweepInv, candidates # <<>>
  PROVE  WindowSize \in 1 .. Len(candidates)
<1>1. Len(candidates) \in Nat /\ Len(candidates) # 0
  BY LenProperties, EmptySeq DEF SweepInv, SweepTypeOK
<1>2. \E n \in {CHUNK_DOWNLOAD_WINDOW, Len(candidates)} :
        \A m \in {CHUNK_DOWNLOAD_WINDOW, Len(candidates)} : n <= m
  BY <1>1, WindowAssumption
<1>3. /\ WindowSize \in {CHUNK_DOWNLOAD_WINDOW, Len(candidates)}
      /\ WindowSize <= Len(candidates)
  BY <1>2 DEF WindowSize, Min
<1>4. QED
  BY <1>1, <1>3, WindowAssumption

(* The selected volume is the one being assembled, once there is one.       *)
LEMMA SelectionStays ==
  ASSUME SweepInv, active_volume # NoVolume, NEW objects
  PROVE  select_volume_start(objects) = active_volume.started
<1>1. active_volume \in Volume
  BY DEF SweepInv, AssemblerInv, AssemblerTypeOK
<1>2. active_volume.started # 0
  BY <1>1, VolumesAreReal
<1>3. QED
  BY <1>2 DEF SweepInv, OneVolumeIsSelected, select_volume_start

LEMMA ListingKeeps ==
  ASSUME SweepInv, pollListed
  PROVE  SweepInv'
<1> DEFINE started == select_volume_start(uploaded)
           fresh   == {o \in uploaded : o.volume.started = started} \ downloaded_objects
<1>1. /\ phase = "listing" /\ selected_started_at' = started
      /\ candidates' \in InSequence(fresh)
      /\ phase' = IF fresh = {} THEN PollEnds ELSE "downloading"
      /\ error' = error
      /\ UNCHANGED <<assemblerVars, providerVars, downloaded, downloaded_objects,
                     decodeVars, token_current, reached>>
  BY DEF pollListed, Await
<1>2. fresh \subseteq Chunk /\ IsFiniteSet(fresh)
  <2>1. fresh \subseteq uploaded
    OBVIOUS
  <2> HIDE DEF fresh
  <2>2. QED
    BY <2>1, FS_Subset, ObjectAssumption DEF SweepInv, SweepTypeOK
<1>3. \A o \in fresh : o.volume.started = started
  OBVIOUS
<1>4. active_volume # NoVolume => active_volume.started = started
  BY SelectionStays
<1> HIDE DEF fresh, started
<1>5. /\ candidates' \in Seq(Chunk) /\ (fresh # {} => candidates' # <<>>)
      /\ \A i \in 1 .. Len(candidates') : candidates'[i] \in fresh
  BY <1>1, <1>2, ListingIsFresh
<1>6. /\ phase' \in {"downloading", "completing", "sleeping"}
      /\ phase' = "downloading" => candidates' # <<>>
      /\ phase' = "completing" => published_through # 0
  BY <1>1, <1>5 DEF PollEnds
<1>7. boundaries = <<>> /\ group = <<>> /\ error = "none" /\ phase \notin Ended
  BY <1>1, NothingPends DEF Ended
<1>8. SweepTypeOK'
  BY <1>1, <1>5, SameTypes DEF SweepInv, SweepTypeOK
<1>9. OneVolumeIsSelected'
  BY <1>1, <1>3, <1>4, <1>5 DEF OneVolumeIsSelected, assemblerVars
<1>10. WorkIsThere'
  BY <1>1, <1>6 DEF WorkIsThere, decodeVars
<1>11. FailuresEnd' /\ FailureKeepsSafeSweep'
  BY <1>1, <1>7 DEF FailuresEnd, FailureKeepsSafeSweep
<1>12. /\ AssemblerInv' /\ PendingIsReached' /\ PendingIsAwaited' /\ TriedInVain'
       /\ PrefixIsCaptured' /\ AsTryingEachInTurn'
  BY <1>1, <1>6, <1>7, MovingOnKeeps DEF providerVars
<1>13. QED
  BY <1>8, <1>9, <1>10, <1>11, <1>12 DEF SweepInv

LEMMA DownloadingKeeps ==
  ASSUME SweepInv, windowDownloaded
  PROVE  SweepInv'
<1>1. /\ phase = "downloading" /\ phase' = "ingesting" /\ error' = error
      /\ downloaded' \in [1 .. WindowSize -> Results]
      /\ UNCHANGED <<providerVars, selected_started_at, candidates, downloaded_objects,
                     decodeVars, assemblerVars, token_current, reached>>
  BY DEF windowDownloaded, Await, Results
<1>2. Len(candidates) \in Nat /\ WindowSize \in 1 .. Len(candidates)
  <2>1. Len(candidates) \in Nat
    BY LenProperties DEF SweepInv, SweepTypeOK
  <2>2. QED
    BY <1>1, <2>1, WindowIsSome DEF SweepInv, WorkIsThere
<1>3. downloaded' \in Seq(Results) /\ Len(downloaded') = WindowSize
  <2> DEFINE n == WindowSize
  <2>1. n \in Nat /\ downloaded' \in [1 .. n -> Results]
    BY <1>1, <1>2
  <2> HIDE DEF n
  <2>2. downloaded' \in Seq(Results) /\ Len(downloaded') = n
    BY <2>1, SeqDef
  <2>3. QED
    BY <2>2 DEF n
<1>4. downloaded' # <<>> /\ Len(downloaded') <= Len(candidates')
  BY <1>1, <1>2, <1>3, EmptySeq
<1>5. boundaries = <<>> /\ group = <<>> /\ error = "none" /\ phase \notin Ended
  BY <1>1, NothingPends DEF Ended
<1>6. SweepTypeOK'
  BY <1>1, <1>3, SameTypes DEF SweepInv, SweepTypeOK
<1>7. OneVolumeIsSelected'
  BY <1>1 DEF SweepInv, OneVolumeIsSelected, assemblerVars
<1>8. WorkIsThere' /\ FailuresEnd' /\ FailureKeepsSafeSweep'
  BY <1>1, <1>4, <1>5 DEF WorkIsThere, FailuresEnd, FailureKeepsSafeSweep
<1>9. /\ AssemblerInv' /\ PendingIsReached' /\ PendingIsAwaited' /\ TriedInVain'
      /\ PrefixIsCaptured' /\ AsTryingEachInTurn'
  BY <1>1, <1>5, MovingOnKeeps DEF providerVars
<1>10. QED
  BY <1>6, <1>7, <1>8, <1>9 DEF SweepInv

(* Polling begins, waiting for the complete volume begins, and ends.        *)
LEMMA WaitingKeeps ==
  ASSUME SweepInv, pollBegins \/ waitForComplete \/ completeDecoded
  PROVE  SweepInv'
<1>1. CASE completeDecoded /\ (Fail("decode") \/ Fail("stale"))
  BY <1>1, FailingKeeps DEF completeDecoded, Ended
<1>2. CASE pollBegins \/ waitForComplete \/ (completeDecoded /\ Await("complete"))
  <2>1. /\ phase \in {"sleeping", "published", "completing"}
        /\ phase' \in {"listing", "sleeping", "complete"}
        /\ phase' = "complete" => phase = "completing"
        /\ error' = error
        /\ UNCHANGED <<providerVars, pollVars, decodeVars, assemblerVars, token_current, reached>>
    BY <1>2 DEF pollBegins, waitForComplete, completeDecoded, Await
  <2>2. boundaries = <<>> /\ group = <<>> /\ error = "none" /\ phase \notin Ended
    BY <2>1, NothingPends DEF Ended
  <2>3. SweepTypeOK'
    BY <2>1, SameTypes DEF SweepInv, SweepTypeOK, pollVars
  <2>4. OneVolumeIsSelected' /\ WorkIsThere' /\ FailuresEnd' /\ FailureKeepsSafeSweep'
    BY <2>1, <2>2 DEF SweepInv, OneVolumeIsSelected, WorkIsThere, FailuresEnd,
       FailureKeepsSafeSweep, pollVars, assemblerVars, decodeVars
  <2>5. /\ AssemblerInv' /\ PendingIsReached' /\ PendingIsAwaited' /\ TriedInVain'
        /\ PrefixIsCaptured' /\ AsTryingEachInTurn'
    BY <2>1, <2>2, MovingOnKeeps DEF providerVars
  <2>6. QED
    BY <2>3, <2>4, <2>5 DEF SweepInv
<1>3. QED
  BY <1>1, <1>2 DEF completeDecoded

(* ------------------------------- ingesting ------------------------------ *)

(* Decoding takes up what is reached and not yet tried.                     *)
LEMMA DecodingBegins ==
  ASSUME NEW bs, IsList(bs), bs # <<>>, NEW failure, startDecodes(bs, failure),
         published_through' = 0, decoder_attempts' \in Nat,
         Len(reached') = decoder_attempts' + Len(bs),
         \A i \in 1 .. Len(bs) : reached'[decoder_attempts' + i] = bs[i]
  PROVE  /\ phase' = "decoding" /\ error' = error /\ rescued' = failure
         /\ group' # <<>> /\ IsList(group)' /\ IsList(boundaries)'
         /\ PendingIsReached' /\ PendingIsAwaited'
<1>1. /\ phase' = "decoding" /\ error' = error /\ rescued' = failure
      /\ IsList(group)' /\ IsList(boundaries)' /\ group' # <<>>
      /\ Len(group') \in Nat /\ Len(boundaries') \in Nat
      /\ Len(group') + Len(boundaries') = Len(bs)
      /\ \A i \in 1 .. Len(group') : group'[i] = bs[i]
      /\ \A i \in 1 .. Len(boundaries') : boundaries'[i] = bs[Len(group') + i]
  BY DecodesInOrder
<1>0. Len(bs) \in Nat
  BY ListShrinks
<1>2. Len(reached') = decoder_attempts' + Len(group') + Len(boundaries')
  <2>1. decoder_attempts' + (Len(group') + Len(boundaries'))
          = decoder_attempts' + Len(group') + Len(boundaries')
    BY <1>1
  <2>2. QED
    BY <1>1, <2>1
<1>3. \A i \in 1 .. Len(group') : reached'[decoder_attempts' + i] = group'[i]
  <2>1. 1 .. Len(group') \subseteq 1 .. Len(bs)
    BY <1>0, <1>1
  <2>2. QED
    BY <1>1, <2>1
<1>4. ASSUME NEW i \in 1 .. Len(boundaries')
      PROVE  reached'[decoder_attempts' + Len(group') + i] = boundaries'[i]
  <2>1. Len(group') + i \in 1 .. Len(bs)
    BY <1>1
  <2>2. reached'[decoder_attempts' + (Len(group') + i)] = bs[Len(group') + i]
    BY <2>1
  <2>3. decoder_attempts' + (Len(group') + i) = decoder_attempts' + Len(group') + i
    BY <1>1
  <2>4. QED
    BY <1>1, <2>2, <2>3
<1>5. PendingIsReached'
  BY <1>2, <1>3, <1>4 DEF PendingIsReached
<1>6. PendingIsAwaited'
  BY <1>1 DEF PendingIsAwaited
<1>7. QED
  BY <1>1, <1>5, <1>6

(* In a window nothing is being decoded: what is reached and not yet tried  *)
(* waits.                                                                   *)
LEMMA WindowPends ==
  ASSUME SweepInv, phase = "ingesting"
  PROVE  /\ error = "none" /\ group = <<>> /\ candidates # <<>> /\ downloaded # <<>>
         /\ published_through # 0 => boundaries = <<>>
         /\ decoder_attempts \in Nat /\ Len(boundaries) \in Nat
         /\ published_through = 0 =>
              /\ Len(reached) = decoder_attempts + Len(boundaries)
              /\ \A i \in 1 .. Len(boundaries) : reached[decoder_attempts + i] = boundaries[i]
              /\ \A i \in 1 .. decoder_attempts : DecodeOf(reached[i]) = "incomplete"
<1>1. /\ error = "none" /\ group = <<>> /\ (published_through # 0 => boundaries = <<>>)
      /\ downloaded # <<>> /\ Len(downloaded) <= Len(candidates)
  BY DEF SweepInv, FailuresEnd, PendingIsAwaited, WorkIsThere, Ended
<1>2. decoder_attempts \in Nat /\ Len(boundaries) \in Nat
  BY LenProperties DEF SweepInv, SweepTypeOK, IsList
<1>3. candidates # <<>>
  <2>1. Len(downloaded) \in Nat /\ Len(downloaded) # 0
    BY <1>1, LenProperties, EmptySeq DEF SweepInv, SweepTypeOK
  <2>2. QED
    BY <1>1, <2>1, EmptySeq
<1>4. ASSUME published_through = 0
      PROVE  /\ Len(reached) = decoder_attempts + Len(boundaries)
             /\ \A i \in 1 .. Len(boundaries) : reached[decoder_attempts + i] = boundaries[i]
             /\ \A i \in 1 .. decoder_attempts : DecodeOf(reached[i]) = "incomplete"
  <2>1. Len(group) = 0
    BY <1>1, NothingListed
  <2>2. /\ Len(reached) = decoder_attempts + Len(group) + Len(boundaries)
        /\ \A i \in 1 .. Len(boundaries) :
             reached[decoder_attempts + Len(group) + i] = boundaries[i]
    BY <1>4 DEF SweepInv, PendingIsReached, Ended
  <2>3. \A i \in 1 .. decoder_attempts : DecodeOf(reached[i]) = "incomplete"
    BY <1>4 DEF SweepInv, TriedInVain, Ended
  <2>4. decoder_attempts + Len(group) = decoder_attempts
    BY <1>2, <2>1
  <2>5. QED
    BY <2>2, <2>3, <2>4
<1>5. QED
  BY <1>1, <1>2, <1>3, <1>4

(* A chunk that fails leaves the prefixes in front of it to be tried; the   *)
(* session fails at once only when there are none, or it is stale anyway.   *)
LEMMA FailedChunkKeeps ==
  ASSUME SweepInv, AssemblerInv', phase = "ingesting",
         NEW why \in {"download", "assembly"}, chunkFails(why),
         UNCHANGED <<providerVars, selected_started_at, active_volume, chunks, token_current,
                     decoder_attempts, published_through, reached>>
  PROVE  SweepInv'
<1>1. candidates' = <<>> /\ downloaded' = <<>>
  BY DEF chunkFails
<1>2. UNCHANGED <<uploaded, first_safe, first_malformed>>
  BY DEF providerVars
<1>3. OneVolumeIsSelected'
  BY <1>1 DEF SweepInv, OneVolumeIsSelected
<1>4. PrefixIsCaptured'
  <2>1. contiguous_through' = contiguous_through
    BY DEF contiguous_through, ContiguousThrough
  <2>2. QED
    BY <2>1 DEF SweepInv, PrefixIsCaptured, Last
<1>5. AsTryingEachInTurn'
  BY <1>2 DEF SweepInv, AsTryingEachInTurn, DecodeOf
<1>6. SUFFICES SweepTypeOK' /\ WorkIsThere' /\ FailuresEnd' /\ PendingIsReached'
               /\ PendingIsAwaited' /\ TriedInVain' /\ FailureKeepsSafeSweep'
  BY <1>3, <1>4, <1>5 DEF SweepInv
<1>7. SUFFICES ASSUME IsList(boundaries'), IsList(group'), rescued' \in {"none", why}
               PROVE  WorkIsThere' /\ FailuresEnd' /\ PendingIsReached'
                      /\ PendingIsAwaited' /\ TriedInVain' /\ FailureKeepsSafeSweep'
  <2>1. IsList(boundaries') /\ IsList(group') /\ rescued' \in {"none", why}
    <3>1. CASE startDecodes(boundaries, why) /\ boundaries # <<>>
      BY <3>1, DecodesInOrder DEF SweepInv, SweepTypeOK, IsList
    <3>2. CASE noDecodes
      BY <3>2, NothingListed DEF noDecodes
    <3>3. QED
      BY <3>1, <3>2 DEF chunkFails
  <2>2. SweepTypeOK'
    BY <1>1, <1>2, <2>1 DEF SweepInv, SweepTypeOK, IsList
  <2>3. QED
    BY <2>1, <2>2
<1>8. CASE token_current /\ boundaries # <<>>
  <2>1. startDecodes(boundaries, why) /\ published_through = 0
    BY <1>8, WindowPends DEF chunkFails
  <2>2. IsList(boundaries)
    BY DEF SweepInv, SweepTypeOK
  <2>3. /\ phase' = "decoding" /\ error' = "none" /\ group' # <<>>
        /\ PendingIsReached' /\ PendingIsAwaited'
    BY <1>8, <2>1, <2>2, WindowPends, DecodingBegins
  <2>4. TriedInVain'
    BY <1>2, <2>1, WindowPends DEF TriedInVain, DecodeOf
  <2>5. WorkIsThere' /\ FailuresEnd' /\ FailureKeepsSafeSweep'
    BY <2>3 DEF WorkIsThere, FailuresEnd, FailureKeepsSafeSweep
  <2>6. QED
    BY <2>3, <2>4, <2>5
<1>9. CASE ~ (token_current /\ boundaries # <<>>)
  <2>1. phase' = "failed" /\ boundaries' = <<>> /\ group' = <<>>
    BY <1>9 DEF chunkFails, Fail, noDecodes
  <2>2. WorkIsThere' /\ FailuresEnd' /\ PendingIsReached' /\ PendingIsAwaited' /\ TriedInVain'
    BY <2>1 DEF WorkIsThere, FailuresEnd, PendingIsReached, PendingIsAwaited, TriedInVain, Ended
  <2>3. FailureKeepsSafeSweep'
    <3>1. SUFFICES ASSUME token_current, published_through = 0
                   PROVE  \A i \in 1 .. Len(reached) : DecodeOf(reached[i]) # "safe"
      BY <1>2 DEF FailureKeepsSafeSweep, DecodeOf
    <3>2. Len(boundaries) = 0
      BY <1>9, <3>1, NothingListed
    <3>3. Len(reached) = decoder_attempts
      BY <3>1, <3>2, WindowPends
    <3>4. QED
      BY <3>1, <3>3, WindowPends
  <2>4. QED
    BY <2>2, <2>3
<1>10. QED
  BY <1>8, <1>9

(* The chunk under ingestion is one of the provider's, of the volume        *)
(* selected.                                                                *)
LEMMA HeadIsSelected ==
  ASSUME SweepInv, candidates # <<>>
  PROVE  /\ Head(candidates) \in Chunk /\ Head(candidates).volume.started = selected_started_at
         /\ Tail(candidates) \in Seq(Chunk) /\ Len(Tail(candidates)) = Len(candidates) - 1
         /\ \A i \in 1 .. Len(Tail(candidates)) :
              Tail(candidates)[i].volume.started = selected_started_at
<1>1. /\ Head(candidates) \in Chunk /\ Tail(candidates) \in Seq(Chunk)
      /\ Len(Tail(candidates)) = Len(candidates) - 1
      /\ \A i \in 1 .. Len(Tail(candidates)) : Tail(candidates)[i] = candidates[i + 1]
  BY HeadTailProperties DEF SweepInv, SweepTypeOK
<1>2. Len(candidates) \in Nat /\ Len(candidates) # 0
  BY LenProperties, EmptySeq DEF SweepInv, SweepTypeOK
<1>3. Head(candidates) = candidates[1]
  OBVIOUS
<1>4. QED
  BY <1>1, <1>2, <1>3 DEF SweepInv, OneVolumeIsSelected

LEMMA FailedChunksKeep ==
  ASSUME SweepInv, downloadFailed \/ ingestRefused
  PROVE  SweepInv'
<1>1. CASE downloadFailed
  <2>1. AssemblerInv'
    BY <1>1, AssemblerSteps DEF downloadFailed, SweepInv
  <2>2. /\ phase = "ingesting" /\ chunkFails("download")
        /\ UNCHANGED <<providerVars, selected_started_at, active_volume, chunks, token_current,
                       decoder_attempts, published_through, reached>>
    BY <1>1 DEF downloadFailed, assemblerVars
  <2>3. QED
    BY <2>1, <2>2, FailedChunkKeeps
<1>2. CASE ingestRefused
  <2>1. /\ phase = "ingesting" /\ chunkFails("assembly")
        /\ UNCHANGED <<providerVars, selected_started_at, token_current,
                       decoder_attempts, published_through, reached>>
        /\ refuseTooLarge(Head(candidates)) \/ UNCHANGED assemblerVars
    BY <1>2 DEF ingestRefused
  <2>2. Head(candidates) \in Chunk
    BY <2>1, WindowPends, HeadIsSelected
  <2>3. AssemblerInv' /\ UNCHANGED <<active_volume, chunks>>
    <3>1. [AssemblerNext]_assemblerVars
      BY <2>1, <2>2 DEF AssemblerNext, ingest
    <3>2. QED
      BY <2>1, <3>1, AssemblerSteps DEF SweepInv, refuseTooLarge, assemblerVars
  <2>4. QED
    BY <2>1, <2>3, FailedChunkKeeps
<1>3. QED
  BY <1>1, <1>2

(* Only chunks of the selected volume arrive, so the assembler never rolls  *)
(* over under the session: what it holds only grows.                        *)
LEMMA VolumeIsKept ==
  ASSUME SweepInv, NEW c \in Chunk, c.volume.started = selected_started_at,
         openVolume(c) \/ storeChunk(c)
  PROVE  /\ active_volume' = c.volume /\ DOMAIN chunks \subseteq DOMAIN chunks'
         /\ active_volume = NoVolume => contiguous_through = 0 /\ 1 \in DOMAIN chunks'
<1>1. AssemblerInv /\ c.volume \in Volume /\ active_volume \in Volume \cup {NoVolume}
  BY DEF SweepInv, AssemblerInv, AssemblerTypeOK, Chunk
<1>2. active_volume = NoVolume => DOMAIN chunks = {} /\ contiguous_through = 0
  BY <1>1, NothingIsHeld
<1>3. CASE openVolume(c)
  <2>1. active_volume = NoVolume
    <3>1. SUFFICES ASSUME active_volume # NoVolume PROVE FALSE
      OBVIOUS
    <3>2. active_volume.started = c.volume.started /\ c.volume.started \in Nat
      BY <1>1, <3>1, VolumesAreReal DEF SweepInv, OneVolumeIsSelected
    <3>3. c.volume.started > active_volume.started
      BY <1>3, <3>1 DEF openVolume, OpensVolume
    <3>4. QED
      BY <3>2, <3>3
  <2>2. active_volume' = c.volume /\ DOMAIN chunks' = {1}
    BY <1>3 DEF openVolume
  <2>3. QED
    BY <1>2, <2>1, <2>2
<1>4. CASE storeChunk(c)
  <2>1. active_volume' = c.volume /\ DOMAIN chunks \subseteq DOMAIN chunks'
        /\ active_volume = c.volume
    BY <1>4 DEF storeChunk, Acceptable
  <2>2. active_volume # NoVolume
    BY <1>1, <2>1, VolumesAreReal
  <2>3. QED
    BY <2>1, <2>2
<1>5. QED
  BY <1>3, <1>4

(* An accepted chunk captures the prefix it reaches, if it reaches one.     *)
LEMMA PrefixIsAdded ==
  ASSUME SweepInv, phase = "ingesting", NEW c \in Chunk,
         c.volume.started = selected_started_at, openVolume(c) \/ storeChunk(c),
         reached' = reached \o safe_decode_boundary
  PROVE  LET captured == boundaries \o safe_decode_boundary
         IN  /\ AssemblerInv' /\ IsList(captured) /\ IsList(reached')
             /\ active_volume' = c.volume
             /\ published_through # 0 => captured = <<>> /\ reached' = reached
             /\ published_through = 0 =>
                  /\ Len(reached') = decoder_attempts + Len(captured)
                  /\ \A i \in 1 .. Len(captured) : reached'[decoder_attempts + i] = captured[i]
                  /\ \A i \in 1 .. decoder_attempts : reached'[i] = reached[i]
                  /\ reached' # <<>> /\ Last(reached').through = contiguous_through'
             /\ \A i \in 1 .. Len(reached') : reached'[i].through \in Sequence
<1> DEFINE b == [through |-> contiguous_through', input_bytes |-> contiguous_byte_len']
           captured == boundaries \o safe_decode_boundary
<1>1. AssemblerInv' /\ AssemblerTypeOK /\ AssemblerTypeOK'
  <2>1. AssemblerNext
    BY DEF AssemblerNext, ingest
  <2>2. AssemblerInv'
    BY <2>1, AssemblerSteps DEF SweepInv
  <2>3. QED
    BY <2>2 DEF SweepInv, AssemblerInv
<1>2. /\ active_volume' = c.volume
      /\ contiguous_through \in Nat /\ contiguous_through' \in 0 .. MAX_REALTIME_CHUNKS
      /\ contiguous_through <= contiguous_through'
  BY <1>1, VolumeIsKept, PrefixGrows
<1>3. active_volume = NoVolume => contiguous_through = 0 /\ contiguous_through' # 0
  BY <1>1, VolumeIsKept, StartIsPrefix
<1>4. IsList(boundaries) /\ IsList(reached)
  BY DEF SweepInv, SweepTypeOK
<1>5. \A i \in 1 .. Len(reached) : reached[i].through \in Sequence
  BY DEF SweepInv, PrefixIsCaptured
<1>6. CASE published_through = 0 /\ contiguous_through' > contiguous_through
  <2>1. captured = boundaries \o <<b>> /\ reached' = reached \o <<b>>
    BY <1>6 DEF safe_decode_boundary, attempt_safe_decode
  <2>2. b.through = contiguous_through' /\ b.through \in Sequence
    BY <1>2, <1>6, LimitAssumption DEF Sequence
  <2> HIDE DEF b, captured
  <2>3. /\ IsList(captured) /\ Len(captured) = Len(boundaries) + 1
        /\ \A i \in 1 .. Len(boundaries) : captured[i] = boundaries[i]
        /\ captured[Len(boundaries) + 1] = b
    BY <1>4, <2>1, ListGrows
  <2>4. /\ IsList(reached') /\ Len(reached') = Len(reached) + 1 /\ Len(reached) \in Nat
        /\ \A i \in 1 .. Len(reached) : reached'[i] = reached[i]
        /\ reached'[Len(reached) + 1] = b
    BY <1>4, <2>1, ListGrows
  <2>5. /\ decoder_attempts \in Nat /\ Len(boundaries) \in Nat
        /\ Len(reached) = decoder_attempts + Len(boundaries)
        /\ \A i \in 1 .. Len(boundaries) : reached[decoder_attempts + i] = boundaries[i]
    BY <1>6, WindowPends
  <2>6. Len(reached') = decoder_attempts + Len(captured)
    BY <2>3, <2>4, <2>5
  <2>7. ASSUME NEW i \in 1 .. Len(captured)
        PROVE  reached'[decoder_attempts + i] = captured[i]
    <3>1. CASE i \in 1 .. Len(boundaries)
      <4>1. decoder_attempts + i \in 1 .. Len(reached)
        BY <2>5, <3>1
      <4>2. QED
        BY <2>3, <2>4, <2>5, <3>1, <4>1
    <3>2. CASE i = Len(boundaries) + 1
      <4>1. decoder_attempts + i = Len(reached) + 1
        BY <2>5, <3>2
      <4>2. QED
        BY <2>3, <2>4, <3>2, <4>1
    <3>3. i \in 1 .. Len(boundaries) \/ i = Len(boundaries) + 1
      BY <2>3, <2>5
    <3>4. QED
      BY <3>1, <3>2, <3>3
  <2>8. \A i \in 1 .. decoder_attempts : reached'[i] = reached[i]
    BY <2>4, <2>5
  <2>9. reached' # <<>> /\ Last(reached').through = contiguous_through'
    <3>1. reached' # <<>>
      BY <2>4, NothingListed
    <3>2. Last(reached') = b
      BY <2>4 DEF Last
    <3>3. QED
      BY <2>2, <3>1, <3>2
  <2>10. \A i \in 1 .. Len(reached') : reached'[i].through \in Sequence
    BY <1>5, <2>2, <2>4
  <2>11. QED
    BY <1>1, <1>2, <1>6, <2>3, <2>4, <2>6, <2>7, <2>8, <2>9, <2>10 DEF captured
<1>7. CASE ~ (published_through = 0 /\ contiguous_through' > contiguous_through)
  <2>1. captured = boundaries /\ reached' = reached
    BY <1>4, <1>7, ListStays DEF safe_decode_boundary, attempt_safe_decode
  <2> HIDE DEF captured
  <2>2. published_through # 0 => captured = <<>>
    BY <2>1, WindowPends
  <2>3. published_through = 0 =>
          /\ Len(reached') = decoder_attempts + Len(captured)
          /\ \A i \in 1 .. Len(captured) : reached'[decoder_attempts + i] = captured[i]
          /\ \A i \in 1 .. decoder_attempts : reached'[i] = reached[i]
    BY <2>1, WindowPends
  <2>4. published_through = 0 =>
          reached' # <<>> /\ Last(reached').through = contiguous_through'
    <3>1. SUFFICES ASSUME published_through = 0
                   PROVE  reached' # <<>> /\ Last(reached').through = contiguous_through'
      OBVIOUS
    <3>2. contiguous_through' = contiguous_through
      BY <1>2, <1>7, <3>1, LimitAssumption
    <3>3. active_volume # NoVolume
      BY <1>3, <3>2
    <3>4. reached # <<>> /\ Last(reached).through = contiguous_through
      BY <3>1, <3>3 DEF SweepInv, PrefixIsCaptured
    <3>5. QED
      BY <2>1, <3>2, <3>4
  <2>5. QED
    BY <1>1, <1>2, <1>4, <1>5, <2>1, <2>2, <2>3, <2>4 DEF captured
<1>8. QED
  BY <1>6, <1>7

LEMMA AcceptedChunkKeeps ==
  ASSUME SweepInv, ingestAccepted
  PROVE  SweepInv'
<1> DEFINE c == Head(candidates)
           captured == boundaries \o safe_decode_boundary
<1>1. /\ phase = "ingesting" /\ (openVolume(c) \/ storeChunk(c))
      /\ candidates' = Tail(candidates) /\ downloaded' = Tail(downloaded)
      /\ reached' = reached \o safe_decode_boundary
      /\ UNCHANGED <<providerVars, selected_started_at, token_current,
                     decoder_attempts, published_through>>
  BY DEF ingestAccepted
<1>2. \/ /\ captured # <<>> /\ startDecodes(captured, "none")
      \/ /\ Tail(downloaded) = <<>> => captured = <<>>
         /\ boundaries' = captured /\ UNCHANGED <<group, finished, rescued, error>>
         /\ IF Tail(downloaded) = <<>> THEN AfterWindow(Tail(candidates)) ELSE Await("ingesting")
  BY DEF ingestAccepted, AfterWindow, Await
<1>3. UNCHANGED <<uploaded, first_safe, first_malformed>>
  BY <1>1 DEF providerVars
<1>4. /\ error = "none" /\ group = <<>> /\ candidates # <<>> /\ downloaded # <<>>
      /\ decoder_attempts \in Nat
  BY <1>1, WindowPends
<1>5. /\ c \in Chunk /\ c.volume.started = selected_started_at
      /\ candidates' \in Seq(Chunk) /\ Len(candidates') = Len(candidates) - 1
      /\ \A i \in 1 .. Len(candidates') : candidates'[i].volume.started = selected_started_at
  BY <1>1, <1>4, HeadIsSelected
<1>6. downloaded' \in Seq(Results) /\ Len(downloaded') = Len(downloaded) - 1
  BY <1>1, <1>4, HeadTailProperties DEF SweepInv, SweepTypeOK
<1> HIDE DEF c
<1>7. /\ AssemblerInv' /\ IsList(captured) /\ IsList(reached')
      /\ active_volume' = c.volume
      /\ published_through # 0 => captured = <<>> /\ reached' = reached
      /\ published_through = 0 =>
           /\ Len(reached') = decoder_attempts + Len(captured)
           /\ \A i \in 1 .. Len(captured) : reached'[decoder_attempts + i] = captured[i]
           /\ \A i \in 1 .. decoder_attempts : reached'[i] = reached[i]
           /\ reached' # <<>> /\ Last(reached').through = contiguous_through'
      /\ \A i \in 1 .. Len(reached') : reached'[i].through \in Sequence
  BY <1>1, <1>5, PrefixIsAdded
<1> HIDE DEF captured
<1>8. OneVolumeIsSelected'
  BY <1>1, <1>5, <1>7 DEF OneVolumeIsSelected
<1>9. PrefixIsCaptured'
  BY <1>1, <1>7 DEF PrefixIsCaptured
<1>10. TriedInVain'
  <2>1. SUFFICES ASSUME published_through = 0, NEW i \in 1 .. decoder_attempts
                 PROVE  DecodeOf(reached[i])' = "incomplete"
    BY <1>1 DEF TriedInVain
  <2>2. DecodeOf(reached[i]) = "incomplete" /\ reached'[i] = reached[i]
    BY <1>1, <1>7, <2>1, WindowPends
  <2>3. QED
    BY <1>3, <2>2 DEF DecodeOf
<1>11. AsTryingEachInTurn'
  <2>1. SUFFICES ASSUME published_through # 0 PROVE AsTryingEachInTurn'
    BY <1>1 DEF AsTryingEachInTurn
  <2>2. reached' = reached
    BY <1>7, <2>1
  <2>3. QED
    BY <1>1, <1>3, <2>2 DEF SweepInv, AsTryingEachInTurn, DecodeOf
<1>12. SUFFICES /\ IsList(boundaries') /\ IsList(group')
                /\ rescued' \in {"none", "download", "assembly"} /\ error' = "none"
                /\ WorkIsThere' /\ PendingIsReached' /\ PendingIsAwaited'
  <2>1. SUFFICES ASSUME IsList(boundaries'), IsList(group'), error' = "none",
                        rescued' \in {"none", "download", "assembly"}
                 PROVE  SweepTypeOK' /\ FailuresEnd' /\ FailureKeepsSafeSweep'
    BY <1>7, <1>8, <1>9, <1>10, <1>11 DEF SweepInv
  <2>2. SweepTypeOK'
    BY <1>1, <1>3, <1>5, <1>6, <1>7, <2>1 DEF SweepInv, SweepTypeOK, IsList
  <2>3. QED
    BY <2>1, <2>2 DEF FailuresEnd, FailureKeepsSafeSweep
<1>13. CASE captured # <<>> /\ startDecodes(captured, "none")
  <2>1. published_through = 0
    BY <1>7, <1>13
  <2>2. /\ phase' = "decoding" /\ error' = "none" /\ rescued' = "none"
        /\ group' # <<>> /\ IsList(group)' /\ IsList(boundaries)'
        /\ PendingIsReached' /\ PendingIsAwaited'
    BY <1>1, <1>4, <1>7, <1>13, <2>1, DecodingBegins
  <2>3. QED
    BY <2>2 DEF WorkIsThere, IsList
<1>14. CASE /\ Tail(downloaded) = <<>> => captured = <<>>
            /\ boundaries' = captured /\ UNCHANGED <<group, finished, rescued, error>>
            /\ IF Tail(downloaded) = <<>> THEN AfterWindow(Tail(candidates))
               ELSE Await("ingesting")
  <2>1. /\ IsList(boundaries') /\ IsList(group') /\ group' = <<>> /\ error' = "none"
        /\ rescued' \in {"none", "download", "assembly"} /\ boundaries' = captured
    BY <1>4, <1>7, <1>14, NothingListed DEF SweepInv, SweepTypeOK
  <2>2. PendingIsReached'
    <3>1. Len(group') = 0 /\ Len(captured) \in Nat
      BY <1>7, <2>1, NothingListed, LenProperties DEF IsList
    <3>2. published_through = 0 =>
            /\ Len(reached') = decoder_attempts + Len(group') + Len(captured)
            /\ \A i \in 1 .. Len(captured) :
                 reached'[decoder_attempts + Len(group') + i] = captured[i]
      <4>1. decoder_attempts + Len(group') = decoder_attempts
        BY <1>4, <3>1
      <4>2. QED
        BY <1>7, <4>1
    <3>3. 1 .. Len(group') = {}
      BY <3>1
    <3>4. QED
      BY <1>1, <2>1, <3>2, <3>3 DEF PendingIsReached
  <2>3. CASE Tail(downloaded) = <<>>
    <3>1. captured = <<>> /\ phase' = IF candidates' # <<>> THEN "downloading" ELSE PollEnds
      BY <1>1, <1>14, <2>3 DEF AfterWindow, Await
    <3>2. /\ phase' \in {"downloading", "completing", "sleeping"}
          /\ phase' = "downloading" => candidates' # <<>>
          /\ phase' = "completing" => published_through # 0
      BY <3>1 DEF PollEnds
    <3>3. WorkIsThere' /\ PendingIsAwaited'
      BY <1>1, <2>1, <3>1, <3>2 DEF WorkIsThere, PendingIsAwaited
    <3>4. QED
      BY <2>1, <2>2, <3>3
  <2>4. CASE Tail(downloaded) # <<>>
    <3>1. phase' = "ingesting" /\ downloaded' # <<>>
      BY <1>1, <1>14, <2>4 DEF Await
    <3>2. Len(downloaded') <= Len(candidates')
      <4>1. Len(downloaded) <= Len(candidates)
        BY <1>1 DEF SweepInv, WorkIsThere
      <4>2. Len(downloaded) \in Nat /\ Len(candidates) \in Nat
        BY LenProperties DEF SweepInv, SweepTypeOK
      <4>3. QED
        BY <1>5, <1>6, <4>1, <4>2
    <3>3. WorkIsThere' /\ PendingIsAwaited'
      BY <1>1, <1>7, <2>1, <3>1, <3>2 DEF WorkIsThere, PendingIsAwaited
    <3>4. QED
      BY <2>1, <2>2, <3>3
  <2>5. QED
    BY <2>3, <2>4
<1>15. QED
  BY <1>2, <1>13, <1>14

(* ------------------------------- decoding ------------------------------- *)

(* The answer that is read next is that of the next prefix reached.         *)
LEMMA NextAnswerIsNext ==
  ASSUME SweepInv, phase = "decoding"
  PROVE  /\ published_through = 0 /\ error = "none" /\ group # <<>>
         /\ decoder_attempts \in Nat /\ Len(reached) \in Nat /\ Len(boundaries) \in Nat
         /\ decoder_attempts + 1 \in 1 .. Len(reached)
         /\ Head(group) = reached[decoder_attempts + 1]
         /\ \A i \in 1 .. decoder_attempts : DecodeOf(reached[i]) = "incomplete"
         /\ IsList(Tail(group)) /\ Len(Tail(group)) \in Nat
         /\ Len(reached) = decoder_attempts + 1 + Len(Tail(group)) + Len(boundaries)
         /\ \A i \in 1 .. Len(Tail(group)) : reached[decoder_attempts + 1 + i] = Tail(group)[i]
         /\ \A i \in 1 .. Len(boundaries) :
              reached[decoder_attempts + 1 + Len(Tail(group)) + i] = boundaries[i]
<1>1. /\ published_through = 0 /\ error = "none" /\ group # <<>>
      /\ decoder_attempts \in Nat /\ IsList(group) /\ IsList(boundaries) /\ IsList(reached)
  BY DEF SweepInv, PendingIsAwaited, FailuresEnd, WorkIsThere, SweepTypeOK
<1>2. /\ IsList(Tail(group)) /\ Len(Tail(group)) = Len(group) - 1
      /\ Len(group) \in Nat \ {0} /\ Head(group) = group[1]
      /\ \A i \in 1 .. Len(group) - 1 : Tail(group)[i] = group[i + 1]
  BY <1>1, ListShrinks
<1>3. Len(boundaries) \in Nat /\ Len(reached) \in Nat
  BY <1>1, LenProperties DEF IsList
<1>4. /\ Len(reached) = decoder_attempts + Len(group) + Len(boundaries)
      /\ \A i \in 1 .. Len(group) : reached[decoder_attempts + i] = group[i]
      /\ \A i \in 1 .. Len(boundaries) :
           reached[decoder_attempts + Len(group) + i] = boundaries[i]
      /\ \A i \in 1 .. decoder_attempts : DecodeOf(reached[i]) = "incomplete"
  BY <1>1 DEF SweepInv, PendingIsReached, TriedInVain, Ended
<1>5. Head(group) = reached[decoder_attempts + 1]
  <2>1. 1 \in 1 .. Len(group)
    BY <1>2
  <2>2. QED
    BY <1>2, <1>4, <2>1
<1>6. ASSUME NEW i \in 1 .. Len(Tail(group))
      PROVE  reached[decoder_attempts + 1 + i] = Tail(group)[i]
  <2>1. i \in 1 .. Len(group) - 1 /\ i + 1 \in 1 .. Len(group)
    BY <1>2
  <2>2. reached[decoder_attempts + (i + 1)] = group[i + 1]
    BY <1>4, <2>1
  <2>3. decoder_attempts + (i + 1) = decoder_attempts + 1 + i
    BY <1>1, <2>1
  <2>4. QED
    BY <1>2, <2>1, <2>2, <2>3
<1>7. decoder_attempts + 1 + Len(Tail(group)) = decoder_attempts + Len(group)
  BY <1>1, <1>2
<1>8. /\ Len(reached) = decoder_attempts + 1 + Len(Tail(group)) + Len(boundaries)
      /\ \A i \in 1 .. Len(boundaries) :
           reached[decoder_attempts + 1 + Len(Tail(group)) + i] = boundaries[i]
  BY <1>4, <1>7
<1>9. decoder_attempts + 1 \in 1 .. Len(reached) /\ Len(Tail(group)) \in Nat
  BY <1>1, <1>2, <1>3, <1>4
<1>10. QED
  BY <1>1, <1>2, <1>3, <1>4, <1>5, <1>6, <1>8, <1>9

(* Reading an answer leaves the assembler and the prefixes alone.           *)
LEMMA ReadingKeeps ==
  ASSUME SweepInv, NEW is, readAnswer(is)
  PROVE  /\ phase = "decoding" /\ DecodeOf(reached[decoder_attempts + 1]) = is
         /\ decoder_attempts' = decoder_attempts + 1 /\ reached' = reached
         /\ token_current' = token_current /\ selected_started_at' = selected_started_at
         /\ UNCHANGED <<uploaded, first_safe, first_malformed>>
<1>1. /\ phase = "decoding" /\ DecodeOf(Head(group)) = is
      /\ decoder_attempts' = decoder_attempts + 1
      /\ UNCHANGED <<providerVars, selected_started_at, token_current, reached>>
  BY DEF readAnswer
<1>2. Head(group) = reached[decoder_attempts + 1]
  BY <1>1, NextAnswerIsNext
<1>3. QED
  BY <1>1, <1>2 DEF providerVars

(* A prefix that holds no safe sweep is done with.  When the last of those  *)
(* under way is, the next are decoded, or the session goes on to poll, or   *)
(* reports the chunk that failed: nothing is left that it might have tried. *)
LEMMA IncompleteKeeps ==
  ASSUME SweepInv, answerIncomplete
  PROVE  SweepInv'
<1>1. /\ phase = "decoding" /\ DecodeOf(reached[decoder_attempts + 1]) = "incomplete"
      /\ decoder_attempts' = decoder_attempts + 1 /\ reached' = reached
      /\ token_current' = token_current /\ selected_started_at' = selected_started_at
      /\ UNCHANGED <<uploaded, first_safe, first_malformed>>
  BY ReadingKeeps DEF answerIncomplete
<1>2. UNCHANGED <<assemblerVars, published_through, candidates, downloaded>>
  BY DEF answerIncomplete
<1>3. /\ published_through = 0 /\ error = "none" /\ decoder_attempts \in Nat
      /\ Len(boundaries) \in Nat /\ Len(Tail(group)) \in Nat /\ Len(reached) \in Nat
      /\ \A i \in 1 .. decoder_attempts : DecodeOf(reached[i]) = "incomplete"
      /\ IsList(Tail(group))
      /\ Len(reached) = decoder_attempts + 1 + Len(Tail(group)) + Len(boundaries)
      /\ \A i \in 1 .. Len(Tail(group)) : reached[decoder_attempts + 1 + i] = Tail(group)[i]
      /\ \A i \in 1 .. Len(boundaries) :
           reached[decoder_attempts + 1 + Len(Tail(group)) + i] = boundaries[i]
  BY <1>1, NextAnswerIsNext
<1>4. \A i \in 1 .. decoder_attempts' : DecodeOf(reached[i]) = "incomplete"
  <2>1. \A i \in 1 .. decoder_attempts' : i \in 1 .. decoder_attempts \/ i = decoder_attempts + 1
    BY <1>1, <1>3
  <2>2. QED
    BY <1>1, <1>3, <2>1
<1>5. AssemblerInv'
  BY <1>2, AssemblerSteps DEF SweepInv
<1>6. OneVolumeIsSelected'
  BY <1>1, <1>2 DEF SweepInv, OneVolumeIsSelected, assemblerVars
<1>7. PrefixIsCaptured'
  <2>1. contiguous_through' = contiguous_through
    BY <1>2 DEF contiguous_through, ContiguousThrough, assemblerVars
  <2>2. QED
    BY <1>1, <1>2, <2>1 DEF SweepInv, PrefixIsCaptured, Last, assemblerVars
<1>8. TriedInVain' /\ AsTryingEachInTurn'
  <2>1. TriedInVain'
    BY <1>1, <1>4 DEF TriedInVain, DecodeOf
  <2>2. QED
    BY <1>2, <1>3, <2>1 DEF AsTryingEachInTurn
<1>9. IsList(boundaries) /\ rescued \in {"none", "download", "assembly"}
  BY DEF SweepInv, SweepTypeOK
<1>10. SUFFICES /\ IsList(boundaries') /\ IsList(group')
                /\ rescued' \in {"none", "download", "assembly"}
                /\ WorkIsThere' /\ FailuresEnd' /\ FailureKeepsSafeSweep'
                /\ PendingIsReached' /\ PendingIsAwaited'
  <2>1. SUFFICES ASSUME IsList(boundaries'), IsList(group'),
                        rescued' \in {"none", "download", "assembly"}
                 PROVE  SweepTypeOK'
    BY <1>5, <1>6, <1>7, <1>8 DEF SweepInv
  <2>2. decoder_attempts' \in Nat
    BY <1>1, <1>3
  <2>3. QED
    BY <1>1, <1>2, <2>1, <2>2 DEF SweepInv, SweepTypeOK, IsList
<1>11. CASE Tail(group) # <<>>
  <2>1. /\ phase' = "decoding" /\ error' = "none" /\ group' = Tail(group)
        /\ UNCHANGED <<boundaries, rescued>>
    BY <1>3, <1>11 DEF answerIncomplete, Await
  <2>2. PendingIsReached' /\ PendingIsAwaited'
    BY <1>1, <1>2, <1>3, <2>1 DEF PendingIsReached, PendingIsAwaited
  <2>3. WorkIsThere' /\ FailuresEnd' /\ FailureKeepsSafeSweep'
    BY <1>11, <2>1 DEF WorkIsThere, FailuresEnd, FailureKeepsSafeSweep
  <2>4. QED
    BY <1>3, <1>9, <2>1, <2>2, <2>3
<1>12. CASE Tail(group) = <<>> /\ boundaries # <<>>
  <2>1. startDecodes(boundaries, rescued)
    BY <1>12 DEF answerIncomplete
  <2>2. decoder_attempts + 1 + Len(Tail(group)) = decoder_attempts'
    <3>1. Len(Tail(group)) = 0
      BY <1>12, NothingListed
    <3>2. decoder_attempts + 1 + 0 = decoder_attempts'
      BY <1>1, <1>3
    <3>3. QED
      BY <3>1, <3>2
  <2>3. /\ Len(reached') = decoder_attempts' + Len(boundaries)
        /\ \A i \in 1 .. Len(boundaries) : reached'[decoder_attempts' + i] = boundaries[i]
    BY <1>1, <1>3, <2>2
  <2>4. published_through' = 0 /\ decoder_attempts' \in Nat
    BY <1>1, <1>2, <1>3
  <2>5. /\ phase' = "decoding" /\ error' = "none" /\ rescued' = rescued
        /\ group' # <<>> /\ IsList(group)' /\ IsList(boundaries)'
        /\ PendingIsReached' /\ PendingIsAwaited'
    BY <1>3, <1>9, <1>12, <2>1, <2>3, <2>4, DecodingBegins
  <2>6. WorkIsThere' /\ FailuresEnd' /\ FailureKeepsSafeSweep'
    BY <2>5 DEF WorkIsThere, FailuresEnd, FailureKeepsSafeSweep
  <2>7. QED
    BY <1>9, <2>5, <2>6 DEF IsList
<1>13. CASE Tail(group) = <<>> /\ boundaries = <<>>
  <2>1. /\ boundaries' = <<>> /\ group' = <<>> /\ rescued' = "none"
        /\ IF rescued # "none" THEN Fail(rescued) ELSE AfterWindow(candidates)
    BY <1>13 DEF answerIncomplete, noDecodes
  <2>2. Len(reached) = decoder_attempts'
    <3>1. Len(Tail(group)) = 0 /\ Len(boundaries) = 0
      BY <1>13, NothingListed
    <3>2. Len(reached) = decoder_attempts + 1 + Len(Tail(group)) + Len(boundaries)
      BY <1>3
    <3>3. decoder_attempts + 1 + 0 + 0 = decoder_attempts'
      BY <1>1, <1>3
    <3>4. QED
      BY <3>1, <3>2, <3>3
  <2>3. IsList(boundaries') /\ IsList(group') /\ Len(boundaries') = 0 /\ Len(group') = 0
    BY <2>1, NothingListed
  <2>4. PendingIsReached'
    <3>1. decoder_attempts' + Len(group') + Len(boundaries') = decoder_attempts'
      BY <1>1, <1>3, <2>3
    <3>2. 1 .. Len(group') = {} /\ 1 .. Len(boundaries') = {}
      BY <2>3
    <3>3. QED
      BY <1>1, <2>2, <3>1, <3>2 DEF PendingIsReached
  <2>5. /\ phase' \in {"failed", "downloading", "sleeping"}
        /\ phase' # "failed" => error' = "none"
        /\ phase' = "downloading" => candidates' # <<>>
    BY <1>2, <1>3, <2>1 DEF Fail, AfterWindow, Await, PollEnds
  <2>6. WorkIsThere' /\ FailuresEnd' /\ PendingIsAwaited'
    BY <1>2, <1>3, <2>1, <2>5 DEF WorkIsThere, FailuresEnd, PendingIsAwaited
  <2>7. FailureKeepsSafeSweep'
    <3>1. \A i \in 1 .. Len(reached) : DecodeOf(reached[i]) # "safe"
      BY <1>4, <2>2
    <3>2. QED
      BY <1>1, <3>1 DEF FailureKeepsSafeSweep, DecodeOf
  <2>8. QED
    BY <2>1, <2>3, <2>4, <2>6, <2>7
<1>14. QED
  BY <1>11, <1>12, <1>13

(* A safe or a malformed prefix ends the trying.                            *)
LEMMA LastAnswerKeeps ==
  ASSUME SweepInv, answerMalformed \/ publish_safe_sweep
  PROVE  SweepInv'
<1>1. /\ phase = "decoding"
      /\ decoder_attempts' = decoder_attempts + 1 /\ reached' = reached
      /\ token_current' = token_current /\ selected_started_at' = selected_started_at
      /\ UNCHANGED <<uploaded, first_safe, first_malformed>>
  BY ReadingKeeps DEF answerMalformed, publish_safe_sweep
<1>2. /\ published_through = 0 /\ error = "none" /\ decoder_attempts \in Nat
      /\ decoder_attempts + 1 \in 1 .. Len(reached)
      /\ Head(group) = reached[decoder_attempts + 1]
      /\ \A i \in 1 .. decoder_attempts : DecodeOf(reached[i]) = "incomplete"
  BY <1>1, NextAnswerIsNext
<1>3. /\ boundaries' = <<>> /\ group' = <<>> /\ rescued' = "none"
      /\ candidates' = <<>> /\ downloaded' = <<>>
  BY DEF answerMalformed, publish_safe_sweep, noDecodes
<1>4. /\ UNCHANGED assemblerVars \/ mark_safe_sweep_published
      /\ UNCHANGED <<active_volume, chunks>>
  BY DEF answerMalformed, publish_safe_sweep, mark_safe_sweep_published, assemblerVars
<1>5. AssemblerInv'
  BY <1>4, AssemblerSteps DEF SweepInv, AssemblerNext
<1>6. SweepTypeOK'
  <2>1. /\ IsList(boundaries') /\ IsList(group') /\ decoder_attempts' \in Nat
        /\ candidates' \in Seq(Chunk) /\ downloaded' \in Seq(Results)
    BY <1>1, <1>2, <1>3, NothingListed, EmptySeq
  <2>2. QED
    BY <1>1, <1>3, <2>1 DEF SweepInv, SweepTypeOK, IsList
<1>7. OneVolumeIsSelected'
  BY <1>1, <1>3, <1>4 DEF SweepInv, OneVolumeIsSelected
<1>8. contiguous_through' = contiguous_through
  BY <1>4 DEF contiguous_through, ContiguousThrough
<1>9. CASE phase' = "failed" /\ error' \in {"decode", "stale"} /\ published_through' = 0
  <2>1. /\ WorkIsThere' /\ FailuresEnd' /\ PendingIsReached' /\ PendingIsAwaited'
        /\ TriedInVain' /\ AsTryingEachInTurn' /\ FailureKeepsSafeSweep'
    BY <1>3, <1>9 DEF WorkIsThere, FailuresEnd, PendingIsReached, PendingIsAwaited,
       TriedInVain, AsTryingEachInTurn, FailureKeepsSafeSweep, Ended
  <2>2. PrefixIsCaptured'
    BY <1>1, <1>2, <1>4, <1>8 DEF SweepInv, PrefixIsCaptured, Last
  <2>3. QED
    BY <1>5, <1>6, <1>7, <2>1, <2>2 DEF SweepInv
<1>10. CASE /\ phase' = "published" /\ error' = error
            /\ published_through' = Head(group).through
            /\ DecodeOf(reached[decoder_attempts + 1]) = "safe"
  <2>1. published_through' = reached[decoder_attempts + 1].through
    BY <1>2, <1>10
  <2>2. published_through' # 0
    <3>1. published_through' \in Sequence
      BY <1>2, <2>1 DEF SweepInv, PrefixIsCaptured
    <3>2. QED
      BY <3>1, LimitAssumption DEF Sequence
  <2>3. AsTryingEachInTurn'
    <3>1. /\ decoder_attempts' \in 1 .. Len(reached')
          /\ reached'[decoder_attempts'].through = published_through'
      BY <1>1, <1>2, <2>1
    <3>2. DecodeOf(reached'[decoder_attempts']) = "safe"
      BY <1>1, <1>10
    <3>3. \A i \in 1 .. decoder_attempts' - 1 : DecodeOf(reached'[i]) = "incomplete"
      BY <1>1, <1>2
    <3>4. QED
      BY <1>1, <3>1, <3>2, <3>3 DEF AsTryingEachInTurn, DecodeOf
  <2>4. /\ WorkIsThere' /\ FailuresEnd' /\ PendingIsReached' /\ PendingIsAwaited'
        /\ TriedInVain' /\ FailureKeepsSafeSweep'
    BY <1>2, <1>3, <1>10, <2>2 DEF WorkIsThere, FailuresEnd, PendingIsReached,
       PendingIsAwaited, TriedInVain, FailureKeepsSafeSweep
  <2>5. PrefixIsCaptured'
    BY <1>1, <2>2 DEF SweepInv, PrefixIsCaptured
  <2>6. QED
    BY <1>5, <1>6, <1>7, <2>3, <2>4, <2>5 DEF SweepInv
<1>11. CASE answerMalformed
  <2>1. phase' = "failed" /\ error' = "decode" /\ published_through' = 0
    BY <1>2, <1>11 DEF answerMalformed, Fail
  <2>2. QED
    BY <1>9, <2>1
<1>12. CASE publish_safe_sweep
  <2>1. DecodeOf(reached[decoder_attempts + 1]) = "safe"
    BY <1>12, ReadingKeeps DEF publish_safe_sweep
  <2>2. \/ phase' = "failed" /\ error' = "stale" /\ published_through' = 0
        \/ phase' = "published" /\ error' = error /\ published_through' = Head(group).through
    BY <1>2, <1>12 DEF publish_safe_sweep, Fail, Await
  <2>3. QED
    BY <1>9, <1>10, <2>1, <2>2
<1>13. QED
  BY <1>11, <1>12

(* A decoder that finishes only makes its answer readable.                  *)
LEMMA FinishingKeeps ==
  ASSUME SweepInv, NEW b, decoderFinishes(b)
  PROVE  SweepInv'
<1>1. UNCHANGED <<providerVars, pollVars, boundaries, group, rescued, decoder_attempts,
                  published_through, assemblerVars, token_current, phase, error, reached>>
  BY DEF decoderFinishes
<1>2. AssemblerInv'
  BY <1>1, AssemblerSteps DEF SweepInv
<1>3. contiguous_through' = contiguous_through
  BY <1>1 DEF contiguous_through, ContiguousThrough, assemblerVars
<1>4. SweepTypeOK' /\ OneVolumeIsSelected' /\ WorkIsThere' /\ FailuresEnd'
  BY <1>1 DEF SweepInv, SweepTypeOK, IsList, OneVolumeIsSelected, WorkIsThere, FailuresEnd,
     providerVars, pollVars, assemblerVars
<1>5. PendingIsReached' /\ PendingIsAwaited' /\ TriedInVain'
  BY <1>1 DEF SweepInv, PendingIsReached, PendingIsAwaited, TriedInVain, DecodeOf, providerVars
<1>6. PrefixIsCaptured'
  BY <1>1, <1>3 DEF SweepInv, PrefixIsCaptured, Last, assemblerVars
<1>7. AsTryingEachInTurn' /\ FailureKeepsSafeSweep'
  BY <1>1 DEF SweepInv, AsTryingEachInTurn, FailureKeepsSafeSweep, DecodeOf, providerVars
<1>8. QED
  BY <1>2, <1>4, <1>5, <1>6, <1>7 DEF SweepInv

(* ------------------------------ the session ----------------------------- *)

(* Every step of the session, the provider or the caller keeps all of it.   *)
LEMMA SweepSteps == SweepInv /\ [LiveSweepNext]_sweepVars => SweepInv'
<1> SUFFICES ASSUME SweepInv, [LiveSweepNext]_sweepVars PROVE SweepInv'
  OBVIOUS
<1>1. CASE dropRequest \/ tokenStale \/ ingestStale
  BY <1>1, EndingsKeep
<1>2. CASE (\E o \in Object : upload(o)) \/ supersede
  BY <1>2, EnvironmentKeeps
<1>3. CASE pollBegins \/ waitForComplete \/ completeDecoded
  BY <1>3, WaitingKeeps
<1>4. CASE pollListed
  BY <1>4, ListingKeeps
<1>5. CASE windowDownloaded
  BY <1>5, DownloadingKeeps
<1>6. CASE downloadFailed \/ ingestRefused
  BY <1>6, FailedChunksKeep
<1>7. CASE ingestAccepted
  BY <1>7, AcceptedChunkKeeps
<1>8. CASE \E b \in ToSet(group) : decoderFinishes(b)
  BY <1>8, FinishingKeeps
<1>9. CASE answerIncomplete
  BY <1>9, IncompleteKeeps
<1>10. CASE answerMalformed \/ publish_safe_sweep
  BY <1>10, LastAnswerKeeps
<1>11. CASE UNCHANGED sweepVars
  <2>1. UNCHANGED <<providerVars, pollVars, decodeVars, assemblerVars,
                    token_current, phase, error, reached>>
    BY <1>11 DEF sweepVars
  <2>2. AssemblerInv'
    BY <2>1, AssemblerSteps DEF SweepInv
  <2>3. contiguous_through' = contiguous_through
    BY <2>1 DEF contiguous_through, ContiguousThrough, assemblerVars
  <2>4. SweepTypeOK' /\ OneVolumeIsSelected' /\ WorkIsThere' /\ FailuresEnd'
    BY <2>1 DEF SweepInv, SweepTypeOK, IsList, OneVolumeIsSelected, WorkIsThere, FailuresEnd,
       providerVars, pollVars, decodeVars, assemblerVars
  <2>5. PendingIsReached' /\ PendingIsAwaited' /\ TriedInVain'
    BY <2>1 DEF SweepInv, PendingIsReached, PendingIsAwaited, TriedInVain, DecodeOf,
       providerVars, decodeVars
  <2>6. PrefixIsCaptured'
    BY <2>1, <2>3 DEF SweepInv, PrefixIsCaptured, Last, assemblerVars, decodeVars
  <2>7. AsTryingEachInTurn' /\ FailureKeepsSafeSweep'
    BY <2>1 DEF SweepInv, AsTryingEachInTurn, FailureKeepsSafeSweep, DecodeOf,
       providerVars, decodeVars
  <2>8. QED
    BY <2>2, <2>4, <2>5, <2>6, <2>7 DEF SweepInv
<1>12. QED
  BY <1>1, <1>2, <1>3, <1>4, <1>5, <1>6, <1>7, <1>8, <1>9, <1>10, <1>11
  DEF LiveSweepNext, SessionNext

(* The invariant holds in every reachable state, whatever fails.            *)
THEOREM SweepInvariant == LiveSweepSpec => []SweepInv
  BY SweepStarts, SweepSteps, PTL DEF LiveSweepSpec

(* Decoding prefixes together publishes what trying each in turn would:     *)
(* the first that holds a safe sweep, after as many attempts (poll_once,    *)
(* earliest_safe_decode).                                                   *)
THEOREM TriesInTurn == LiveSweepSpec => []AsTryingEachInTurn
<1>1. SweepInv => AsTryingEachInTurn
  BY DEF SweepInv
<1> QED BY <1>1, SweepInvariant, PTL

(* A session sleeps only when the prefix it holds, and every one before it, *)
(* was tried in vain: no uploaded safe sweep waits for the next poll.       *)
THEOREM SleepsWithNothingLeft == LiveSweepSpec => []NothingSafeIsMissed
<1>1. SweepInv => NothingSafeIsMissed
  <2> SUFFICES ASSUME SweepInv, phase = "sleeping", published_through = 0
               PROVE  /\ decoder_attempts = Len(reached)
                      /\ \A i \in 1 .. Len(reached) : DecodeOf(reached[i]) = "incomplete"
                      /\ active_volume # NoVolume => Last(reached).through = contiguous_through
    BY DEF NothingSafeIsMissed
  <2>1. Len(boundaries) = 0 /\ Len(group) = 0 /\ phase \notin Ended
    BY NothingPends, NothingListed DEF Ended
  <2>2. Len(reached) = decoder_attempts + Len(group) + Len(boundaries)
    BY <2>1 DEF SweepInv, PendingIsReached
  <2>3. decoder_attempts = Len(reached)
    <3>1. decoder_attempts + 0 + 0 = decoder_attempts
      BY DEF SweepInv, SweepTypeOK
    <3>2. QED
      BY <2>1, <2>2, <3>1
  <2>4. \A i \in 1 .. decoder_attempts : DecodeOf(reached[i]) = "incomplete"
    BY <2>1 DEF SweepInv, TriedInVain
  <2>5. active_volume # NoVolume => Last(reached).through = contiguous_through
    BY DEF SweepInv, PrefixIsCaptured
  <2>6. QED
    BY <2>3, <2>4, <2>5
<1> QED BY <1>1, SweepInvariant, PTL

(* A chunk that cannot be downloaded or is refused never costs a safe sweep *)
(* that a prefix in front of it holds.                                      *)
THEOREM FailureCostsNothing == LiveSweepSpec => []FailureKeepsSafeSweep
<1>1. SweepInv => FailureKeepsSafeSweep
  BY DEF SweepInv
<1> QED BY <1>1, SweepInvariant, PTL

(* Every step of a session is one the assembler allows, or leaves it alone: *)
(* what is proved of the assembler holds while a session drives it.         *)
THEOREM SessionUsesAssembler == LiveSweepSpec => AssemblerSpec
<1>1. LiveSweepInit => AssemblerInit
  BY DEF LiveSweepInit
<1>2. SweepInv /\ [LiveSweepNext]_sweepVars => [AssemblerNext]_assemblerVars
  <2> SUFFICES ASSUME SweepInv, [LiveSweepNext]_sweepVars
               PROVE  [AssemblerNext]_assemblerVars
    OBVIOUS
  <2>1. CASE ingestAccepted \/ ingestRefused
    <3>1. /\ phase = "ingesting"
          /\ \/ openVolume(Head(candidates)) \/ storeChunk(Head(candidates))
             \/ refuseTooLarge(Head(candidates)) \/ UNCHANGED assemblerVars
      BY <2>1 DEF ingestAccepted, ingestRefused
    <3>2. Head(candidates) \in Chunk
      BY <3>1, WindowPends, HeadIsSelected
    <3>3. QED
      BY <3>1, <3>2 DEF AssemblerNext, ingest
  <2>2. CASE publish_safe_sweep
    BY <2>2 DEF publish_safe_sweep, AssemblerNext
  <2>3. CASE (\E o \in Object : upload(o)) \/ supersede \/ dropRequest
    BY <2>3 DEF upload, supersede, dropRequest
  <2>4. CASE tokenStale \/ pollBegins \/ pollListed \/ windowDownloaded \/ downloadFailed
             \/ ingestStale \/ waitForComplete \/ completeDecoded
    BY <2>4 DEF tokenStale, pollBegins, pollListed, windowDownloaded, downloadFailed,
       ingestStale, waitForComplete, completeDecoded
  <2>5. CASE (\E b \in ToSet(group) : decoderFinishes(b)) \/ answerIncomplete \/ answerMalformed
    BY <2>5 DEF decoderFinishes, answerIncomplete, answerMalformed
  <2>6. CASE UNCHANGED sweepVars
    BY <2>6 DEF sweepVars
  <2>7. QED
    BY <2>1, <2>2, <2>3, <2>4, <2>5, <2>6 DEF LiveSweepNext, SessionNext
<1> QED BY <1>1, <1>2, SweepInvariant, PTL DEF LiveSweepSpec, AssemblerSpec
=============================================================================
