-------------------------- MODULE GridStagingProofs --------------------------
(***************************************************************************)
(* Proof that uploads stay within reach of the GPU, for any grid, batch    *)
(* size and patience, any number of frames in flight and any number of     *)
(* uploads that a lost context may leave behind.  Each uploader that waits *)
(* for a frame may have fenced one frame more than is allowed; it polls    *)
(* the surplus away before it goes on.                                     *)
(***************************************************************************)
EXTENDS GridStaging, FiniteSetTheorems, SequenceTheorems, TLAPS

Waiting == {u \in Uploader : step[u] \in {"frame", "gpu"}}

TypeOK ==
  /\ step \in [Uploader -> {"idle", "run", "frame", "gpu"}]
  /\ fences \in Seq(Nat)
  /\ epoch \in Nat
  /\ lost \in BOOLEAN

Paced == Len(fences) <= UPLOAD_FRAMES_IN_FLIGHT + Cardinality(Waiting)

OfThisContext == lost \/ \A i \in 1 .. Len(fences) : fences[i] = epoch

FencesInv == TypeOK /\ Paced /\ OfThisContext

-----------------------------------------------------------------------------
LEMMA WaitingIsFinite == IsFiniteSet(Waiting) /\ Cardinality(Waiting) \in Nat
<1>1. IsFiniteSet(Uploader)
  BY FS_Interval, GridAssumption DEF Uploader
<1>2. Waiting \subseteq Uploader
  BY DEF Waiting
<1>3. QED
  BY <1>1, <1>2, FS_Subset, FS_CardinalityType

(* An uploader that begins to wait, goes on waiting, or ends.               *)
LEMMA WaitingChanges ==
  ASSUME TypeOK, NEW u \in Uploader, NEW s \in {"idle", "run", "frame", "gpu"},
         step' = [step EXCEPT ![u] = s]
  PROVE  /\ Cardinality(Waiting') \in Nat
         /\ step[u] \in {"frame", "gpu"} /\ s \in {"frame", "gpu"} =>
              Cardinality(Waiting') = Cardinality(Waiting)
         /\ step[u] \in {"frame", "gpu"} /\ s \in {"idle", "run"} =>
              Cardinality(Waiting') = Cardinality(Waiting) - 1
         /\ step[u] \in {"idle", "run"} /\ s \in {"frame", "gpu"} =>
              Cardinality(Waiting') = Cardinality(Waiting) + 1
         /\ step[u] \in {"idle", "run"} /\ s \in {"idle", "run"} =>
              Cardinality(Waiting') = Cardinality(Waiting)
<1>1. IsFiniteSet(Waiting) /\ Cardinality(Waiting) \in Nat
  BY WaitingIsFinite
<1>2. CASE s \in {"frame", "gpu"}
  <2>1. Waiting' = Waiting \cup {u}
    BY <1>2 DEF Waiting, TypeOK
  <2>2. u \in Waiting <=> step[u] \in {"frame", "gpu"}
    BY DEF Waiting
  <2>3. Cardinality(Waiting \cup {u}) = IF u \in Waiting THEN Cardinality(Waiting)
                                                        ELSE Cardinality(Waiting) + 1
    BY <1>1, FS_AddElement
  <2>4. QED
    BY <1>1, <1>2, <2>1, <2>2, <2>3
<1>3. CASE s \in {"idle", "run"}
  <2>1. Waiting' = Waiting \ {u}
    BY <1>3 DEF Waiting, TypeOK
  <2>2. u \in Waiting <=> step[u] \in {"frame", "gpu"}
    BY DEF Waiting
  <2>3. Cardinality(Waiting \ {u}) \in Nat
    BY <1>1, FS_RemoveElement, FS_CardinalityType
  <2>4. Cardinality(Waiting \ {u}) = IF u \in Waiting THEN Cardinality(Waiting) - 1
                                                      ELSE Cardinality(Waiting)
    BY <1>1, FS_RemoveElement
  <2>5. QED
    BY <1>1, <1>3, <2>1, <2>2, <2>3, <2>4
<1>4. QED
  BY <1>2, <1>3

(* The oldest fences go.                                                    *)
LEMMA FencesShorten ==
  ASSUME TypeOK, OfThisContext, NEW k \in 0 .. Len(fences),
         fences' = SubSeq(fences, k + 1, Len(fences)), UNCHANGED context
  PROVE  fences' \in Seq(Nat) /\ Len(fences') = Len(fences) - k /\ OfThisContext'
<1>1. /\ Len(fences) \in Nat
      /\ \A i \in k + 1 .. Len(fences) : fences[i] \in Nat
  BY DEF TypeOK
<1>2. fences' \in Seq(Nat) /\ Len(fences') = Len(fences) - k
  BY <1>1, SubSeqProperties
<1>3. \A i \in 1 .. Len(fences') : fences'[i] = fences[k + i]
  BY <1>1, <1>2, SubSeqProperties
<1>4. QED
  BY <1>1, <1>2, <1>3 DEF OfThisContext, context

(* What leaves the fences and the context alone, and lets nobody stop       *)
(* waiting.                                                                 *)
LEMMA FencesStay ==
  ASSUME FencesInv, UNCHANGED <<fences, context>>,
         \/ UNCHANGED step
         \/ \E u \in Uploader, s \in {"idle", "run"} :
              step[u] \in {"idle", "run"} /\ step' = [step EXCEPT ![u] = s]
  PROVE  FencesInv'
<1>1. TypeOK' /\ OfThisContext'
  BY DEF FencesInv, TypeOK, OfThisContext, context
<1>2. Cardinality(Waiting') = Cardinality(Waiting)
  <2>1. CASE UNCHANGED step
    BY <2>1 DEF Waiting
  <2>2. CASE \E u \in Uploader, s \in {"idle", "run"} :
               step[u] \in {"idle", "run"} /\ step' = [step EXCEPT ![u] = s]
    BY <2>2, WaitingChanges DEF FencesInv
  <2>3. QED
    BY <2>1, <2>2
<1>3. QED
  BY <1>1, <1>2 DEF FencesInv, Paced

(* Only who goes on to wait adds a fence, and only where there is a         *)
(* context to add it to.                                                    *)
LEMMA YieldKeeps ==
  ASSUME FencesInv, NEW u \in Uploader, NEW n, NEW s,
         step[u] \in {"idle", "run"}, yieldIfSpent(u, n, s), UNCHANGED context
  PROVE  FencesInv'
<1>1. CASE step' = [step EXCEPT ![u] = "run"] /\ UNCHANGED fences
  BY <1>1, FencesStay
<1>2. CASE step' = [step EXCEPT ![u] = "frame"] /\ fences' = fenceFrame(s)
  <2>1. Cardinality(Waiting') = Cardinality(Waiting) + 1
    BY <1>2, WaitingChanges DEF FencesInv
  <2>2. Len(fences) \in Nat /\ Cardinality(Waiting) \in Nat
    BY WaitingIsFinite DEF FencesInv, TypeOK
  <2>3. CASE fences' = fences
    BY <1>2, <2>1, <2>2, <2>3, GridAssumption
    DEF FencesInv, TypeOK, Paced, OfThisContext, context
  <2>4. CASE fences' = Append(fences, epoch) /\ ~lost
    <3>1. /\ fences' \in Seq(Nat) /\ Len(fences') = Len(fences) + 1
          /\ \A i \in 1 .. Len(fences) : fences'[i] = fences[i]
          /\ fences'[Len(fences) + 1] = epoch
      BY <2>4, AppendProperties DEF FencesInv, TypeOK
    <3>2. OfThisContext'
      BY <2>2, <2>4, <3>1 DEF FencesInv, OfThisContext, context
    <3>3. TypeOK'
      BY <1>2, <3>1 DEF FencesInv, TypeOK, context
    <3>4. Paced'
      BY <2>1, <2>2, <3>1, GridAssumption DEF FencesInv, Paced
    <3>5. QED
      BY <3>2, <3>3, <3>4 DEF FencesInv
  <2>5. QED
    BY <1>2, <2>3, <2>4 DEF fenceFrame
<1>3. QED
  BY <1>1, <1>2 DEF yieldIfSpent

(* Who goes on has polled the surplus away, or gives all fences up.         *)
LEMMA FrameKeeps ==
  ASSUME FencesInv, NEW u \in Uploader, nextAnimationFrame(u)
  PROVE  FencesInv'
<1> DEFINE excess == Len(fences) - UPLOAD_FRAMES_IN_FLIGHT
<1>1. step[u] \in {"frame", "gpu"} /\ UNCHANGED context
  BY DEF nextAnimationFrame
<1>2. Len(fences) \in Nat /\ Cardinality(Waiting) \in Nat /\ TypeOK /\ OfThisContext /\ Paced
  BY WaitingIsFinite DEF FencesInv, TypeOK
<1>3. CASE step' = [step EXCEPT ![u] = "run"]
  <2>1. /\ Cardinality(Waiting') = Cardinality(Waiting) - 1
        /\ Cardinality(Waiting') \in Nat
    BY <1>1, <1>2, <1>3, WaitingChanges
  <2>2. fences' \in Seq(Nat) /\ Len(fences') <= UPLOAD_FRAMES_IN_FLIGHT /\ OfThisContext'
    <3>1. CASE excess <= 0 /\ UNCHANGED fences
      BY <1>1, <1>2, <3>1, GridAssumption DEF TypeOK, OfThisContext, context
    <3>2. CASE fences' = <<>>
      BY <1>2, <3>2, GridAssumption DEF OfThisContext
    <3>3. CASE excess > 0 /\ fences' = SubSeq(fences, excess + 1, Len(fences))
      <4>1. excess \in 0 .. Len(fences)
        BY <1>2, <3>3, GridAssumption
      <4>2. QED
        BY <1>1, <1>2, <3>3, <4>1, FencesShorten, GridAssumption
    <3>4. QED
      BY <1>3, <3>1, <3>2, <3>3 DEF nextAnimationFrame, waitForGpu, FencesInv, TypeOK
  <2>3. QED
    BY <1>1, <1>2, <1>3, <2>1, <2>2, GridAssumption DEF FencesInv, TypeOK, Paced, context
<1>4. CASE /\ step' = [step EXCEPT ![u] = "gpu"]
           /\ \E done \in 0 .. excess - 1 : fences' = SubSeq(fences, done + 1, Len(fences))
  <2>1. Cardinality(Waiting') = Cardinality(Waiting)
    BY <1>1, <1>2, <1>4, WaitingChanges
  <2>2. PICK done \in 0 .. excess - 1 : fences' = SubSeq(fences, done + 1, Len(fences))
    BY <1>4
  <2>3. done \in 0 .. Len(fences)
    BY <1>2, <2>2, GridAssumption
  <2>4. fences' \in Seq(Nat) /\ Len(fences') = Len(fences) - done /\ OfThisContext'
    BY <1>1, <1>2, <2>2, <2>3, FencesShorten
  <2>5. TypeOK'
    BY <1>1, <1>2, <1>4, <2>4 DEF TypeOK, context
  <2>6. Paced'
    BY <1>2, <2>1, <2>3, <2>4, GridAssumption DEF Paced
  <2>7. QED
    BY <2>4, <2>5, <2>6 DEF FencesInv
<1>5. QED
  BY <1>3, <1>4 DEF nextAnimationFrame, waitForGpu

(* The context goes, and its fences with it before another one is there.    *)
LEMMA ContextKeeps == ASSUME FencesInv, Context PROVE FencesInv'
<1>1. CASE contextLost
  <2>1. UNCHANGED <<step, fences>> /\ lost' = TRUE /\ epoch' = epoch
    BY <1>1 DEF contextLost, budget
  <2>2. QED
    BY <2>1 DEF FencesInv, TypeOK, Paced, OfThisContext, Waiting
<1>2. CASE handleContextLost \/ onAdd
  <2>1. UNCHANGED step /\ fences' = <<>> /\ lost' \in BOOLEAN /\ epoch' \in Nat
    <3>1. CASE handleContextLost
      <4>1. UNCHANGED <<step, lost, epoch>> /\ fences' = <<>>
        BY <3>1 DEF handleContextLost, discardFences, context
      <4>2. QED
        BY <4>1 DEF FencesInv, TypeOK
    <3>2. CASE onAdd
      <4>1. UNCHANGED step /\ fences' = <<>> /\ epoch' = epoch + 1 /\ lost' = FALSE
        BY <3>2 DEF onAdd, discardFences
      <4>2. lost' \in BOOLEAN
        BY <4>1, Zenon
      <4>3. epoch' \in Nat
        BY <4>1 DEF FencesInv, TypeOK
      <4>4. QED
        BY <4>1, <4>2, <4>3, Zenon
    <3>3. QED
      BY <1>2, <3>1, <3>2
  <2>2. Cardinality(Waiting') \in Nat /\ Len(fences') = 0 /\ fences' \in Seq(Nat)
    BY <2>1, WaitingIsFinite DEF Waiting
  <2>3. TypeOK' /\ OfThisContext'
    BY <2>1, <2>2 DEF FencesInv, TypeOK, OfThisContext
  <2>4. QED
    BY <2>2, <2>3, GridAssumption DEF FencesInv, Paced
<1>3. CASE completePendingFence
  BY <1>3, FencesStay DEF completePendingFence, budget
<1>4. QED
  BY <1>1, <1>2, <1>3 DEF Context

LEMMA UploadsKeep == ASSUME FencesInv, Uploads PROVE FencesInv'
<1>1. PICK u \in Uploader :
        \/ nextAnimationFrame(u) \/ uploadRawTextureTimeSliced(u) \/ uploadFails(u)
        \/ u # 0 /\ startTimeSlicedRehydration(u)
  BY DEF Uploads
<1>2. CASE nextAnimationFrame(u)
  BY <1>2, FrameKeeps
<1>3. CASE uploadRawTextureTimeSliced(u)
  <2>1. step[u] = "run" /\ UNCHANGED context
    BY <1>3 DEF uploadRawTextureTimeSliced
  <2>2. CASE yieldIfSpent(u, 1, recordSlice)
    BY <2>1, <2>2, YieldKeeps
  <2>3. CASE uploadSucceeds(u)
    BY <2>1, <2>3, FencesStay DEF uploadSucceeds
  <2>4. QED
    BY <1>3, <2>2, <2>3 DEF uploadRawTextureTimeSliced
<1>4. CASE uploadFails(u)
  BY <1>4, FencesStay DEF uploadFails
<1>5. CASE startTimeSlicedRehydration(u)
  <2>1. step[u] = "idle" /\ UNCHANGED context
    BY <1>5 DEF startTimeSlicedRehydration
  <2>2. CASE yieldIfSpent(u, 0, spent)
    BY <2>1, <2>2, YieldKeeps
  <2>3. CASE UNCHANGED budget
    BY <2>1, <2>3, FencesStay DEF budget
  <2>4. QED
    BY <1>5, <2>2, <2>3 DEF startTimeSlicedRehydration
<1>6. QED
  BY <1>1, <1>2, <1>3, <1>4, <1>5

LEMMA TransfersKeep == ASSUME FencesInv, Transfers PROVE FencesInv'
<1>1. CASE uploadStagedChunk
  <2>1. 0 \in Uploader /\ step[0] = "idle" /\ UNCHANGED context
    BY <1>1, GridAssumption DEF uploadStagedChunk, Uploader
  <2>2. QED
    BY <1>1, <2>1, YieldKeeps DEF uploadStagedChunk
<1>2. CASE requestManifest \/ releaseManifest \/ manifestFails \/ beginStaging \/ cannotBegin
  <2>1. UNCHANGED <<budget, context>>
    BY <1>2 DEF requestManifest, releaseManifest, manifestFails, beginStaging, cannotBegin
  <2>2. QED
    BY <2>1, FencesStay DEF budget
<1>3. CASE \/ consumes \/ batchEnds \/ releaseBatch \/ drained \/ requireCompleteStaging
           \/ \E b \in Batches : drainsBatch(b)
  <2>1. UNCHANGED <<budget, context>>
    BY <1>3 DEF consumes, batchEnds, releaseBatch, drained, requireCompleteStaging, drainsBatch
  <2>2. QED
    BY <2>1, FencesStay DEF budget
<1>4. QED
  BY <1>1, <1>2, <1>3 DEF Transfers

-----------------------------------------------------------------------------
(* Uploads never get further ahead of the GPU than allowed, nor ask about a *)
(* fence of a context that is gone, whatever is uploaded, given up, lost    *)
(* and uploaded again side by side.                                         *)
THEOREM UploadsStayInReach == Spec => []FencesAreSound
<1>1. Init => FencesInv
  <2> SUFFICES ASSUME Init PROVE FencesInv
    OBVIOUS
  <2>1. TypeOK /\ OfThisContext /\ Len(fences) = 0
    <3>1. /\ step = [u \in Uploader |-> "idle"] /\ fences = <<>> /\ epoch = 0
          /\ lost \in BOOLEAN
      BY DEF Init
    <3>2. QED
      BY <3>1 DEF TypeOK, OfThisContext
  <2>2. QED
    BY <2>1, WaitingIsFinite, GridAssumption DEF FencesInv, Paced
<1>2. FencesInv /\ [Next]_vars => FencesInv'
  <2> SUFFICES ASSUME FencesInv, [Next]_vars PROVE FencesInv'
    OBVIOUS
  <2>1. CASE UNCHANGED vars
    BY <2>1, FencesStay DEF vars, budget
  <2>2. CASE Answers \/ supersede \/ clearWebGlErrors
    <3>1. UNCHANGED <<budget, context>>
      BY <2>2 DEF Answers, answered, supersede, clearWebGlErrors
    <3>2. QED
      BY <3>1, FencesStay DEF budget
  <2>3. QED
    BY <2>1, <2>2, UploadsKeep, TransfersKeep, ContextKeeps DEF Next
<1>3. FencesInv => FencesAreSound
  BY DEF FencesInv, Paced, OfThisContext, Waiting, FencesAreSound
<1>4. QED
  BY <1>1, <1>2, <1>3, PTL DEF Spec

-----------------------------------------------------------------------------
(* What is committed.                                                       *)

Committed == ~staging /\ ToSet(requiredChunkIndices) \subseteq staged

CommitInv ==
  /\ field \in Fields
  /\ "at" \in DOMAIN consumer
  /\ consumer.at = "committed" => Committed

(* A finite set of numbers is listed without leaving one out: each has its  *)
(* own number of smaller ones.                                              *)
LEMMA InOrderListsAll ==
  ASSUME NEW indices \in SUBSET Int, IsFiniteSet(indices), NEW i \in indices
  PROVE  i \in ToSet(InOrder(indices))
<1> DEFINE Below(k) == {j \in indices : j < k}
<1> DEFINE n == Cardinality(Below(i)) + 1
<1>1. \A k \in indices : IsFiniteSet(Below(k)) /\ Cardinality(Below(k)) \in Nat
  <2> TAKE k \in indices
  <2>1. Below(k) \in SUBSET indices
    OBVIOUS
  <2>2. QED
    BY <2>1, FS_Subset, FS_CardinalityType
<1>2. \A k, m \in indices : k < m => Cardinality(Below(k)) # Cardinality(Below(m))
  <2> SUFFICES ASSUME NEW k \in indices, NEW m \in indices, k < m
               PROVE  Cardinality(Below(k)) # Cardinality(Below(m))
    OBVIOUS
  <2>1. \A j \in indices : j < k => j < m
    OBVIOUS
  <2>2. k \in Below(m) /\ k \notin Below(k)
    OBVIOUS
  <2>3. Below(k) \in SUBSET Below(m)
    BY <2>1
  <2>4. QED
    BY <2>2, <2>3, <1>1, FS_Subset
<1>3. n \in 1 .. Cardinality(indices)
  <2>1. Below(i) \in SUBSET indices /\ i \notin Below(i)
    OBVIOUS
  <2>2. Cardinality(Below(i)) <= Cardinality(indices) /\ Cardinality(Below(i)) # Cardinality(indices)
    BY <2>1, FS_Subset
  <2>3. QED
    BY <2>2, <1>1, FS_CardinalityType
<1>4. InOrder(indices)[n] = i
  <2> DEFINE Fits(k) == Cardinality(Below(k)) = n - 1
  <2>1. Fits(i)
    BY <1>1
  <2>2. \A k \in indices : Fits(k) => k = i
    <3> SUFFICES ASSUME NEW k \in indices, Fits(k), k # i PROVE FALSE
      OBVIOUS
    <3>1. k < i \/ i < k
      OBVIOUS
    <3>2. QED
      BY <3>1, <2>1, <1>2
  <2>3. (CHOOSE k \in indices : Fits(k)) = i
    BY <2>1, <2>2
  <2>4. QED
    BY <2>3, <1>3 DEF InOrder
<1>5. DOMAIN InOrder(indices) = 1 .. Cardinality(indices)
  BY DEF InOrder
<1>6. QED
  BY <1>3, <1>4, <1>5 DEF ToSet

LEMMA IndicesAreFinite == IsFiniteSet(Index) /\ Index \subseteq Int
<1>1. ChunksX * Ceil(HEIGHT, CHUNK_INTERIOR) - 1 \in Int
  BY GridAssumption DEF ChunksX, Ceil
<1>2. QED
  BY <1>1, FS_Interval DEF Index

(* Each chunk that shows a measured cell is asked for.                      *)
LEMMA CoverageIsComplete ==
  ASSUME field \in Fields, NEW i \in Index, haloOf(i) \cap field # {}
  PROVE  i \in ToSet(requiredChunkIndices)
<1> DEFINE drawn == {j \in Index : ~drawsNothing(j, field)}
<1>1. drawn \in SUBSET Index /\ i \in drawn
  BY DEF drawsNothing
<1>2. IsFiniteSet(drawn) /\ drawn \in SUBSET Int
  BY <1>1, IndicesAreFinite, FS_Subset
<1>3. requiredChunkIndices = InOrder(drawn)
  BY DEF requiredChunkIndices, completeDomainCoverage
<1>4. QED
  BY <1>1, <1>2, <1>3, InOrderListsAll

LEMMA FieldStays ==
  ASSUME UNCHANGED field PROVE requiredChunkIndices' = requiredChunkIndices
BY DEF requiredChunkIndices, completeDomainCoverage

(* A step that keeps what is staged once nothing is being staged.           *)
LEMMA CommitStays ==
  ASSUME CommitInv, UNCHANGED field,
         "at" \in DOMAIN consumer',
         consumer'.at = "committed" => consumer.at = "committed",
         ~staging => ~staging' /\ staged \subseteq staged'
  PROVE  CommitInv'
<1>1. requiredChunkIndices' = requiredChunkIndices
  BY FieldStays
<1>2. ASSUME consumer'.at = "committed" PROVE Committed'
  BY <1>1, <1>2 DEF CommitInv, Committed
<1>3. QED
  BY <1>2 DEF CommitInv

LEMMA UploadsKeepCommit == ASSUME CommitInv, Uploads PROVE CommitInv'
<1>1. PICK u \in Uploader :
        \/ nextAnimationFrame(u) \/ uploadRawTextureTimeSliced(u) \/ uploadFails(u)
        \/ u # 0 /\ startTimeSlicedRehydration(u)
  BY DEF Uploads
<1>2. "at" \in DOMAIN consumer
  BY DEF CommitInv
<1>3. CASE nextAnimationFrame(u) \/ startTimeSlicedRehydration(u)
  <2>1. UNCHANGED <<transfer, staging, staged>>
    BY <1>3 DEF nextAnimationFrame, startTimeSlicedRehydration
  <2>2. QED
    BY <1>2, <2>1, CommitStays DEF transfer
<1>4. CASE uploadRawTextureTimeSliced(u)
  <2>1. /\ UNCHANGED <<field, staging>>
        /\ staged \subseteq staged'
        /\ \/ UNCHANGED consumer
           \/ consumer' = [consumer EXCEPT !.chunks = @ + 1]
    BY <1>4 DEF uploadRawTextureTimeSliced, uploadSucceeds
  <2>2. "at" \in DOMAIN consumer' /\ consumer'.at = consumer.at
    BY <1>2, <2>1
  <2>3. QED
    BY <2>1, <2>2, CommitStays
<1>5. CASE uploadFails(u)
  <2>1. /\ UNCHANGED <<field, staging, staged>>
        /\ consumer' \in {consumer, Fails}
    BY <1>5 DEF uploadFails
  <2>2. "at" \in DOMAIN consumer' /\ (consumer'.at = consumer.at \/ consumer'.at = "releasing")
    BY <1>2, <2>1 DEF Fails
  <2>3. QED
    BY <2>1, <2>2, CommitStays
<1>6. QED
  BY <1>1, <1>3, <1>4, <1>5

LEMMA TransfersKeepCommit == ASSUME CommitInv, Transfers PROVE CommitInv'
<1>1. "at" \in DOMAIN consumer
  BY DEF CommitInv
<1>2. CASE requestManifest \/ releaseManifest \/ manifestFails \/ cannotBegin
  <2>1. /\ UNCHANGED <<field, staging, staged>>
        /\ \E s \in {"manifest", "staging", "failed"} : consumer' = [consumer EXCEPT !.at = s]
    BY <1>2 DEF requestManifest, releaseManifest, manifestFails, cannotBegin
  <2>2. "at" \in DOMAIN consumer' /\ consumer'.at \in {"manifest", "staging", "failed"}
    BY <1>1, <2>1
  <2>3. QED
    BY <2>1, <2>2, CommitStays
<1>3. CASE beginStaging
  <2>1. "at" \in DOMAIN consumer' /\ consumer'.at = "transferring" /\ UNCHANGED field
    BY <1>1, <1>3 DEF beginStaging
  <2>2. QED
    BY <2>1 DEF CommitInv
<1>4. CASE consumes
  <2>1. /\ UNCHANGED <<field, staging, staged>>
        /\ "at" \in DOMAIN consumer' /\ consumer'.at \in {"consuming", "draining"}
    BY <1>1, <1>4 DEF consumes
  <2>2. QED
    BY <2>1, CommitStays
<1>5. CASE uploadStagedChunk
  <2>1. UNCHANGED <<transfer, staging, staged>>
    BY <1>5 DEF uploadStagedChunk
  <2>2. QED
    BY <1>1, <2>1, CommitStays DEF transfer
<1>6. CASE batchEnds
  <2>1. /\ UNCHANGED <<field, staging, staged>>
        /\ "at" \in DOMAIN consumer' /\ consumer'.at = "releasing"
    BY <1>1, <1>6 DEF batchEnds, Fails
  <2>2. QED
    BY <2>1, CommitStays
<1>7. CASE releaseBatch
  <2>1. /\ UNCHANGED <<field, staging, staged>>
        /\ "at" \in DOMAIN consumer' /\ consumer'.at \in {"transferring", "draining"}
    BY <1>1, <1>7 DEF releaseBatch
  <2>2. QED
    BY <2>1, CommitStays
<1>8. CASE \E b \in Batches : drainsBatch(b)
  <2>1. UNCHANGED <<field, staging, staged, consumer>>
    BY <1>8 DEF drainsBatch
  <2>2. QED
    BY <1>1, <2>1, CommitStays
<1>9. CASE drained
  <2>1. "at" \in DOMAIN consumer' /\ consumer'.at = "failed" /\ UNCHANGED field
    BY <1>1, <1>9 DEF drained
  <2>2. QED
    BY <2>1 DEF CommitInv
<1>10. CASE requireCompleteStaging
  <2>1. UNCHANGED field /\ ~staging'
    BY <1>10 DEF requireCompleteStaging
  <2>2. \/ /\ consumer' = [consumer EXCEPT !.at = "committed"] /\ UNCHANGED staged
           /\ ToSet(requiredChunkIndices) \subseteq staged
        \/ consumer' = [consumer EXCEPT !.at = "failed"]
    BY <1>10 DEF requireCompleteStaging
  <2>3. requiredChunkIndices' = requiredChunkIndices
    BY <2>1, FieldStays
  <2>4. "at" \in DOMAIN consumer'
    BY <1>1, <2>2
  <2>5. ASSUME consumer'.at = "committed" PROVE Committed'
    BY <1>1, <2>1, <2>2, <2>3, <2>5 DEF Committed
  <2>6. QED
    BY <2>1, <2>4, <2>5 DEF CommitInv
<1>11. QED
  BY <1>2, <1>3, <1>4, <1>5, <1>6, <1>7, <1>8, <1>9, <1>10 DEF Transfers

LEMMA OthersKeepCommit ==
  ASSUME CommitInv, Answers \/ Context \/ supersede \/ clearWebGlErrors \/ UNCHANGED vars
  PROVE  CommitInv'
<1>1. "at" \in DOMAIN consumer
  BY DEF CommitInv
<1>2. UNCHANGED <<field, consumer>> /\ (~staging => ~staging' /\ staged \subseteq staged')
  <2>1. CASE Answers
    BY <2>1 DEF Answers, answered
  <2>2. CASE Context
    BY <2>2 DEF Context, contextLost, handleContextLost, onAdd, completePendingFence, transfer
  <2>3. CASE supersede
    BY <2>3 DEF supersede
  <2>4. CASE clearWebGlErrors
    BY <2>4 DEF clearWebGlErrors, transfer
  <2>5. CASE UNCHANGED vars
    BY <2>5 DEF vars, transfer
  <2>6. QED
    BY <2>1, <2>2, <2>3, <2>4, <2>5
<1>3. QED
  BY <1>1, <1>2, CommitStays

(* What is committed shows every measured cell: whatever was cancelled,     *)
(* lost, refused or reordered between the first request and the commit, no  *)
(* chunk that draws something, be it a neighbour's edge, is missing.        *)
THEOREM NothingMeasuredIsLeftOut == Spec => []CommittedIsComplete
<1>1. Init => CommitInv
  BY DEF Init, CommitInv
<1>2. CommitInv /\ [Next]_vars => CommitInv'
  BY UploadsKeepCommit, TransfersKeepCommit, OthersKeepCommit DEF Next
<1>3. CommitInv => CommittedIsComplete
  <2> SUFFICES ASSUME CommitInv, consumer.at = "committed", NEW i \in Index,
                      haloOf(i) \cap field # {}
               PROVE  i \in staged
    BY DEF CommittedIsComplete
  <2>1. i \in ToSet(requiredChunkIndices)
    BY CoverageIsComplete DEF CommitInv
  <2>2. QED
    BY <2>1 DEF CommitInv, Committed
<1>4. QED
  BY <1>1, <1>2, <1>3, PTL DEF Spec
=============================================================================
