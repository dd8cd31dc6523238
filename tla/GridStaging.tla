---------------------------- MODULE GridStaging ----------------------------
(***************************************************************************)
(* How one National observation reaches the GPU.  Its packed grid is cut   *)
(* into chunks (src/packed-grid/packedGrid.ts); those that draw something  *)
(* are fetched in batches over two transfer credits                        *)
(* (src/packed-grid/transferPipeline.ts) and uploaded a slice at a time    *)
(* within a frame's budget, no more than a few frames ahead of the GPU     *)
(* (src/national-radar/NationalGridLayer.ts).  After a lost context the    *)
(* layer uploads its resident observations again, with the same budget and *)
(* possibly beside the staging of a new one.                               *)
(*                                                                         *)
(* A chunk takes two slices: its allocation and its rows.  Whether another *)
(* slice fits into the frame, and how far the GPU is, is open.             *)
(***************************************************************************)
EXTENDS Integers, Sequences, FiniteSets, SequencesExt

CONSTANTS
  WIDTH, HEIGHT, CHUNK_INTERIOR, GRID_TRANSFER_BATCH_SIZE, UPLOAD_FRAMES_IN_FLIGHT,
  UPLOAD_FENCE_PATIENCE_FRAMES,
  Fields,     \* sets of cells: those with a measured value
  Resident,   \* how many observations are resident; 1 is the active one
  MaxLosses   \* bound: how often the context is lost

ASSUME GridAssumption ==
  /\ WIDTH \in Nat \ {0} /\ HEIGHT \in Nat \ {0} /\ CHUNK_INTERIOR \in Nat \ {0}
  /\ UPLOAD_FRAMES_IN_FLIGHT \in Nat /\ MaxLosses \in Nat

VARIABLES
  field, requests, consumer, owned,  \* the transfer
  staging, staged,                   \* the layer's staged presentation and its chunks
  step, slice, waited,               \* per uploader: what its next chunk waits for
  spent, fences,                     \* the frame budget both share
  textures, rehydrating, recovering, \* the resident observations
  lost, epoch,                       \* the context
  glError                            \* its error flag

transfer == <<field, requests, consumer, owned>>
budget   == <<step, slice, waited, spent, fences>>
layer    == <<textures, rehydrating, recovering>>
context  == <<lost, epoch>>
vars     == <<transfer, staging, staged, budget, layer, context, glError>>

-----------------------------------------------------------------------------
(* The chunks of the grid.                                                  *)

Ceil(a, b) == (a + b - 1) \div b
ChunksX == Ceil(WIDTH, CHUNK_INTERIOR)
Index == 0 .. ChunksX * Ceil(HEIGHT, CHUNK_INTERIOR) - 1
AtMost(a, b) == IF a < b THEN a ELSE b
AtLeast(a, b) == IF a > b THEN a ELSE b

(* Along one axis: the interior of the n-th chunk, and its halo, one cell   *)
(* more on every side where the grid goes on.                               *)
Interior(n, size) ==
  n * CHUNK_INTERIOR .. AtMost(CHUNK_INTERIOR * (n + 1), size) - 1
Haloed(n, size) ==
  AtLeast(0, n * CHUNK_INTERIOR - 1) .. AtMost(size, CHUNK_INTERIOR * (n + 1) + 1) - 1

interiorOf(i) == Interior(i % ChunksX, WIDTH) \X Interior(i \div ChunksX, HEIGHT)
haloOf(i)     == Haloed(i % ChunksX, WIDTH) \X Haloed(i \div ChunksX, HEIGHT)

(* Mutant: what the neighbours blend in from the edge is forgotten.         *)
drawsNothing_interior(i, measured) == interiorOf(i) \cap measured = {}

drawsNothing(i, measured) == haloOf(i) \cap measured = {}

(* The chunks that draw something, from the first to the last: the n-th of  *)
(* them has n - 1 before it.                                                *)
InOrder(indices) ==
  [n \in 1 .. Cardinality(indices) |->
     CHOOSE i \in indices : Cardinality({j \in indices : j < i}) = n - 1]

completeDomainCoverage ==
  [measured \in Fields |-> InOrder({i \in Index : ~drawsNothing(i, measured)})]

requiredChunkIndices == completeDomainCoverage[field]

Batches == 1 .. Ceil(Len(requiredChunkIndices), GRID_TRANSFER_BATCH_SIZE)
Batch(b) == SubSeq(requiredChunkIndices, (b - 1) * GRID_TRANSFER_BATCH_SIZE + 1,
                   AtMost(b * GRID_TRANSFER_BATCH_SIZE, Len(requiredChunkIndices)))

-----------------------------------------------------------------------------
(* Uploading, within the budget.  Uploader 0 is the staging; the others     *)
(* rehydrate after the first, second, ... loss of the context.              *)

Uploader == 0 .. MaxLosses

Init ==
  /\ field \in Fields
  /\ requests = [b \in 0 .. Cardinality(Index) |-> "none"]
  /\ consumer = [at |-> "idle", pending |-> <<>>, next |-> 1, batch |-> 0, chunks |-> 0,
                 failed |-> FALSE]
  /\ owned = TRUE /\ staging = FALSE /\ staged = {}
  /\ step = [u \in Uploader |-> "idle"] /\ slice = [u \in Uploader |-> 0]
  /\ waited = [u \in Uploader |-> 0]
  /\ spent = "forced" /\ fences = <<>>
  /\ textures = 1 .. Resident /\ rehydrating = 0 /\ recovering = FALSE
  /\ lost = FALSE /\ epoch = 0
  /\ glError = FALSE

(* No sync object comes from a lost context, and none from a frame without  *)
(* uploads.                                                                 *)
fenceFrame(s) == IF s = "some" /\ ~lost THEN Append(fences, epoch) ELSE fences

(* Every slice uses some of the frame, more or less of it.                  *)
recordSlice == "some"

(* The n-th slice of the uploader's chunk, now or in another frame.         *)
yieldIfSpent(u, n, s) ==
  /\ slice' = [slice EXCEPT ![u] = n]
  /\ waited' = [waited EXCEPT ![u] = 0]
  /\ spent' = s
  /\ \/ s # "forced" /\ step' = [step EXCEPT ![u] = "run"] /\ UNCHANGED fences
     \/ step' = [step EXCEPT ![u] = "frame"] /\ fences' = fenceFrame(s)

(* Mutant: fences of the lost context are kept.                             *)
discardFences_keeps == fences

discardFences == <<>>

(* The oldest fences are polled, never waited for.                          *)
waitForGpu(u) ==
  LET excess  == Len(fences) - UPLOAD_FRAMES_IN_FLIGHT
      givesUp == lost \/ waited[u] >= UPLOAD_FENCE_PATIENCE_FRAMES
  IN  \/ /\ \/ excess <= 0 /\ UNCHANGED fences
            \/ excess > 0 /\ givesUp /\ fences' = <<>>
            \/ excess > 0 /\ ~givesUp /\ fences' = SubSeq(fences, excess + 1, Len(fences))
         /\ step' = [step EXCEPT ![u] = "run"]
         /\ UNCHANGED waited
      \/ /\ excess > 0 /\ ~givesUp
         /\ \E done \in 0 .. excess - 1 : fences' = SubSeq(fences, done + 1, Len(fences))
         /\ waited' = [waited EXCEPT ![u] = @ + 1]
         /\ step' = [step EXCEPT ![u] = "gpu"]

nextAnimationFrame(u) ==
  /\ step[u] \in {"frame", "gpu"}
  /\ spent' = IF step[u] = "frame" THEN "none" ELSE spent
  /\ waitForGpu(u)
  /\ UNCHANGED <<transfer, staging, staged, slice, layer, context, glError>>

shouldContinue(u) == ~lost /\ (IF u = 0 THEN staging ELSE u = rehydrating)

Fails == [consumer EXCEPT !.at = "releasing", !.failed = TRUE]

(* The upload is cancelled, or the GPU refuses it or takes too long.        *)
uploadFails(u) ==
  /\ step[u] = "run"
  /\ step' = [step EXCEPT ![u] = "idle"]
  /\ consumer' = IF u = 0 THEN Fails ELSE consumer
  /\ rehydrating' = IF shouldContinue(u) /\ u # 0 THEN 0 ELSE rehydrating
  /\ UNCHANGED <<field, requests, owned, staging, staged, slice, waited, spent, fences,
                 textures, recovering, context, glError>>

uploadSucceeds(u) ==
  /\ step' = [step EXCEPT ![u] = "idle"]
  /\ spent' = recordSlice
  /\ UNCHANGED <<slice, waited, fences>>
  /\ IF u = 0
       THEN /\ staged' = staged \cup {Batch(consumer.batch)[consumer.chunks + 1]}
            /\ consumer' = [consumer EXCEPT !.chunks = @ + 1]
            /\ UNCHANGED textures
       ELSE /\ textures' = textures \cup {CHOOSE r \in 1 .. Resident :
                                            1 .. r - 1 \subseteq textures /\ r \notin textures}
            /\ UNCHANGED <<staged, consumer>>

(* One slice.  An error of the GPU is only noted.                           *)
uploadRawTextureTimeSliced(u) ==
  /\ step[u] = "run" /\ shouldContinue(u)
  /\ IF slice[u] = 0 THEN yieldIfSpent(u, 1, recordSlice) /\ UNCHANGED <<staged, consumer, textures>>
                     ELSE uploadSucceeds(u)
  /\ glError' \in {glError, TRUE}
  /\ UNCHANGED <<field, requests, owned, staging, rehydrating, recovering, context>>

-----------------------------------------------------------------------------
(* Fetching.  Request 0 is the manifest.                                    *)

answered(b) ==
  /\ requests[b] = "requested"
  /\ requests' = [requests EXCEPT ![b] = "held"] \/ requests' = [requests EXCEPT ![b] = "failed"]
  /\ UNCHANGED <<field, consumer, owned, staging, staged, budget, layer, context, glError>>

requestManifest ==
  /\ consumer.at = "idle" /\ owned
  /\ requests' = [requests EXCEPT ![0] = "requested"]
  /\ consumer' = [consumer EXCEPT !.at = "manifest"]
  /\ UNCHANGED <<field, owned, staging, staged, budget, layer, context, glError>>

(* A request of a superseded transfer fails before it is made.              *)
Asked(b) == IF b \notin Batches THEN requests
            ELSE [requests EXCEPT ![b] = IF owned THEN "requested" ELSE "failed"]

releaseManifest ==
  /\ consumer.at = "manifest" /\ requests[0] = "held"
  /\ requests' = [requests EXCEPT ![0] = "released"]
  /\ \E acknowledged \in BOOLEAN :
        consumer' = [consumer EXCEPT !.at = IF acknowledged /\ owned THEN "staging" ELSE "failed"]
  /\ UNCHANGED <<field, owned, staging, staged, budget, layer, context, glError>>

manifestFails ==
  /\ consumer.at = "manifest" /\ requests[0] = "failed"
  /\ consumer' = [consumer EXCEPT !.at = "failed"]
  /\ UNCHANGED <<field, requests, owned, staging, staged, budget, layer, context, glError>>

(* Errors from before are not this presentation's.  Two batches are asked   *)
(* for at once.                                                             *)
beginStaging ==
  /\ consumer.at = "staging" /\ owned /\ ~recovering
  /\ staging' = TRUE
  /\ glError' = FALSE
  /\ requests' = [b \in DOMAIN requests |->
                    IF b \in Batches \cap {1, 2} THEN "requested" ELSE requests[b]]
  /\ consumer' = [consumer EXCEPT !.at = "transferring", !.next = 3,
                                  !.pending = SetToSortSeq(Batches \cap {1, 2}, <)]
  /\ UNCHANGED <<field, owned, staged, budget, layer, context>>

cannotBegin ==
  /\ consumer.at = "staging" /\ (~owned \/ recovering)
  /\ consumer' = [consumer EXCEPT !.at = "failed"]
  /\ UNCHANGED <<field, requests, owned, staging, staged, budget, layer, context, glError>>

(* The batches are consumed in their order, whatever order they arrive in.  *)
consumes ==
  /\ consumer.at = "transferring" /\ consumer.pending # <<>>
  /\ LET b == Head(consumer.pending)
         taken == [consumer EXCEPT !.pending = Tail(@), !.batch = b, !.chunks = 0]
     IN  \/ requests[b] = "held" /\ consumer' = [taken EXCEPT !.at = "consuming"]
         \/ requests[b] = "failed" /\ consumer' = [taken EXCEPT !.at = "draining", !.failed = TRUE]
  /\ UNCHANGED <<field, requests, owned, staging, staged, budget, layer, context, glError>>

uploadStagedChunk ==
  /\ consumer.at = "consuming" /\ step[0] = "idle"
  /\ consumer.chunks < Len(Batch(consumer.batch))
  /\ owned /\ staging /\ ~lost
  /\ yieldIfSpent(0, 0, spent)
  /\ UNCHANGED <<transfer, staging, staged, layer, context, glError>>

batchEnds ==
  /\ consumer.at = "consuming" /\ step[0] = "idle"
  /\ LET complete == consumer.chunks = Len(Batch(consumer.batch))
     IN  \/ complete /\ owned /\ consumer' = [consumer EXCEPT !.at = "releasing"]
         \/ (~owned \/ (~complete /\ (~staging \/ lost))) /\ consumer' = Fails
  /\ UNCHANGED <<field, requests, owned, staging, staged, budget, layer, context, glError>>

(* Only an acknowledged release makes room for another request; one that is *)
(* not acknowledged fails the transfer.                                     *)
releaseBatch ==
  /\ consumer.at = "releasing"
  /\ LET b == consumer.batch
     IN  \/ /\ ~consumer.failed
            /\ requests' = [Asked(consumer.next) EXCEPT ![b] = "released"]
            /\ consumer' = [consumer EXCEPT
                 !.at = "transferring", !.next = @ + 1,
                 !.pending = IF consumer.next \in Batches THEN Append(@, consumer.next) ELSE @]
         \/ /\ requests' = [requests EXCEPT ![b] = "released"]
            /\ consumer' = [consumer EXCEPT !.at = "draining", !.failed = TRUE]
  /\ UNCHANGED <<field, owned, staging, staged, budget, layer, context, glError>>

drainsBatch(b) ==
  /\ consumer.at = "draining"
  /\ b \in ToSet(consumer.pending) /\ requests[b] = "held"
  /\ requests' = [requests EXCEPT ![b] = "released"]
  /\ UNCHANGED <<field, consumer, owned, staging, staged, budget, layer, context, glError>>

(* Mutant: whoever fails does not wait for what is still under way.         *)
drained_at_once ==
  /\ consumer.at = "draining"
  /\ staging' = FALSE /\ staged' = {}
  /\ consumer' = [consumer EXCEPT !.at = "failed"]
  /\ UNCHANGED <<field, requests, owned, budget, layer, context, glError>>

drained ==
  /\ consumer.at = "draining"
  /\ \A b \in ToSet(consumer.pending) : requests[b] \notin {"requested", "held"}
  /\ staging' = FALSE /\ staged' = {}
  /\ consumer' = [consumer EXCEPT !.at = "failed"]
  /\ UNCHANGED <<field, requests, owned, budget, layer, context, glError>>

(* The error flag is read, and with that cleared, once for all the chunks.  *)
requireCompleteStaging ==
  /\ consumer.at = "transferring" /\ consumer.pending = <<>>
  /\ LET complete == owned /\ staging /\ ToSet(requiredChunkIndices) \subseteq staged
     IN  IF complete /\ ~glError
           THEN consumer' = [consumer EXCEPT !.at = "committed"] /\ UNCHANGED staged
           ELSE consumer' = [consumer EXCEPT !.at = "failed"] /\ staged' = {}
  /\ staging' = FALSE
  /\ glError' = FALSE
  /\ UNCHANGED <<field, requests, owned, budget, layer, context>>

-----------------------------------------------------------------------------
(* Supersession, the other layer, and the context.                          *)

supersede ==
  /\ owned
  /\ owned' = FALSE
  /\ \/ UNCHANGED <<staging, staged>>
     \/ staging' = FALSE /\ staged' = IF staging THEN {} ELSE staged
  /\ UNCHANGED <<field, requests, consumer, budget, layer, context, glError>>

(* The Site layer draws with the same context, and clears its error flag    *)
(* before it uploads.                                                       *)
clearWebGlErrors ==
  /\ glError
  /\ glError' = FALSE
  /\ UNCHANGED <<transfer, staging, staged, budget, layer, context>>

contextLost ==
  /\ ~lost /\ epoch < MaxLosses
  /\ lost' = TRUE
  /\ UNCHANGED <<transfer, staging, staged, budget, layer, epoch, glError>>

(* The event comes after the loss, and before the context is back.          *)
handleContextLost ==
  /\ lost /\ textures # {}
  /\ fences' = discardFences
  /\ staging' = FALSE /\ staged' = IF staging THEN {} ELSE staged
  /\ textures' = {} /\ rehydrating' = 0 /\ recovering' = TRUE
  /\ UNCHANGED <<transfer, step, slice, waited, spent, context, glError>>

(* The layer is added again, and starts to upload what it had.              *)
onAdd ==
  /\ lost /\ recovering /\ textures = {}
  /\ lost' = FALSE /\ epoch' = epoch + 1
  /\ fences' = discardFences
  /\ rehydrating' = epoch + 1
  /\ glError' = FALSE
  /\ UNCHANGED <<transfer, staging, staged, step, slice, waited, spent, textures, recovering>>

startTimeSlicedRehydration(u) ==
  /\ u = rehydrating /\ step[u] = "idle" /\ ~lost
  /\ \/ /\ textures # 1 .. Resident
        /\ yieldIfSpent(u, 0, spent)
        /\ UNCHANGED <<rehydrating, glError>>
     \/ /\ textures = 1 .. Resident
        /\ rehydrating' = 0 /\ glError' = FALSE
        /\ UNCHANGED budget
  /\ UNCHANGED <<transfer, staging, staged, textures, recovering, context>>

(* The active observation is there and drawn.                               *)
completePendingFence ==
  /\ recovering /\ ~lost /\ 1 \in textures
  /\ recovering' = FALSE
  /\ UNCHANGED <<transfer, staging, staged, budget, textures, rehydrating, context, glError>>

-----------------------------------------------------------------------------
Uploads == \E u \in Uploader :
  \/ nextAnimationFrame(u) \/ uploadRawTextureTimeSliced(u) \/ uploadFails(u)
  \/ u # 0 /\ startTimeSlicedRehydration(u)

Transfers ==
  \/ requestManifest \/ releaseManifest \/ manifestFails \/ beginStaging \/ cannotBegin
  \/ consumes \/ uploadStagedChunk \/ batchEnds \/ releaseBatch
  \/ \E b \in Batches : drainsBatch(b)
  \/ drained \/ requireCompleteStaging

Answers == \E b \in DOMAIN requests : answered(b)

Context == contextLost \/ handleContextLost \/ onAdd \/ completePendingFence

Next == Uploads \/ Transfers \/ Answers \/ Context \/ supersede \/ clearWebGlErrors

Spec == Init /\ [][Next]_vars

(* Frames and answers come; nothing else must.                              *)
FairSpec ==
  /\ Spec /\ WF_vars(Transfers)
  /\ \A u \in Uploader :
        WF_vars(nextAnimationFrame(u) \/ uploadRawTextureTimeSliced(u) \/ uploadFails(u))
  /\ \A b \in 0 .. Cardinality(Index) : WF_vars(answered(b))

-----------------------------------------------------------------------------
(* Nothing measured is left out: what is committed has every chunk that     *)
(* shows a measured cell, its own or one it blends in from a neighbour,     *)
(* whatever was cancelled, lost or reordered on the way.                    *)
CommittedIsComplete ==
  consumer.at = "committed" =>
    \A i \in Index : haloOf(i) \cap field # {} => i \in staged

(* Uploads never get further ahead of the GPU than allowed, a frame for     *)
(* each upload that waits apart, and never ask about a fence of a context   *)
(* that is gone, although two uploads share them.                           *)
FencesAreSound ==
  /\ Len(fences) <= UPLOAD_FRAMES_IN_FLIGHT
                      + Cardinality({u \in Uploader : step[u] \in {"frame", "gpu"}})
  /\ lost \/ \A i \in 1 .. Len(fences) : fences[i] = epoch

(* Every payload that was asked for is released in the end: speculative     *)
(* ones, and those of a transfer that failed or was superseded, too.        *)
LeasesReturn ==
  \A b \in 0 .. Cardinality(Index) :
    requests[b] \in {"requested", "held"}
      ~> requests[b] \in {"failed", "released"}
=============================================================================
