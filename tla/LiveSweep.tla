------------------------------ MODULE LiveSweep ------------------------------
(***************************************************************************)
(* One live sweep session (src-tauri/src/live_pipeline.rs,                 *)
(* LiveSweepSession) over the assembler of ChunkAssembly.  It polls one    *)
(* slot of the provider's ring, downloads the listed chunks of the volume  *)
(* it has selected a window at a time, ingests them in sequence, captures  *)
(* each contiguous prefix they reach and decodes those of a window         *)
(* concurrently; the earliest that holds a safe sweep is published.  The   *)
(* probe then waits for the complete volume.                               *)
(*                                                                         *)
(* The provider uploads the objects of the slot in any order while the     *)
(* session runs, downloads may fail, decoders finish in any order, and the *)
(* generation may be superseded at any moment.  The request may be dropped *)
(* (its timeout, a prefetch aborted) at every await.                       *)
(*                                                                         *)
(* Abstracted: what a decode yields, to whether the prefix holds a safe    *)
(* sweep; the evidence's clocks and its gap and duplicate counts.          *)
(***************************************************************************)
EXTENDS ChunkAssembly, SequencesExt

CONSTANTS
  Object,                 (* the chunks the provider may upload to the slot  *)
  Promised,               (* those it does upload, sooner or later           *)
  VolumeTimeConstraint,   (* [kind, started] of the sessions considered      *)
  CHUNK_DOWNLOAD_WINDOW,
  CONCURRENT_SAFE_DECODE_INPUT_BYTES,
  Faults                  (* subset of {"download", "superseded", "dropped"} *)

ASSUME WindowAssumption == CHUNK_DOWNLOAD_WINDOW \in Nat \ {0}
ASSUME ObjectAssumption == Promised \subseteq Object /\ Object \subseteq Chunk

VARIABLES
  uploaded,               (* objects in the slot                             *)
  first_safe, first_malformed,   (* what the volume's prefixes hold          *)
  volume_time_constraint,
  selected_started_at,    (* 0 until the volume is selected                  *)
  token_current,
  phase,                  (* where the session's future is suspended         *)
  error,                  (* why it failed                                   *)
  candidates,             (* listed objects not yet ingested, in order       *)
  downloaded,             (* results of the window under ingestion           *)
  downloaded_objects,     (* downloaded_keys                                 *)
  boundaries,             (* captured prefixes waiting for a decode          *)
  group, finished,        (* those being decoded, and those that are         *)
  rescued,                (* the chunk failure the decode under way preceded *)
  decoder_attempts,
  published_through,      (* 0 until a safe sweep is published               *)
  reached                 (* history: every prefix captured, in order        *)

providerVars == <<uploaded, first_safe, first_malformed, volume_time_constraint>>
pollVars     == <<selected_started_at, candidates, downloaded, downloaded_objects>>
decodeVars   == <<boundaries, group, finished, rescued, decoder_attempts, published_through>>
sweepVars    == <<providerVars, pollVars, decodeVars, assemblerVars,
                  token_current, phase, error, reached>>

SafeDecodeBoundary == [through: Sequence, input_bytes: 0 .. MAX_REALTIME_VOLUME_BYTES]
Ended   == {"failed", "complete"}
Awaits  == {"sleeping", "listing", "downloading", "decoding", "completing"}
Results == {"ok", "failed"}

LiveSweepInit ==
  /\ AssemblerInit
  /\ uploaded = {}
  /\ first_safe \in 2 .. MAX_REALTIME_CHUNKS + 1
  /\ first_malformed \in first_safe .. MAX_REALTIME_CHUNKS + 1
  /\ volume_time_constraint \in VolumeTimeConstraint
  /\ selected_started_at = IF volume_time_constraint.kind = "exact"
                           THEN volume_time_constraint.started ELSE 0
  /\ token_current = TRUE
  /\ phase = "sleeping" /\ error = "none"
  /\ candidates = <<>> /\ downloaded = <<>> /\ downloaded_objects = {}
  /\ boundaries = <<>> /\ group = <<>> /\ finished = {} /\ rescued = "none"
  /\ decoder_attempts = 0 /\ published_through = 0 /\ reached = <<>>

(* decode_safe_lowest_sweep of a prefix: radials are missing until          *)
(* first_safe, and a malformed chunk spoils every prefix that contains it.  *)
DecodeOf(b) == IF b.through >= first_malformed THEN "malformed"
               ELSE IF b.through >= first_safe THEN "safe" ELSE "incomplete"

attempt_safe_decode == published_through = 0

Fail(why) == phase' = "failed" /\ error' = why
Await(p)  == phase' = p /\ UNCHANGED error

(* wait_for_complete_volume looks at the volume after each of its polls.    *)
PollEnds == IF published_through # 0 /\ complete' THEN "completing" ELSE "sleeping"

(* ------------------------------ environment ----------------------------- *)

(* The slot is read only by a listing: whatever was uploaded since the last *)
(* one is as good as uploaded just before the next is answered.             *)
upload(o) ==
  /\ o \notin uploaded /\ phase = "listing"
  /\ uploaded' = uploaded \cup {o}
  /\ UNCHANGED <<first_safe, first_malformed, volume_time_constraint, pollVars,
                 decodeVars, assemblerVars, token_current, phase, error, reached>>

supersede ==
  /\ "superseded" \in Faults /\ token_current /\ phase \notin Ended
  /\ token_current' = FALSE
  /\ UNCHANGED <<providerVars, pollVars, decodeVars, assemblerVars, phase, error, reached>>

(* The future is dropped, or its own deadline passes while it sleeps.       *)
dropRequest ==
  /\ "dropped" \in Faults /\ phase \in Awaits
  /\ Fail("dropped")
  /\ UNCHANGED <<providerVars, pollVars, decodeVars, assemblerVars, token_current, reached>>

(* ------------------------------- one poll ------------------------------- *)

accepts(started) ==
  CASE volume_time_constraint.kind = "exact"  -> started = volume_time_constraint.started
    [] volume_time_constraint.kind = "after"  -> started > volume_time_constraint.started
    [] volume_time_constraint.kind = "before" -> started < volume_time_constraint.started

Starts(objects) == {o.volume.started : o \in objects}

select_volume_start(objects) ==
  IF selected_started_at # 0 THEN selected_started_at
  ELSE IF {s \in Starts(objects) : accepts(s)} = {} THEN 0
  ELSE Max({s \in Starts(objects) : accepts(s)})

(* By sequence; of two objects with the same, by key: E comes before I.     *)
ListedBefore(a, b) ==
  a.sequence < b.sequence \/ (a.sequence = b.sequence /\ a.kind = "end")

(* The one way to list them so, as a set.                                   *)
InSequence(objects) ==
  {list \in SetToSeqs(objects) :
     \A i, j \in DOMAIN list : i < j => ListedBefore(list[i], list[j])}

(* ensure_current failed before or after an await: the session ends.        *)
tokenStale ==
  /\ ~token_current /\ phase \in {"sleeping", "listing"}
  /\ Fail("stale")
  /\ UNCHANGED <<providerVars, pollVars, decodeVars, assemblerVars, token_current, reached>>

pollBegins ==
  /\ phase = "sleeping" /\ token_current
  /\ Await("listing")
  /\ UNCHANGED <<providerVars, pollVars, decodeVars, assemblerVars, token_current, reached>>

pollListed ==
  /\ phase = "listing" /\ token_current
  /\ UNCHANGED assemblerVars
  /\ LET started == select_volume_start(uploaded)
         fresh   == {o \in uploaded : o.volume.started = started} \ downloaded_objects
     IN  /\ selected_started_at' = started
         /\ candidates' \in InSequence(fresh)
         /\ Await(IF fresh = {} THEN PollEnds ELSE "downloading")
  /\ UNCHANGED <<providerVars, downloaded, downloaded_objects, decodeVars,
                 token_current, reached>>

WindowSize == Min({CHUNK_DOWNLOAD_WINDOW, Len(candidates)})

(* join_all: the window is downloaded, each object with its own outcome.    *)
windowDownloaded ==
  /\ phase = "downloading"
  /\ downloaded' \in [1 .. WindowSize ->
                        IF "download" \in Faults THEN Results ELSE {"ok"}]
  /\ Await("ingesting")
  /\ UNCHANGED <<providerVars, selected_started_at, candidates, downloaded_objects,
                 decodeVars, assemblerVars, token_current, reached>>

(* --------------------------- ingesting a window ------------------------- *)

contiguous_byte_len == MapThenSumSet(LAMBDA s : chunks[s].size, 1 .. contiguous_through)

GroupBytes(bs, k) == FoldLeft(LAMBDA sum, b : sum + b.input_bytes, 0, SubSeq(bs, 1, k))

(* How many of the boundaries decode together: as many as share the budget, *)
(* and one at least.                                                        *)
GroupSize(bs) ==
  Max({k \in 1 .. Len(bs) :
         k = 1 \/ GroupBytes(bs, k) <= CONCURRENT_SAFE_DECODE_INPUT_BYTES})

(* Mutant: the answers are read from the last boundary on.                  *)
startDecodes_latest_first(bs, failure) ==
  /\ Await("decoding")
  /\ group' = Reverse(SubSeq(bs, 1, GroupSize(bs)))
  /\ boundaries' = SubSeq(bs, GroupSize(bs) + 1, Len(bs))
  /\ finished' = {} /\ rescued' = failure

(* Mutant: the boundaries the budget leaves over are forgotten.             *)
startDecodes_first_group(bs, failure) ==
  /\ Await("decoding")
  /\ group' = SubSeq(bs, 1, GroupSize(bs)) /\ boundaries' = <<>>
  /\ finished' = {} /\ rescued' = failure

startDecodes(bs, failure) ==
  /\ Await("decoding")
  /\ group' = SubSeq(bs, 1, GroupSize(bs)) /\ boundaries' = SubSeq(bs, GroupSize(bs) + 1, Len(bs))
  /\ finished' = {} /\ rescued' = failure

noDecodes == boundaries' = <<>> /\ group' = <<>> /\ finished' = {} /\ rescued' = "none"

AfterWindow(rest) == Await(IF rest # <<>> THEN "downloading" ELSE PollEnds)

(* Mutant: the failure is reported, whatever the window holds.              *)
chunkFails_at_once(why) ==
  /\ candidates' = <<>> /\ downloaded' = <<>>
  /\ Fail(why) /\ noDecodes

(* A chunk could not be downloaded or is refused: prefixes captured before  *)
(* it in its window are decoded before the failure is reported.             *)
chunkFails(why) ==
  /\ candidates' = <<>> /\ downloaded' = <<>>
  /\ IF token_current /\ boundaries # <<>>
     THEN startDecodes(boundaries, why)
     ELSE Fail(why) /\ noDecodes

downloadFailed ==
  /\ phase = "ingesting" /\ Head(downloaded) = "failed"
  /\ chunkFails("download")
  /\ UNCHANGED <<providerVars, selected_started_at, downloaded_objects, assemblerVars,
                 token_current, decoder_attempts, published_through, reached>>

ingestStale ==
  /\ phase = "ingesting" /\ Head(downloaded) = "ok" /\ ~token_current
  /\ Fail("stale")
  /\ UNCHANGED <<providerVars, pollVars, decodeVars, assemblerVars, token_current, reached>>

(* An object is downloaded once, so a chunk refused is never a duplicate,   *)
(* and of the selected volume, so it is never late.                         *)
Refused(c) == ~(OpensVolume(c) \/ (Acceptable(c) /\ Fits(c)))

ingestRefused ==
  /\ phase = "ingesting" /\ Head(downloaded) = "ok" /\ token_current
  /\ Refused(Head(candidates))
  /\ chunkFails("assembly")
  /\ UNCHANGED <<providerVars, selected_started_at, downloaded_objects,
                 token_current, decoder_attempts, published_through, reached>>
  /\ \/ refuseTooLarge(Head(candidates))
     \/ ~Acceptable(Head(candidates)) /\ UNCHANGED assemblerVars

(* Mutant: a chunk that fills a gap captures no prefix.                     *)
safe_decode_boundary_in_step ==
  IF attempt_safe_decode /\ contiguous_through' = contiguous_through + 1
  THEN <<[through |-> contiguous_through', input_bytes |-> contiguous_byte_len']>>
  ELSE <<>>

safe_decode_boundary ==
  IF attempt_safe_decode /\ contiguous_through' > contiguous_through
  THEN <<[through |-> contiguous_through', input_bytes |-> contiguous_byte_len']>>
  ELSE <<>>

ingestAccepted ==
  /\ phase = "ingesting" /\ Head(downloaded) = "ok" /\ token_current
  /\ openVolume(Head(candidates)) \/ storeChunk(Head(candidates))
  /\ candidates' = Tail(candidates) /\ downloaded' = Tail(downloaded)
  /\ downloaded_objects' = downloaded_objects \cup {Head(candidates)}
  /\ reached' = reached \o safe_decode_boundary
  /\ LET captured == boundaries \o safe_decode_boundary
     IN  IF Tail(downloaded) = <<>> /\ captured # <<>>
         THEN startDecodes(captured, "none")
         ELSE /\ boundaries' = captured /\ UNCHANGED <<group, finished, rescued>>
              /\ IF Tail(downloaded) = <<>> THEN AfterWindow(Tail(candidates))
                 ELSE Await("ingesting")
  /\ UNCHANGED <<providerVars, selected_started_at, token_current,
                 decoder_attempts, published_through>>

(* ------------------------------- decoding ------------------------------- *)

decoderFinishes(b) ==
  /\ phase = "decoding" /\ b \notin finished
  /\ finished' = finished \cup {b}
  /\ UNCHANGED <<providerVars, pollVars, boundaries, group, rescued, decoder_attempts,
                 published_through, assemblerVars, token_current, phase, error, reached>>

(* earliest_safe_decode reads the answers in the order of the boundaries.   *)
readAnswer(is) ==
  /\ phase = "decoding" /\ Head(group) \in finished
  /\ DecodeOf(Head(group)) = is
  /\ decoder_attempts' = decoder_attempts + 1
  /\ UNCHANGED <<providerVars, selected_started_at, downloaded_objects,
                 token_current, reached>>

answerIncomplete ==
  /\ readAnswer("incomplete")
  /\ UNCHANGED <<assemblerVars, published_through, candidates, downloaded>>
  /\ IF Tail(group) # <<>>
     THEN /\ Await("decoding") /\ group' = Tail(group) /\ finished' = finished \ {Head(group)}
          /\ UNCHANGED <<boundaries, rescued>>
     ELSE IF boundaries # <<>> THEN startDecodes(boundaries, rescued)
     ELSE /\ noDecodes
          /\ IF rescued # "none" THEN Fail(rescued) ELSE AfterWindow(candidates)

answerMalformed ==
  /\ readAnswer("malformed")
  /\ Fail("decode") /\ noDecodes /\ candidates' = <<>> /\ downloaded' = <<>>
  /\ UNCHANGED <<assemblerVars, published_through>>

publish_safe_sweep ==
  /\ readAnswer("safe")
  /\ noDecodes /\ candidates' = <<>> /\ downloaded' = <<>>
  /\ \/ /\ token_current
        /\ mark_safe_sweep_published
        /\ published_through' = Head(group).through
        /\ Await("published")
     \/ /\ ~token_current
        /\ Fail("stale")
        /\ UNCHANGED <<assemblerVars, published_through>>

(* -------------------------- the complete volume ------------------------- *)

waitForComplete ==
  /\ phase = "published"
  /\ Await("sleeping")
  /\ UNCHANGED <<providerVars, pollVars, decodeVars, assemblerVars, token_current, reached>>

completeDecoded ==
  /\ phase = "completing"
  /\ IF DecodeOf([through |-> terminal_sequence]) # "safe" THEN Fail("decode")
     ELSE IF ~token_current THEN Fail("stale") ELSE Await("complete")
  /\ UNCHANGED <<providerVars, pollVars, decodeVars, assemblerVars, token_current, reached>>

SessionNext ==
  \/ tokenStale \/ pollBegins \/ pollListed \/ windowDownloaded
  \/ downloadFailed \/ ingestStale \/ ingestRefused \/ ingestAccepted
  \/ \E b \in ToSet(group) : decoderFinishes(b)
  \/ answerIncomplete \/ answerMalformed \/ publish_safe_sweep
  \/ waitForComplete \/ completeDecoded

LiveSweepNext ==
  SessionNext \/ (\E o \in Object : upload(o)) \/ supersede \/ dropRequest

(* The session's own steps end: requests have a timeout and decoders their  *)
(* own threads.  The provider uploads what it promised, whose fairness must *)
(* be strong since uploads are folded into listings.                        *)
LiveSweepSpec ==
  /\ LiveSweepInit /\ [][LiveSweepNext]_sweepVars
  /\ WF_sweepVars(SessionNext)
  /\ SF_sweepVars(\E o \in Promised : upload(o))

(* ------------------------------- properties ----------------------------- *)

(* Decoding a window's prefixes together changes nothing: the sweep that is *)
(* published, its boundary and the number of attempts are those of trying   *)
(* every prefix in turn as it was reached, over every window and poll       *)
(* (docs/31_RADAR_CORE_OPTIMIZATION.md:310).                                *)
AsTryingEachInTurn ==
  published_through # 0 =>
    /\ decoder_attempts \in 1 .. Len(reached)
    /\ reached[decoder_attempts].through = published_through
    /\ DecodeOf(reached[decoder_attempts]) = "safe"
    /\ \A i \in 1 .. decoder_attempts - 1 : DecodeOf(reached[i]) = "incomplete"

(* A session that goes to sleep before it has published has tried all it    *)
(* holds: the prefix it could decode now is the last it tried, and none of  *)
(* those it tried holds a safe sweep.                                       *)
NothingSafeIsMissed ==
  phase = "sleeping" /\ published_through = 0 =>
    /\ decoder_attempts = Len(reached)
    /\ \A i \in 1 .. Len(reached) : DecodeOf(reached[i]) = "incomplete"
    /\ active_volume # NoVolume => Last(reached).through = contiguous_through

(* A chunk that cannot be downloaded or is refused does not cost a safe     *)
(* sweep an earlier prefix already holds, unless the generation ended too   *)
(* (docs/31_RADAR_CORE_OPTIMIZATION.md:318).                                *)
FailureKeepsSafeSweep ==
  error \in {"download", "assembly"} /\ token_current /\ published_through = 0 =>
    \A i \in 1 .. Len(reached) : DecodeOf(reached[i]) # "safe"

(* The selected volume is sound and the objects promised for it hold a sweep. *)
SafeSweepIsUploaded ==
  /\ selected_started_at # 0 /\ first_malformed > MAX_REALTIME_CHUNKS
  /\ \A s \in 1 .. first_safe : \E o \in Promised :
       o.sequence = s /\ o.volume.started = selected_started_at

(* A safe sweep arrives: a selected volume that holds one is published, in  *)
(* however many pieces and in whatever order it comes, unless the request   *)
(* ends, a download fails or a chunk is refused.                            *)
SafeSweepArrives ==
  SafeSweepIsUploaded ~>
    (published_through # 0 \/ error \in {"assembly", "download", "dropped", "stale"})
=============================================================================
