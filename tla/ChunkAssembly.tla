---------------------------- MODULE ChunkAssembly ----------------------------
(***************************************************************************)
(* The chunk assembler (src-tauri/src/chunk_assembly.rs).  It accepts      *)
(* downloaded chunks of real-time volumes, in any order and from any       *)
(* volume, and decides which bytes may be decoded: the contiguous prefix   *)
(* of the active volume, and the whole of it once its end chunk is there.  *)
(*                                                                         *)
(* The caller is unconstrained: any chunk may be ingested at any moment.   *)
(* A chunk that is late, a duplicate or refused changes nothing and is no  *)
(* step, but for an end chunk that does not fit, which is remembered as    *)
(* the end although it is not stored.  LiveSweep adds the one caller.      *)
(*                                                                         *)
(* Bytes are reduced to their number, size: content only tells a duplicate *)
(* from a conflict, and neither is stored.  Key, etag and modification     *)
(* time only describe a chunk; those of other sites and generations are    *)
(* refused on sight, and cancel() has no caller.                           *)
(***************************************************************************)
EXTENDS Integers, FiniteSets

CONSTANTS
  Volume,                    (* identities [index, started] of one site      *)
  MAX_REALTIME_CHUNKS,       (* highest sequence of a volume                 *)
  MAX_REALTIME_CHUNK_BYTES,  (* largest chunk                                *)
  MAX_REALTIME_VOLUME_BYTES  (* largest assembled volume                     *)

ASSUME LimitAssumption ==
  /\ MAX_REALTIME_CHUNKS \in Nat \ {0}
  /\ MAX_REALTIME_CHUNK_BYTES \in Nat \ {0}
  /\ MAX_REALTIME_VOLUME_BYTES \in Nat
  /\ MAX_REALTIME_CHUNK_BYTES <= MAX_REALTIME_VOLUME_BYTES

ASSUME VolumeAssumption == Volume \subseteq [index: Nat \ {0}, started: Nat \ {0}]

ChunkKind == {"start", "intermediate", "end"}
Sequence  == 1 .. MAX_REALTIME_CHUNKS

Chunk == [volume: Volume, sequence: Sequence, kind: ChunkKind,
          size: 1 .. MAX_REALTIME_CHUNK_BYTES]

(* The value of active_volume before the first start chunk.                 *)
NoVolume == [index |-> 0, started |-> 0]

VARIABLES
  active_volume,          (* identity of the volume being assembled          *)
  chunks,                 (* its stored chunks, by sequence                  *)
  terminal_sequence,      (* sequence of its end chunk, 0 while unknown      *)
  total_bytes,
  safe_sweep_published,   (* a safe sweep was published from it              *)
  published_volumes       (* history: every volume one was published from    *)

assemblerVars == <<active_volume, chunks, terminal_sequence, total_bytes,
                   safe_sweep_published, published_volumes>>

AssemblerTypeOK ==
  /\ active_volume \in Volume \cup {NoVolume}
  /\ DOMAIN chunks \subseteq Sequence
  /\ \A s \in DOMAIN chunks : chunks[s] \in Chunk
  /\ terminal_sequence \in 0 .. MAX_REALTIME_CHUNKS
  /\ total_bytes \in 0 .. MAX_REALTIME_VOLUME_BYTES
  /\ safe_sweep_published \in BOOLEAN
  /\ published_volumes \subseteq Volume

NoChunks == [s \in {} |-> s]

AssemblerInit ==
  /\ active_volume = NoVolume
  /\ chunks = NoChunks
  /\ terminal_sequence = 0
  /\ total_bytes = 0
  /\ safe_sweep_published = FALSE
  /\ published_volumes = {}

(* ------------------------------ what is held ---------------------------- *)

(* The prefix through n is stored and chunk n + 1 is not.                   *)
ContiguousThrough(n) == 1 .. n \subseteq DOMAIN chunks /\ n + 1 \notin DOMAIN chunks

contiguous_through == CHOOSE n \in 0 .. MAX_REALTIME_CHUNKS : ContiguousThrough(n)

complete == terminal_sequence # 0 /\ ContiguousThrough(terminal_sequence)

(* --------------------------------- ingest ------------------------------- *)

validate_sequence_type(c) == (c.sequence = 1) <=> (c.kind = "start")

(* The first chunk of the first volume, or of one newer than the active.    *)
OpensVolume(c) ==
  /\ c.sequence = 1
  /\ active_volume = NoVolume \/ c.volume.started > active_volume.started

(* Nothing may follow the end of a volume, and its end may not move.        *)
EndAllows(c) ==
  /\ terminal_sequence # 0 =>
       c.sequence <= terminal_sequence /\ (c.kind = "end" => c.sequence = terminal_sequence)
  /\ c.kind = "end" => \A s \in DOMAIN chunks : s <= c.sequence

Fits(c) == total_bytes + c.size <= MAX_REALTIME_VOLUME_BYTES

Acceptable(c) ==
  /\ validate_sequence_type(c)
  /\ c.volume = active_volume
  /\ c.sequence \notin DOMAIN chunks
  /\ EndAllows(c)

TerminalAfter(c) == IF c.kind = "end" THEN c.sequence ELSE terminal_sequence

(* A first volume, or a rollover that abandons the active one, complete or  *)
(* not, with all that was known of it.                                      *)
openVolume(c) ==
  /\ validate_sequence_type(c) /\ OpensVolume(c)
  /\ active_volume' = c.volume
  /\ chunks' = [s \in {1} |-> c]
  /\ terminal_sequence' = 0
  /\ total_bytes' = c.size
  /\ safe_sweep_published' = FALSE
  /\ UNCHANGED published_volumes

storeChunk(c) ==
  /\ Acceptable(c) /\ Fits(c)
  /\ chunks' = [s \in DOMAIN chunks \cup {c.sequence} |->
                  IF s = c.sequence THEN c ELSE chunks[s]]
  /\ terminal_sequence' = TerminalAfter(c)
  /\ total_bytes' = total_bytes + c.size
  /\ UNCHANGED <<active_volume, safe_sweep_published, published_volumes>>

(* VolumeTooLarge is found after the end has been noted.                    *)
refuseTooLarge(c) ==
  /\ Acceptable(c) /\ ~Fits(c)
  /\ terminal_sequence' = TerminalAfter(c)
  /\ UNCHANGED <<active_volume, chunks, total_bytes, safe_sweep_published,
                 published_volumes>>

ingest(c) == openVolume(c) \/ storeChunk(c) \/ refuseTooLarge(c)

mark_safe_sweep_published ==
  /\ active_volume # NoVolume /\ ~safe_sweep_published
  /\ safe_sweep_published' = TRUE
  /\ published_volumes' = published_volumes \cup {active_volume}
  /\ UNCHANGED <<active_volume, chunks, terminal_sequence, total_bytes>>

AssemblerNext == (\E c \in Chunk : ingest(c)) \/ mark_safe_sweep_published

AssemblerSpec == AssemblerInit /\ [][AssemblerNext]_assemblerVars

(* ------------------------------- properties ----------------------------- *)

(* Whatever arrives and in whatever order, the bytes offered to a decoder   *)
(* are of one volume, each chunk at its own place and the first a start.    *)
OneVolumeIsAssembled ==
  /\ active_volume # NoVolume => 1 \in DOMAIN chunks
  /\ \A s \in DOMAIN chunks :
       /\ chunks[s].volume = active_volume /\ chunks[s].sequence = s
       /\ (s = 1) <=> (chunks[s].kind = "start")

(* No chunk is stored behind the end of the volume, and an end chunk is     *)
(* stored nowhere else.                                                     *)
NothingFollowsTheEnd ==
  \A s \in DOMAIN chunks :
    /\ terminal_sequence # 0 => s <= terminal_sequence
    /\ chunks[s].kind = "end" => s = terminal_sequence

(* Volumes only advance: an older or conflicting volume never replaces the  *)
(* active one, and what was assembled of a volume is kept until the next.   *)
(* A prefix handed to a decoder is still a prefix when the decoder answers. *)
AssemblyOnlyGrows ==
  [][ \/ active_volume = NoVolume
      \/ active_volume'.started > active_volume.started
      \/ /\ active_volume' = active_volume
         /\ \A s \in DOMAIN chunks : s \in DOMAIN chunks' /\ chunks'[s] = chunks[s]
    ]_assemblerVars

(* A complete volume is final: until the next volume opens it stays         *)
(* complete and keeps exactly the chunks it has.                            *)
CompleteIsFinal ==
  [][ complete /\ active_volume' = active_volume =>
        complete' /\ chunks' = chunks ]_assemblerVars

(* One safe sweep is published from a volume, also when others come after   *)
(* it and chunks of it are delivered again.                                 *)
PublishedOncePerVolume ==
  [][ safe_sweep_published' /\ ~safe_sweep_published =>
        active_volume' \notin published_volumes ]_assemblerVars
=============================================================================
