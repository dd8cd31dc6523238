--------------------------- MODULE NationalAnswers ---------------------------
(***************************************************************************)
(* What the transfer client makes of the National store's answers          *)
(* (src/packed-sweep/transferClient.ts).  Every answer carries a snapshot  *)
(* of the store, which the client checks before anything is done with it;  *)
(* an answer it refuses counts as a failed call.  A preparation refused    *)
(* that way leaves an observation staged that the frontend never heard of, *)
(* and a refused seal is asked for again without end.                      *)
(***************************************************************************)
EXTENDS NationalTransaction

sameNationalHistoryIdentity(left, right) == left = right

(* The bytes add up by the way the store computes the total.                *)
assertNationalHistorySnapshot ==
  /\ Len(retained) <= HISTORY_LIMIT
  /\ Len(backfill_candidates) < HISTORY_LIMIT
  /\ total_bytes <= BACKEND_TARGET
  /\ \A i, j \in 1 .. Len(retained) : i < j => retained[i].time < retained[j].time
  /\ \A s \in staged : \A f \in ToSet(retained) : ~sameNationalHistoryIdentity(f, s.frame)

(* A replay costs nothing and cannot be of the current observation.         *)
invokeNationalHistoryPreparation(reused) ==
  /\ assertNationalHistorySnapshot
  /\ \E s \in staged :
        s.kind = kind /\ \A f \in candidate : sameNationalHistoryIdentity(s.frame, f)
  /\ reused => kind # "current"

(* What was evicted is what the store dropped, and so retained no more.     *)
commitNationalHistoryFrame ==
  assertNationalHistorySnapshot /\ staged = {} /\ reversible_commit # {}

finalizeNationalHistoryFrame ==
  assertNationalHistorySnapshot /\ staged = {} /\ reversible_commit = {}

rollbackNationalHistoryFrame ==
  assertNationalHistorySnapshot /\ staged = {} /\ reversible_commit = {}

AnswersMatch ==
  /\ generation' # 0 => assertNationalHistorySnapshot'
  /\ prepareAnswered => invokeNationalHistoryPreparation(FALSE)'
  /\ (\E k \in Kind : retryableStagedPreparation(k))
       => invokeNationalHistoryPreparation(TRUE)'
  /\ commitAnswered => commitNationalHistoryFrame'
  /\ finalizeNationalHistory => finalizeNationalHistoryFrame'
  /\ rollbackNationalHistory => rollbackNationalHistoryFrame'

(* The store gives no answer that the client refuses: neither to a command  *)
(* of the chain, however often its answers were lost and it was called      *)
(* again, nor to a question for the snapshot in between.                    *)
AnswersAreAccepted == [][AnswersMatch]_txVars
=============================================================================
