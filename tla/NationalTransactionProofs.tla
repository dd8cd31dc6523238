---------------------- MODULE NationalTransactionProofs ----------------------
(***************************************************************************)
(* Proofs about the National history, for any number of commands under     *)
(* way, any limit, memory target and patience, and any number of           *)
(* observations, generations and documents.                                *)
(*                                                                         *)
(* Of the store: it is a reversible history whatever happens; and, as long *)
(* as the page is not replaced, it stays within its memory and its         *)
(* backfill leaves no hole. Of the transaction between frontend and store, *)
(* whichever of the faults may happen: the chain of operations uses the    *)
(* store as the store allows, so what is proved of the store holds here    *)
(* too; renderer and store fall back to the same history; a commit keeps   *)
(* the observation it adds; and no answer is one the client refuses.       *)
(***************************************************************************)
EXTENDS NationalAnswers, FiniteSetTheorems, SequenceTheorems, TLAPS

(* The store.                                                               *)

TypeOK ==
  /\ published \in Time
  /\ document \in 1 .. MaxDocument
  /\ begun \in 0 .. MaxGeneration
  /\ live \in SUBSET Token
  /\ opened \in SUBSET Token
  /\ generation \in 0 .. MaxGeneration
  /\ retained \in Seq(Frame)
  /\ staged \in SUBSET Staged
  /\ backfill_candidates \in Seq(Time)
  /\ detail \in SUBSET Frame
  /\ reversible_commit \in SUBSET ReversibleCommit
  /\ last_finalized_commit \in SUBSET Frame
  /\ exact_pyramid \in SUBSET Frame
  /\ running \in [Command -> SUBSET Work]

-----------------------------------------------------------------------------
(* Sequences that grow at either end and lose their head.                   *)

LEMMA PredecessorsType ==
  ASSUME NEW newest \in Time
  PROVE  /\ Predecessors(newest) \in Seq(Time)
         /\ \A i \in 1 .. Len(Predecessors(newest)) : Predecessors(newest)[i] = newest - i
         /\ Len(Predecessors(newest)) < HISTORY_LIMIT
<1> DEFINE n == (IF newest < HISTORY_LIMIT THEN newest ELSE HISTORY_LIMIT) - 1
           e(i) == newest - i
<1>1. n \in Nat /\ n < HISTORY_LIMIT /\ \A i \in 1 .. n : e(i) \in Time
  BY LimitAssumption, BoundAssumption DEF Time
<1>2. Predecessors(newest) = [i \in 1 .. n |-> e(i)]
  BY DEF Predecessors
<1> HIDE DEF n, e
<1>3. [i \in 1 .. n |-> e(i)] \in Seq(Time)
  BY <1>1, IsASeq
<1>4. Len(Predecessors(newest)) = n
  BY <1>1, <1>2, <1>3
<1>5. QED
  BY <1>1, <1>2, <1>3, <1>4 DEF e

LEMMA EvictType ==
  ASSUME NEW frames \in Seq(Frame)
  PROVE  evict(frames) \in Seq(Frame)
<1>1. CASE Len(frames) > HISTORY_LIMIT
  <2>1. frames # <<>>
    BY <1>1, LimitAssumption
  <2>2. QED
    BY <1>1, <2>1, HeadTailProperties DEF evict
<1>2. QED
  BY <1>1 DEF evict

LEMMA JoinedType ==
  ASSUME TypeOK, NEW s \in staged
  PROVE  Joined(s) \in Seq(Frame)
<1>1. s.frame \in Frame /\ retained \in Seq(Frame)
  BY DEF TypeOK, Staged
<1>2. QED
  BY <1>1 DEF Joined

LEMMA TypeStep ==
  ASSUME TypeOK, [Next]_vars
  PROVE  TypeOK'
<1> USE DEF TypeOK
<1>1. CASE publish
  BY <1>1, BoundAssumption DEF publish, Time, broker, store
<1>2. ASSUME NEW g \in Generation, begin(g)
      PROVE  TypeOK'
  <2>1. [document |-> document, generation |-> g] \in Token
    BY DEF Token
  <2>2. g \in 0 .. MaxGeneration
    BY BoundAssumption DEF Generation
  <2>3. QED
    BY <1>2, <2>1, <2>2 DEF begin, store
<1>3. CASE cancel
  BY <1>3 DEF cancel, store
<1>4. CASE document_started
  BY <1>4, BoundAssumption DEF document_started, store
<1>5. ASSUME NEW c \in Command, CommandStep(c)
      PROVE  TypeOK'
  <2>1. ASSUME NEW work \in Work, Start(c, work), opened' \in SUBSET Token
        PROVE  TypeOK'
    BY <2>1 DEF Start, store
  <2>2. CASE prepare_current(c)
    <3>1. PICK token \in live \ opened : Start(c, Preparation("current", token, {}))
                                          /\ opened' = opened \cup {token}
      BY <2>2 DEF prepare_current
    <3>2. Preparation("current", token, {}) \in Work
      BY DEF Preparation, Work, Kind
    <3>3. opened' \in SUBSET Token
      BY <3>1
    <3>4. QED
      BY <2>1, <3>1, <3>2, <3>3
  <2>3. CASE prepare_predecessor(c)
    <3>1. PICK token \in live : Start(c, Preparation("predecessor", token, {Head(backfill_candidates)}))
      BY <2>3 DEF prepare_predecessor
    <3>2. Head(backfill_candidates) \in Time
      BY <2>3, HeadTailProperties DEF prepare_predecessor
    <3>3. Preparation("predecessor", token, {Head(backfill_candidates)}) \in Work
      BY <3>2 DEF Preparation, Work, Kind
    <3>4. opened' \in SUBSET Token
      BY <2>3 DEF prepare_predecessor
    <3>5. QED
      BY <2>1, <3>1, <3>3, <3>4
  <2>4. CASE prepare_newer(c)
    <3>1. PICK token \in live : Start(c, Preparation("newer", token, {Last(retained).time}))
      BY <2>4 DEF prepare_newer
    <3>2. Last(retained) \in Frame
      BY <2>4 DEF prepare_newer, Last
    <3>3. Preparation("newer", token, {Last(retained).time}) \in Work
      BY <3>2 DEF Preparation, Work, Kind, Frame
    <3>4. opened' \in SUBSET Token
      BY <2>4 DEF prepare_newer
    <3>5. QED
      BY <2>1, <3>1, <3>3, <3>4
  <2>5. CASE acquire_overview(c)
    <3>1. PICK work \in running[c] :
            running' = [running EXCEPT ![c] =
              {[work EXCEPT
                  !.frame = {[generation |-> work.token.generation, time |-> t] :
                               t \in AcquiredTime(work)},
                  !.backfill_candidates = IF work.kind = "current"
                                            THEN Predecessors(published) ELSE <<>>]}]
      BY <2>5 DEF acquire_overview
    <3>2. work \in Work
      OBVIOUS
    <3>3. AcquiredTime(work) \in SUBSET Time
      BY <3>2 DEF AcquiredTime, Work
    <3>4. {[generation |-> work.token.generation, time |-> t] : t \in AcquiredTime(work)}
             \in SUBSET Frame
      BY <3>2, <3>3 DEF Work, Token, Frame
    <3>5. (IF work.kind = "current" THEN Predecessors(published) ELSE <<>>) \in Seq(Time)
      BY PredecessorsType
    <3>6. [work EXCEPT
             !.frame = {[generation |-> work.token.generation, time |-> t] :
                          t \in AcquiredTime(work)},
             !.backfill_candidates = IF work.kind = "current"
                                       THEN Predecessors(published) ELSE <<>>] \in Work
      BY <3>2, <3>4, <3>5 DEF Work
    <3>7. running' \in [Command -> SUBSET Work]
      BY <3>1, <3>6
    <3>8. QED
      BY <2>5, <3>7 DEF acquire_overview, broker, store
  <2>6. CASE stage_current(c)
    <3>1. PICK work \in running[c] : \E f \in work.frame :
             /\ generation' = work.token.generation
             /\ staged' = {[kind |-> "current", frame |-> f]}
             /\ backfill_candidates' = work.backfill_candidates
             /\ exact_pyramid' = {f}
      BY <2>6 DEF stage_current
    <3>2. PICK f \in work.frame :
             /\ staged' = {[kind |-> "current", frame |-> f]}
             /\ exact_pyramid' = {f}
      BY <3>1
    <3>3. work \in Work /\ f \in Frame
      BY DEF Work
    <3>4. work.token.generation \in 0 .. MaxGeneration
      BY <3>3, BoundAssumption DEF Work, Token, Generation
    <3>5. staged' \in SUBSET Staged
      BY <3>2, <3>3 DEF Staged, Kind
    <3>6. backfill_candidates' \in Seq(Time)
      BY <3>1, <3>3 DEF Work
    <3>7. retained' \in Seq(Frame)
      BY <2>6 DEF stage_current
    <3>8. QED
      BY <2>6, <3>1, <3>2, <3>3, <3>4, <3>5, <3>6, <3>7 DEF stage_current, broker
  <2>7. CASE stage(c)
    <3>1. PICK work \in running[c] : \E f \in work.frame :
             staged' = {[kind |-> work.kind, frame |-> f]} /\ work.kind \in {"predecessor", "newer"}
      BY <2>7 DEF stage
    <3>2. staged' \in SUBSET Staged
      BY <3>1 DEF Staged, Kind, Work
    <3>3. QED
      BY <2>7, <3>2 DEF stage, broker
  <2>8. ASSUME NEW f \in Frame, commit_national_history_frame(c, f)
        PROVE  TypeOK'
    <3>1. PICK token \in live :
             Start(c, [kind |-> "commit", token |-> token, seen |-> {}, frame |-> {f},
                       backfill_candidates |-> <<>>])
      BY <2>8 DEF commit_national_history_frame
    <3>2. [kind |-> "commit", token |-> token, seen |-> {}, frame |-> {f},
           backfill_candidates |-> <<>>] \in Work
      BY DEF Work
    <3>3. opened' \in SUBSET Token
      BY <2>8 DEF commit_national_history_frame
    <3>4. QED
      BY <2>1, <3>1, <3>2, <3>3
  <2>9. CASE commit_staged(c)
    <3>1. PICK s \in staged :
            /\ reversible_commit' = {[observation |-> s.frame, retained |-> retained,
                                      backfill_candidates |-> backfill_candidates,
                                      detail |-> detail]}
            /\ retained' = evict(Joined(s))
            /\ backfill_candidates' = IF Consumed(s) THEN Tail(backfill_candidates)
                                                     ELSE backfill_candidates
      BY <2>9 DEF commit_staged
    <3>2. retained' \in Seq(Frame)
      BY <3>1, JoinedType, EvictType
    <3>3. reversible_commit' \in SUBSET ReversibleCommit
      BY <3>1 DEF ReversibleCommit, Staged
    <3>4. backfill_candidates' \in Seq(Time)
      BY <3>1, HeadTailProperties DEF Consumed
    <3>5. QED
      BY <2>9, <3>2, <3>3, <3>4 DEF commit_staged, broker
  <2>10. ASSUME NEW f \in Frame, prepare_presentation(c, f)
         PROVE  TypeOK'
    <3>1. PICK token \in live :
             Start(c, [kind |-> "presentation", token |-> token, seen |-> {},
                       frame |-> {f}, backfill_candidates |-> <<>>])
      BY <2>10 DEF prepare_presentation
    <3>2. [kind |-> "presentation", token |-> token, seen |-> {},
           frame |-> {f}, backfill_candidates |-> <<>>] \in Work
      BY DEF Work
    <3>3. opened' \in SUBSET Token
      BY <2>10 DEF prepare_presentation
    <3>4. QED
      BY <2>1, <3>1, <3>2, <3>3
  <2>11. CASE cache_presentation(c)
    <3>1. PICK f \in Frame : exact_pyramid' = exact_pyramid \ {f} /\ detail' \in {{f}, {}}
      BY <2>11 DEF cache_presentation, Work
    <3>2. QED
      BY <2>11, <3>1 DEF cache_presentation, broker
  <2>12. CASE command_fails(c)
    BY <2>12 DEF command_fails, broker, store
  <2>13. QED
    BY <1>5, <2>2, <2>3, <2>4, <2>5, <2>6, <2>7, <2>8, <2>9, <2>10, <2>11, <2>12
       DEF CommandStep
<1>6. ASSUME NEW f \in Frame, finalize_commit(f)
      PROVE  TypeOK'
  BY <1>6 DEF finalize_commit, broker
<1>7. ASSUME NEW f \in Frame, rollback_staged(f)
      PROVE  TypeOK'
  BY <1>7 DEF rollback_staged, broker
<1>8. ASSUME NEW f \in Frame, rollback_commit(f)
      PROVE  TypeOK'
  <2>1. PICK r \in ReversibleCommit : /\ retained' = r.retained
                                      /\ backfill_candidates' = r.backfill_candidates
                                      /\ detail' = r.detail
    BY <1>8 DEF rollback_commit
  <2>2. QED
    BY <1>8, <2>1 DEF rollback_commit, broker, ReversibleCommit
<1>9. CASE UNCHANGED vars
  BY <1>9 DEF vars, broker, store
<1>10. QED
  BY <1>1, <1>2, <1>3, <1>4, <1>5, <1>6, <1>7, <1>8, <1>9 DEF Next

LEMMA TypeInit == Init => TypeOK
<1> SUFFICES ASSUME Init PROVE TypeOK
  OBVIOUS
<1> QED
  BY BoundAssumption DEF Init, TypeOK, Time

(* The types of the store and of the commands under way.                    *)
THEOREM HistoryIsTyped == Spec => []TypeOK
BY TypeInit, TypeStep, PTL DEF Spec

-----------------------------------------------------------------------------
(* One commit may be provisional at a time, only one observation may be     *)
(* staged for the next, and nothing is staged while a commit is             *)
(* provisional; what is retained, and what a rollback would restore, is in  *)
(* order and within the limit.                                              *)

InOrder(frames) ==
  \A i, j \in 1 .. Len(frames) : i < j => frames[i].time < frames[j].time

Kept(frames) == InOrder(frames) /\ Len(frames) <= HISTORY_LIMIT

HistoryInv ==
  /\ TypeOK
  /\ AtMostOne(reversible_commit)
  /\ AtMostOne(staged)
  /\ staged # {} => reversible_commit = {}
  /\ Kept(retained)
  /\ \A r \in reversible_commit : Kept(r.retained)

LEMMA JoinedProperties ==
  ASSUME TypeOK, NEW s \in staged
  PROVE  /\ Joined(s) \in Seq(Frame)
         /\ Len(Joined(s)) = Len(retained) + 1
         /\ s.kind = "predecessor" =>
              /\ Joined(s)[1] = s.frame
              /\ \A i \in 1 .. Len(retained) : Joined(s)[i + 1] = retained[i]
         /\ s.kind # "predecessor" =>
              /\ Joined(s)[Len(retained) + 1] = s.frame
              /\ \A i \in 1 .. Len(retained) : Joined(s)[i] = retained[i]
<1>1. s.frame \in Frame /\ retained \in Seq(Frame)
  BY DEF TypeOK, Staged
<1>2. Len(retained) \in Nat /\ \A i \in 1 .. Len(retained) : retained[i] \in Frame
  BY <1>1
<1>3. CASE s.kind = "predecessor"
  <2>1. <<s.frame>> \in Seq(Frame) /\ Len(<<s.frame>>) = 1 /\ <<s.frame>>[1] = s.frame
    BY <1>1
  <2>2. /\ <<s.frame>> \o retained \in Seq(Frame)
        /\ Len(<<s.frame>> \o retained) = 1 + Len(retained)
        /\ \A i \in 1 .. 1 + Len(retained) : (<<s.frame>> \o retained)[i] =
                   IF i <= 1 THEN <<s.frame>>[i] ELSE retained[i - 1]
    BY <1>1, <2>1, ConcatProperties
  <2>3. \A i \in 1 .. Len(retained) : (<<s.frame>> \o retained)[i + 1] = retained[i]
    BY <1>2, <2>2
  <2>4. QED
    BY <1>2, <1>3, <2>1, <2>2, <2>3 DEF Joined
<1>4. CASE s.kind # "predecessor"
  BY <1>1, <1>2, <1>4, AppendProperties DEF Joined
<1>5. QED
  BY <1>3, <1>4

LEMMA RetainedFrames ==
  ASSUME TypeOK
  PROVE  /\ retained \in Seq(Frame)
         /\ Len(retained) \in Nat
         /\ \A i \in 1 .. Len(retained) : retained[i] \in Frame /\ retained[i].time \in Int
<1>1. retained \in Seq(Frame)
  BY DEF TypeOK
<1>2. Len(retained) \in Nat /\ \A i \in 1 .. Len(retained) : retained[i] \in Frame
  BY <1>1
<1>3. \A f \in Frame : f.time \in Int
  BY DEF Frame, Time
<1>4. QED
  BY <1>1, <1>2, <1>3

LEMMA Ends ==
  ASSUME NEW frames \in Seq(Frame), frames # <<>>
  PROVE  /\ 1 \in 1 .. Len(frames) /\ Len(frames) \in 1 .. Len(frames)
         /\ Head(frames) = frames[1] /\ Head(frames) \in Frame
         /\ Last(frames) = frames[Len(frames)] /\ Last(frames) \in Frame
BY DEF Last

LEMMA JoinedInOrder ==
  ASSUME TypeOK, InOrder(retained), NEW s \in staged, InPlace(s)
  PROVE  InOrder(Joined(s))
<1>1. s.kind \in Kind /\ s.frame.time \in Int
  BY DEF TypeOK, Staged, Frame, Time
<1>2. Len(retained) \in Nat /\ \A i \in 1 .. Len(retained) : retained[i].time \in Int
  BY RetainedFrames
<1>3. CASE s.kind = "predecessor"
  <2>1. \A i \in 1 .. Len(retained) : s.frame.time < retained[i].time
    <3> SUFFICES ASSUME NEW i \in 1 .. Len(retained)
                 PROVE  s.frame.time < retained[i].time
      OBVIOUS
    <3>1. retained # <<>>
      BY <1>2
    <3>2. s.frame.time < retained[1].time
      BY <1>3, <3>1 DEF InPlace
    <3>3. i = 1 \/ retained[1].time < retained[i].time
      BY <1>2 DEF InOrder
    <3>4. 1 \in 1 .. Len(retained)
      BY <1>2
    <3>5. QED
      BY <1>1, <1>2, <3>2, <3>3, <3>4
  <2>2. QED
    <3> SUFFICES ASSUME NEW i \in 1 .. Len(Joined(s)), NEW j \in 1 .. Len(Joined(s)), i < j
                 PROVE  Joined(s)[i].time < Joined(s)[j].time
      BY DEF InOrder
    <3>0. /\ Len(Joined(s)) = Len(retained) + 1 /\ Joined(s)[1] = s.frame
          /\ \A m \in 1 .. Len(retained) : Joined(s)[m + 1] = retained[m]
      BY <1>3, JoinedProperties
    <3>1. /\ j - 1 \in 1 .. Len(retained) /\ Joined(s)[j] = retained[j - 1]
          /\ i \in Nat /\ j \in Nat
      <4>1. j - 1 \in 1 .. Len(retained) /\ (j - 1) + 1 = j /\ i \in Nat /\ j \in Nat
        BY <1>2, <3>0
      <4>2. QED
        BY <3>0, <4>1
    <3>2. CASE i = 1
      BY <2>1, <3>0, <3>1, <3>2
    <3>3. CASE i # 1
      <4>1. i - 1 \in 1 .. Len(retained) /\ (i - 1) + 1 = i
        BY <1>2, <3>0, <3>3
      <4>2. Joined(s)[i] = retained[i - 1] /\ i - 1 < j - 1
        BY <3>0, <3>1, <4>1
      <4>3. QED
        BY <3>1, <4>1, <4>2 DEF InOrder
    <3>4. QED
      BY <3>2, <3>3
<1>4. CASE s.kind # "predecessor"
  <2>1. \A i \in 1 .. Len(retained) : retained[i].time < s.frame.time
    <3> SUFFICES ASSUME NEW i \in 1 .. Len(retained)
                 PROVE  retained[i].time < s.frame.time
      OBVIOUS
    <3>1. retained # <<>>
      BY <1>2
    <3>2. s.frame.time > Last(retained).time
      BY <1>1, <1>4, <3>1 DEF InPlace, Kind
    <3>3. retained[Len(retained)].time < s.frame.time
      BY <1>1, <1>2, <3>2 DEF Last
    <3>4. i = Len(retained) \/ retained[i].time < retained[Len(retained)].time
      BY <1>2 DEF InOrder
    <3>5. Len(retained) \in 1 .. Len(retained)
      BY <1>2
    <3>6. QED
      BY <1>1, <1>2, <3>3, <3>4, <3>5
  <2>2. QED
    <3> SUFFICES ASSUME NEW i \in 1 .. Len(Joined(s)), NEW j \in 1 .. Len(Joined(s)), i < j
                 PROVE  Joined(s)[i].time < Joined(s)[j].time
      BY DEF InOrder
    <3>1. i \in 1 .. Len(retained) /\ Joined(s)[i] = retained[i]
      BY <1>2, <1>4, JoinedProperties
    <3>2. CASE j = Len(retained) + 1
      BY <1>4, <2>1, <3>1, <3>2, JoinedProperties
    <3>3. CASE j # Len(retained) + 1
      <4>1. j \in 1 .. Len(retained) /\ Joined(s)[j] = retained[j]
        BY <1>2, <1>4, <3>3, JoinedProperties
      <4>2. QED
        BY <3>1, <4>1 DEF InOrder
    <3>4. QED
      BY <3>2, <3>3
<1>5. QED
  BY <1>3, <1>4

LEMMA EvictProperties ==
  ASSUME NEW frames \in Seq(Frame)
  PROVE  /\ Len(frames) <= HISTORY_LIMIT => evict(frames) = frames
         /\ Len(frames) > HISTORY_LIMIT =>
              /\ Len(evict(frames)) = Len(frames) - 1
              /\ \A i \in 1 .. Len(frames) - 1 : evict(frames)[i] = frames[i + 1]
<1>1. Len(frames) \in Nat
  OBVIOUS
<1>2. CASE Len(frames) > HISTORY_LIMIT
  <2>1. frames # <<>>
    BY <1>2, LimitAssumption
  <2>2. /\ Len(Tail(frames)) = Len(frames) - 1
        /\ \A i \in 1 .. Len(Tail(frames)) : Tail(frames)[i] = frames[i + 1]
    BY <2>1, HeadTailProperties
  <2>3. evict(frames) = Tail(frames)
    BY <1>2 DEF evict
  <2>4. QED
    BY <1>1, <1>2, <2>2, <2>3, LimitAssumption
<1>3. CASE ~(Len(frames) > HISTORY_LIMIT)
  BY <1>3 DEF evict
<1>4. QED
  BY <1>1, <1>2, <1>3, LimitAssumption

LEMMA EvictKept ==
  ASSUME NEW frames \in Seq(Frame), InOrder(frames), Len(frames) <= HISTORY_LIMIT + 1
  PROVE  Kept(evict(frames))
<1>1. Len(frames) \in Nat
  OBVIOUS
<1>2. CASE Len(frames) > HISTORY_LIMIT
  <2>1. Len(evict(frames)) = Len(frames) - 1
    BY <1>2, EvictProperties
  <2>2. ASSUME NEW i \in 1 .. Len(evict(frames)), NEW j \in 1 .. Len(evict(frames)), i < j
        PROVE  evict(frames)[i].time < evict(frames)[j].time
    <3>1. evict(frames)[i] = frames[i + 1] /\ evict(frames)[j] = frames[j + 1]
      BY <1>2, <2>1, EvictProperties
    <3>2. i + 1 \in 1 .. Len(frames) /\ j + 1 \in 1 .. Len(frames) /\ i + 1 < j + 1
      BY <1>1, <2>1, <2>2
    <3>3. QED
      BY <3>1, <3>2 DEF InOrder
  <2>3. QED
    BY <1>1, <2>1, <2>2, LimitAssumption DEF Kept, InOrder
<1>3. CASE Len(frames) <= HISTORY_LIMIT
  BY <1>3, EvictProperties DEF Kept
<1>4. QED
  BY <1>1, <1>2, <1>3, LimitAssumption

-----------------------------------------------------------------------------
(* A step of one of the commands that does not touch the store.             *)
StoreUntouched ==
  UNCHANGED <<generation, retained, staged, backfill_candidates, detail,
              reversible_commit, last_finalized_commit, exact_pyramid>>

LEMMA OutsideTheStore ==
  ASSUME NEW c \in Command,
         \/ prepare_current(c) \/ prepare_predecessor(c) \/ prepare_newer(c)
         \/ acquire_overview(c)
         \/ \E f \in Frame : commit_national_history_frame(c, f)
         \/ \E f \in Frame : prepare_presentation(c, f)
         \/ command_fails(c)
  PROVE  StoreUntouched
BY DEF prepare_current, prepare_predecessor, prepare_newer, acquire_overview,
       commit_national_history_frame, prepare_presentation, command_fails, Start,
       StoreUntouched, store

(* What can change the store.                                               *)
LEMMA StoreSteps ==
  ASSUME [Next]_vars
  PROVE  \/ StoreUntouched
         \/ \E c \in Command :
              stage_current(c) \/ stage(c) \/ commit_staged(c) \/ cache_presentation(c)
         \/ \E f \in Frame : finalize_commit(f) \/ rollback_staged(f) \/ rollback_commit(f)
<1>1. CASE publish \/ cancel \/ document_started \/ (\E g \in Generation : begin(g))
            \/ UNCHANGED vars
  BY <1>1 DEF publish, cancel, document_started, begin, vars, store, StoreUntouched
<1>2. ASSUME NEW c \in Command, CommandStep(c)
      PROVE  StoreUntouched \/ stage_current(c) \/ stage(c) \/ commit_staged(c)
               \/ cache_presentation(c)
  BY <1>2, OutsideTheStore DEF CommandStep
<1>3. QED
  BY <1>1, <1>2 DEF Next

LEMMA HistoryStep ==
  ASSUME HistoryInv, [Next]_vars
  PROVE  HistoryInv'
<1>1. TypeOK /\ TypeOK'
  BY TypeStep DEF HistoryInv
<1>2. CASE StoreUntouched
  BY <1>1, <1>2 DEF HistoryInv, StoreUntouched, AtMostOne, Kept, InOrder
<1>3. ASSUME NEW c \in Command, stage_current(c)
      PROVE  HistoryInv'
  <2>1. /\ retained' = <<>> /\ reversible_commit' = {}
        /\ \E f : staged' = {[kind |-> "current", frame |-> f]}
    BY <1>3 DEF stage_current
  <2>2. Kept(<<>>)
    BY LimitAssumption DEF Kept, InOrder
  <2>3. QED
    BY <1>1, <2>1, <2>2 DEF HistoryInv, AtMostOne, Kept, InOrder
<1>4. ASSUME NEW c \in Command, stage(c)
      PROVE  HistoryInv'
  <2>1. /\ UNCHANGED <<retained, reversible_commit>> /\ reversible_commit = {}
        /\ \E s : staged' = {s}
    BY <1>4 DEF stage, ensure_no_stage
  <2>2. QED
    BY <1>1, <2>1 DEF HistoryInv, AtMostOne, Kept, InOrder
<1>5. ASSUME NEW c \in Command, commit_staged(c)
      PROVE  HistoryInv'
  <2>1. PICK s \in staged :
           /\ InPlace(s)
           /\ reversible_commit' = {[observation |-> s.frame, retained |-> retained,
                                     backfill_candidates |-> backfill_candidates,
                                     detail |-> detail]}
           /\ retained' = evict(Joined(s))
           /\ staged' = {}
    BY <1>5 DEF commit_staged
  <2>2. Kept(evict(Joined(s)))
    BY <1>1, <2>1, JoinedProperties, JoinedInOrder, EvictKept, LimitAssumption
       DEF HistoryInv, Kept
  <2>3. QED
    BY <1>1, <2>1, <2>2 DEF HistoryInv, AtMostOne, Kept, InOrder
<1>6. ASSUME NEW c \in Command, cache_presentation(c)
      PROVE  HistoryInv'
  BY <1>1, <1>6 DEF cache_presentation, HistoryInv, AtMostOne, Kept, InOrder
<1>7. ASSUME NEW f \in Frame, finalize_commit(f)
      PROVE  HistoryInv'
  BY <1>1, <1>7 DEF finalize_commit, HistoryInv, AtMostOne, Kept, InOrder
<1>8. ASSUME NEW f \in Frame, rollback_staged(f)
      PROVE  HistoryInv'
  BY <1>1, <1>8 DEF rollback_staged, HistoryInv, AtMostOne, Kept, InOrder
<1>9. ASSUME NEW f \in Frame, rollback_commit(f)
      PROVE  HistoryInv'
  BY <1>1, <1>9 DEF rollback_commit, HistoryInv, AtMostOne, Kept, InOrder
<1>10. QED
  BY <1>2, <1>3, <1>4, <1>5, <1>6, <1>7, <1>8, <1>9, StoreSteps

LEMMA HistoryInit == Init => HistoryInv
<1> SUFFICES ASSUME Init PROVE HistoryInv
  OBVIOUS
<1>1. Kept(<<>>)
  BY LimitAssumption DEF Kept, InOrder
<1>2. QED
  BY <1>1, TypeInit DEF Init, HistoryInv, AtMostOne

LEMMA HistoryInvariant == Spec => []HistoryInv
BY HistoryInit, HistoryStep, PTL DEF Spec

-----------------------------------------------------------------------------
(* The store is a reversible history.                                       *)

LEMMA TimesProperties ==
  ASSUME NEW frames \in Seq(Frame)
  PROVE  /\ Times(frames) \in Seq(Time)
         /\ Len(Times(frames)) = Len(frames)
         /\ \A i \in 1 .. Len(frames) : Times(frames)[i] = frames[i].time
<1> DEFINE e(i) == frames[i].time
<1>1. Len(frames) \in Nat /\ \A i \in 1 .. Len(frames) : frames[i] \in Frame
  OBVIOUS
<1>2. \A i \in 1 .. Len(frames) : e(i) \in Time
  BY <1>1 DEF Frame
<1>3. Times(frames) = [i \in 1 .. Len(frames) |-> e(i)]
  BY DEF Times
<1> HIDE DEF e
<1>4. Times(frames) \in Seq(Time)
  BY <1>1, <1>2, <1>3, IsASeq
<1>5. Len(Times(frames)) = Len(frames)
  BY <1>1, <1>3, <1>4
<1>6. QED
  BY <1>3, <1>4, <1>5 DEF e

LEMMA TimesOfEvict ==
  ASSUME NEW frames \in Seq(Frame)
  PROVE  Times(evict(frames)) = Ledger!Trim(Times(frames))
<1>1. Len(Times(frames)) = Len(frames)
  BY TimesProperties
<1>2. CASE Len(frames) > HISTORY_LIMIT
  <2>1. evict(frames) = Tail(frames) /\ Ledger!Trim(Times(frames)) = Tail(Times(frames))
    BY <1>1, <1>2 DEF evict, Ledger!Trim
  <2>2. Times(frames) \in Seq(Time) /\ Len(frames) \in Nat
    BY TimesProperties
  <2>3. frames # <<>> /\ Times(frames) # <<>>
    BY <1>1, <1>2, <2>2, LimitAssumption
  <2>4. /\ Tail(frames) \in Seq(Frame)
        /\ Len(Tail(frames)) = Len(frames) - 1
        /\ \A i \in 1 .. Len(Tail(frames)) : Tail(frames)[i] = frames[i + 1]
    BY <2>3, HeadTailProperties
  <2>5. /\ Tail(Times(frames)) \in Seq(Time)
        /\ Len(Tail(Times(frames))) = Len(Times(frames)) - 1
        /\ \A i \in 1 .. Len(Tail(Times(frames))) :
             Tail(Times(frames))[i] = Times(frames)[i + 1]
    BY <2>2, <2>3, HeadTailProperties
  <2>6. /\ Times(Tail(frames)) \in Seq(Time)
        /\ Len(Times(Tail(frames))) = Len(Tail(frames))
        /\ \A i \in 1 .. Len(Tail(frames)) : Times(Tail(frames))[i] = Tail(frames)[i].time
    BY <2>4, TimesProperties
  <2>7. ASSUME NEW i \in 1 .. Len(frames) - 1
        PROVE  Times(Tail(frames))[i] = Tail(Times(frames))[i]
    <3>1. i \in 1 .. Len(Tail(frames)) /\ i + 1 \in 1 .. Len(frames)
      BY <2>2, <2>4
    <3>2. Times(frames)[i + 1] = frames[i + 1].time
      BY <3>1, TimesProperties
    <3>3. QED
      BY <1>1, <2>2, <2>4, <2>5, <2>6, <3>1, <3>2
  <2>8. Times(Tail(frames)) = Tail(Times(frames))
    BY <1>1, <2>4, <2>5, <2>6, <2>7, SeqEqual
  <2>9. QED
    BY <2>1, <2>8
<1>3. CASE ~(Len(frames) > HISTORY_LIMIT)
  BY <1>1, <1>3 DEF evict, Ledger!Trim
<1>4. QED
  BY <1>2, <1>3

LEMMA TimesOfJoined ==
  ASSUME TypeOK, NEW s \in staged
  PROVE  Times(Joined(s)) = IF s.kind = "predecessor"
                              THEN <<s.frame.time>> \o Times(retained)
                              ELSE Append(Times(retained), s.frame.time)
<1> DEFINE t == s.frame.time
           n == Len(retained)
<1>1. t \in Time
  BY DEF TypeOK, Staged, Frame
<1>2. /\ retained \in Seq(Frame) /\ n \in Nat
      /\ Times(retained) \in Seq(Time) /\ Len(Times(retained)) = n
      /\ \A i \in 1 .. n : Times(retained)[i] = retained[i].time
  BY RetainedFrames, TimesProperties
<1>3. /\ Joined(s) \in Seq(Frame) /\ Len(Joined(s)) = n + 1
  BY JoinedProperties
<1>4. /\ Times(Joined(s)) \in Seq(Time) /\ Len(Times(Joined(s))) = n + 1
      /\ \A i \in 1 .. n + 1 : Times(Joined(s))[i] = Joined(s)[i].time
  BY <1>3, TimesProperties
<1>5. CASE s.kind = "predecessor"
  <2> DEFINE u == <<t>> \o Times(retained)
  <2>1. <<t>> \in Seq(Time) /\ Len(<<t>>) = 1 /\ <<t>>[1] = t
    BY <1>1
  <2>2. /\ u \in Seq(Time)
        /\ Len(u) = 1 + n
        /\ \A i \in 1 .. 1 + n : u[i] = IF i <= 1 THEN <<t>>[i] ELSE Times(retained)[i - 1]
    BY <1>2, <2>1, ConcatProperties
  <2> HIDE DEF u
  <2>3. ASSUME NEW i \in 1 .. n + 1
        PROVE  Times(Joined(s))[i] = u[i]
    <3>1. CASE i = 1
      BY <1>4, <1>5, <2>1, <2>2, <3>1, JoinedProperties
    <3>2. CASE i # 1
      <4>1. i - 1 \in 1 .. n /\ (i - 1) + 1 = i
        BY <1>2, <3>2
      <4>2. Joined(s)[i] = retained[i - 1]
        BY <1>5, <4>1, JoinedProperties
      <4>3. u[i] = Times(retained)[i - 1]
        BY <1>2, <2>2, <3>2
      <4>4. QED
        BY <1>2, <1>4, <4>1, <4>2, <4>3
    <3>3. QED
      BY <3>1, <3>2
  <2>4. Times(Joined(s)) = u
    <3>1. Times(Joined(s)) \in Seq(Time) /\ u \in Seq(Time) /\ Len(Times(Joined(s))) = Len(u)
      BY <1>2, <1>4, <2>2
    <3>2. \A i \in 1 .. Len(u) : Times(Joined(s))[i] = u[i]
      BY <1>2, <2>2, <2>3
    <3>3. QED
      BY <3>1, <3>2, SeqEqual
  <2>5. QED
    BY <1>5, <2>4 DEF u
<1>6. CASE s.kind # "predecessor"
  <2>1. /\ Append(Times(retained), t) \in Seq(Time)
        /\ Len(Append(Times(retained), t)) = n + 1
        /\ \A i \in 1 .. n : Append(Times(retained), t)[i] = Times(retained)[i]
        /\ Append(Times(retained), t)[n + 1] = t
    BY <1>1, <1>2, AppendProperties
  <2>2. ASSUME NEW i \in 1 .. n + 1
        PROVE  Times(Joined(s))[i] = Append(Times(retained), t)[i]
    <3>1. CASE i = n + 1
      BY <1>4, <1>6, <2>1, <3>1, JoinedProperties
    <3>2. CASE i # n + 1
      <4>1. i \in 1 .. n
        BY <1>2, <3>2
      <4>2. Joined(s)[i] = retained[i]
        BY <1>6, <4>1, JoinedProperties
      <4>3. QED
        BY <1>2, <1>4, <2>1, <4>1, <4>2
    <3>3. QED
      BY <3>1, <3>2
  <2>3. Times(Joined(s)) = Append(Times(retained), t)
    BY <1>2, <1>4, <2>1, <2>2, SeqEqual
  <2>4. QED
    BY <1>6, <2>3
<1>7. QED
  BY <1>5, <1>6

(* The mapped state of the reversible history.                              *)
SettledTimes ==
  IF reversible_commit = {} THEN Times(retained)
    ELSE Times((CHOOSE r \in reversible_commit : TRUE).retained)

ProposedTimes == IF reversible_commit = {} THEN <<>> ELSE <<Times(retained)>>

LEMMA LedgerStep ==
  ASSUME HistoryInv, [Next]_vars
  PROVE  [Ledger!Next]_(Ledger!history)
<1>1. TypeOK
  BY DEF HistoryInv
<1>3. ASSUME SettledTimes' = SettledTimes, ProposedTimes' = ProposedTimes
      PROVE  UNCHANGED Ledger!history
  BY <1>3 DEF Ledger!history, SettledTimes, ProposedTimes
<1>4. ASSUME NEW r \in reversible_commit
      PROVE  SettledTimes = Times(r.retained) /\ ProposedTimes = <<Times(retained)>>
  <2>1. \A q \in reversible_commit : q = r
    BY DEF HistoryInv, AtMostOne
  <2>2. (CHOOSE q \in reversible_commit : TRUE) = r
    BY <2>1
  <2>3. QED
    BY <2>2 DEF SettledTimes, ProposedTimes
<1>5. CASE StoreUntouched
  BY <1>3, <1>5 DEF StoreUntouched, SettledTimes, ProposedTimes, Times
<1>6. ASSUME NEW c \in Command, stage_current(c)
      PROVE  Ledger!Next
  <2>1. retained' = <<>> /\ reversible_commit' = {}
    BY <1>6 DEF stage_current
  <2>2. Times(<<>>) = <<>>
    BY DEF Times
  <2>3. SettledTimes' = <<>> /\ ProposedTimes' = <<>>
    BY <2>1, <2>2 DEF SettledTimes, ProposedTimes, Times
  <2>4. Ledger!Restart
    BY <2>3 DEF Ledger!Restart, SettledTimes, ProposedTimes
  <2>5. QED
    BY <2>4 DEF Ledger!Next
<1>7. ASSUME NEW c \in Command, stage(c) \/ cache_presentation(c)
      PROVE  UNCHANGED Ledger!history
  <2>1. UNCHANGED <<retained, reversible_commit>>
    BY <1>7 DEF stage, cache_presentation
  <2>2. QED
    BY <1>3, <2>1 DEF SettledTimes, ProposedTimes, Times
<1>8. ASSUME NEW c \in Command, commit_staged(c)
      PROVE  Ledger!Next
  <2>1. PICK s \in staged :
           /\ reversible_commit = {}
           /\ InPlace(s)
           /\ reversible_commit' = {[observation |-> s.frame, retained |-> retained,
                                     backfill_candidates |-> backfill_candidates,
                                     detail |-> detail]}
           /\ retained' = evict(Joined(s))
    BY <1>8 DEF commit_staged
  <2> DEFINE h == Times(Joined(s))
             r == [observation |-> s.frame, retained |-> retained,
                   backfill_candidates |-> backfill_candidates, detail |-> detail]
  <2>2. SettledTimes = Times(retained) /\ ProposedTimes = <<>>
    BY <2>1 DEF SettledTimes, ProposedTimes
  <2>3. SettledTimes' = SettledTimes
    <3>1. (CHOOSE q \in {r} : TRUE) = r
      OBVIOUS
    <3>2. SettledTimes' = Times(r.retained)
      BY <2>1, <3>1 DEF SettledTimes, Times
    <3>3. QED
      BY <2>2, <3>2
  <2>4. Joined(s) \in Seq(Frame) /\ InOrder(Joined(s))
    BY <1>1, <2>1, JoinedProperties, JoinedInOrder DEF HistoryInv, Kept
  <2>5. ProposedTimes' = <<Ledger!Trim(h)>>
    <3>1. ProposedTimes' = <<Times(retained')>>
      BY <2>1 DEF ProposedTimes, Times
    <3>2. QED
      BY <2>1, <2>4, <3>1, TimesOfEvict
  <2>6. s.frame.time \in Time
    BY <1>1 DEF TypeOK, Staged, Frame
  <2>7. h \in {<<s.frame.time>> \o SettledTimes, Append(SettledTimes, s.frame.time)}
    BY <1>1, <2>2, TimesOfJoined
  <2>8. Ledger!Chronological(h)
    <3>1. /\ Len(h) = Len(Joined(s))
          /\ \A i \in 1 .. Len(Joined(s)) : h[i] = Joined(s)[i].time
      BY <2>4, TimesProperties
    <3>2. QED
      BY <2>4, <3>1 DEF Ledger!Chronological, InOrder
  <2> HIDE DEF h
  <2>9. Ledger!Propose(s.frame.time)
    BY <2>2, <2>3, <2>5, <2>7, <2>8 DEF Ledger!Propose, SettledTimes, ProposedTimes
  <2>10. QED
    BY <2>6, <2>9 DEF Ledger!Next
<1>9. ASSUME NEW f \in Frame, finalize_commit(f)
      PROVE  Ledger!Next
  <2>1. PICK r \in reversible_commit : r.observation = f
    BY <1>9 DEF finalize_commit
  <2>2. ProposedTimes = <<Times(retained)>>
    BY <1>4
  <2>3. reversible_commit' = {} /\ retained' = retained
    BY <1>9 DEF finalize_commit
  <2>4. SettledTimes' = Times(retained) /\ ProposedTimes' = <<>>
    BY <2>3 DEF SettledTimes, ProposedTimes, Times
  <2>5. ProposedTimes # <<>> /\ SettledTimes' = ProposedTimes[1]
    BY <2>2, <2>4
  <2>6. Ledger!Settle
    BY <2>4, <2>5 DEF Ledger!Settle, SettledTimes, ProposedTimes
  <2>7. QED
    BY <2>6 DEF Ledger!Next
<1>10. ASSUME NEW f \in Frame, rollback_staged(f)
       PROVE  UNCHANGED Ledger!history
  <2>1. UNCHANGED <<retained, reversible_commit>>
    BY <1>10 DEF rollback_staged
  <2>2. QED
    BY <1>3, <2>1 DEF SettledTimes, ProposedTimes, Times
<1>11. ASSUME NEW f \in Frame, rollback_commit(f)
       PROVE  Ledger!Next
  <2>1. PICK r \in reversible_commit : retained' = r.retained
    BY <1>11 DEF rollback_commit
  <2>2. SettledTimes = Times(r.retained) /\ ProposedTimes = <<Times(retained)>>
    BY <1>4
  <2>3. reversible_commit' = {}
    BY <1>11 DEF rollback_commit
  <2>4. SettledTimes' = SettledTimes /\ ProposedTimes' = <<>>
    BY <2>1, <2>2, <2>3 DEF SettledTimes, ProposedTimes, Times
  <2>5. ProposedTimes # <<>>
    BY <2>2
  <2>6. Ledger!TakeBack
    BY <2>4, <2>5 DEF Ledger!TakeBack, SettledTimes, ProposedTimes
  <2>7. QED
    BY <2>6 DEF Ledger!Next
<1>12. QED
  BY <1>3, <1>5, <1>6, <1>7, <1>8, <1>9, <1>10, <1>11, StoreSteps
     DEF StoreUntouched, SettledTimes, ProposedTimes, Times

LEMMA LedgerInit == Init => Ledger!Init
<1> SUFFICES ASSUME Init PROVE Ledger!Init
  OBVIOUS
<1>1. Times(<<>>) = <<>>
  BY DEF Times
<1>2. QED
  BY <1>1 DEF Init, Ledger!Init

(* Every commit proposes one observation more to an ordered, bounded        *)
(* history, and finalizing or rolling back settles it or restores exactly   *)
(* what was retained before, whatever the commands, generations and         *)
(* documents that interleave (commit_staged, finalize_commit,               *)
(* rollback_commit in src-tauri/src/national_history.rs).                   *)
THEOREM IsReversible == Spec => ImplementsReversibleHistory
<1>1. HistoryInv /\ [Next]_vars => [Ledger!Next]_(Ledger!history)
  BY LedgerStep
<1>2. QED
  BY <1>1, LedgerInit, HistoryInvariant, PTL
     DEF Spec, ImplementsReversibleHistory, Ledger!Spec

-----------------------------------------------------------------------------
(* What a command under way has acquired.                                   *)

Sound(work) ==
  /\ Len(work.backfill_candidates) < HISTORY_LIMIT
  /\ work.kind \in Kind =>
       \A f \in work.frame : f.generation = work.token.generation
  /\ work.kind = "current" =>
       \A f \in work.frame : \A i \in 1 .. Len(work.backfill_candidates) :
          work.backfill_candidates[i] = f.time - i
  /\ work.kind = "predecessor" => \A f \in work.frame : f.time \in work.seen
  /\ work.kind = "newer" => \A f \in work.frame : \A t \in work.seen : f.time > t

WorkSound == \A c \in Command : \A work \in running[c] : Sound(work)

LEMMA SoundStart ==
  ASSUME NEW sort \in {"commit", "presentation"}, NEW token, NEW f
  PROVE  Sound([kind |-> sort, token |-> token, seen |-> {}, frame |-> {f},
                backfill_candidates |-> <<>>])
BY LimitAssumption DEF Sound, Kind

LEMMA SoundPreparation ==
  ASSUME NEW sort, NEW token, NEW seen
  PROVE  Sound(Preparation(sort, token, seen))
BY LimitAssumption DEF Sound, Preparation

(* A command that starts, and every other step that touches the commands.   *)
LEMMA Starting ==
  ASSUME TypeOK, NEW c \in Command, NEW work, Start(c, work)
  PROVE  /\ running'[c] = {work}
         /\ \A d \in Command \ {c} : running'[d] = running[d]
         /\ running[c] = {} /\ work.token \in live
BY DEF Start, TypeOK

LEMMA WorkSteps ==
  ASSUME TypeOK, [Next]_vars
  PROVE  \/ \A d \in Command : running'[d] \subseteq running[d]
         \/ \E c \in Command :
              \/ prepare_current(c) \/ prepare_predecessor(c) \/ prepare_newer(c)
              \/ acquire_overview(c)
              \/ \E f \in Frame : commit_national_history_frame(c, f)
              \/ \E f \in Frame : prepare_presentation(c, f)
<1> USE DEF TypeOK
<1>1. CASE publish \/ cancel \/ document_started \/ (\E g \in Generation : begin(g))
            \/ UNCHANGED vars
  BY <1>1 DEF publish, cancel, document_started, begin, vars
<1>2. ASSUME NEW c \in Command,
             \/ stage_current(c) \/ stage(c) \/ commit_staged(c) \/ cache_presentation(c)
             \/ command_fails(c)
      PROVE  \A d \in Command : running'[d] \subseteq running[d]
  <2>1. running' = [running EXCEPT ![c] = {}]
    BY <1>2 DEF stage_current, stage, commit_staged, cache_presentation, command_fails
  <2>2. QED
    BY <2>1
<1>3. ASSUME NEW f \in Frame, finalize_commit(f) \/ rollback_staged(f) \/ rollback_commit(f)
      PROVE  running' = running
  BY <1>3 DEF finalize_commit, rollback_staged, rollback_commit
<1>4. QED
  BY <1>1, <1>2, <1>3 DEF Next, CommandStep

LEMMA AcquireStep ==
  ASSUME TypeOK, NEW c \in Command, acquire_overview(c)
  PROVE  \E work \in running[c], acquired \in Work :
            /\ running'[c] = {acquired}
            /\ \A d \in Command \ {c} : running'[d] = running[d]
            /\ work \in Work
            /\ acquired.kind = work.kind
            /\ acquired.token = work.token
            /\ acquired.seen = work.seen
            /\ Sound(acquired)
<1>1. PICK work \in running[c] :
         /\ work.kind = "newer" => \A t \in work.seen : published > t
         /\ running' = [running EXCEPT ![c] =
              {[work EXCEPT
                  !.frame = {[generation |-> work.token.generation, time |-> t] :
                               t \in AcquiredTime(work)},
                  !.backfill_candidates = IF work.kind = "current"
                                            THEN Predecessors(published) ELSE <<>>]}]
  BY DEF acquire_overview
<1> DEFINE frames == {[generation |-> work.token.generation, time |-> t] :
                        t \in AcquiredTime(work)}
           candidates == IF work.kind = "current" THEN Predecessors(published) ELSE <<>>
           acquired == [work EXCEPT !.frame = frames, !.backfill_candidates = candidates]
<1>2. work \in Work
  BY DEF TypeOK
<1>3. frames \in SUBSET Frame
  BY <1>2 DEF TypeOK, AcquiredTime, Work, Token, Frame
<1>4. published \in Time
  BY DEF TypeOK
<1>5. candidates \in Seq(Time)
  BY <1>4, PredecessorsType
<1>6. \A f \in frames : f.generation = work.token.generation /\ f.time \in AcquiredTime(work)
  OBVIOUS
<1>7. /\ work.kind = "current" =>
           \A i \in 1 .. Len(candidates) : candidates[i] = published - i
      /\ Len(candidates) < HISTORY_LIMIT
  BY <1>4, PredecessorsType, LimitAssumption
<1> HIDE DEF frames, candidates
<1>8. /\ acquired \in Work
      /\ acquired.kind = work.kind /\ acquired.token = work.token
      /\ acquired.seen = work.seen
      /\ acquired.frame = frames /\ acquired.backfill_candidates = candidates
  BY <1>2, <1>3, <1>5 DEF Work
<1>9. running' = [running EXCEPT ![c] = {acquired}]
  BY <1>1 DEF frames, candidates
<1> HIDE DEF acquired
<1>10. Sound(acquired)
  BY <1>1, <1>6, <1>7, <1>8 DEF Sound, AcquiredTime
<1>11. running'[c] = {acquired} /\ \A d \in Command \ {c} : running'[d] = running[d]
  BY <1>9 DEF TypeOK
<1>12. QED
  BY <1>2, <1>8, <1>10, <1>11

LEMMA WorkSoundStep ==
  ASSUME TypeOK, WorkSound, [Next]_vars
  PROVE  WorkSound'
<1>1. CASE \A d \in Command : running'[d] \subseteq running[d]
  BY <1>1 DEF WorkSound
<1>2. ASSUME NEW c \in Command, NEW work, Start(c, work), Sound(work)
      PROVE  WorkSound'
  <2>1. running'[c] = {work} /\ \A d \in Command \ {c} : running'[d] = running[d]
    BY <1>2, Starting
  <2>2. QED
    BY <1>2, <2>1 DEF WorkSound
<1>3. ASSUME NEW c \in Command,
             prepare_current(c) \/ prepare_predecessor(c) \/ prepare_newer(c)
      PROVE  WorkSound'
  <2>1. PICK sort, token, seen : Start(c, Preparation(sort, token, seen))
    BY <1>3 DEF prepare_current, prepare_predecessor, prepare_newer
  <2>2. QED
    BY <1>2, <2>1, SoundPreparation
<1>4. ASSUME NEW c \in Command, NEW f \in Frame,
             commit_national_history_frame(c, f) \/ prepare_presentation(c, f)
      PROVE  WorkSound'
  <2>1. PICK sort \in {"commit", "presentation"}, token \in live :
           Start(c, [kind |-> sort, token |-> token, seen |-> {}, frame |-> {f},
                     backfill_candidates |-> <<>>])
    BY <1>4 DEF commit_national_history_frame, prepare_presentation
  <2>2. QED
    BY <1>2, <2>1, SoundStart
<1>5. ASSUME NEW c \in Command, acquire_overview(c)
      PROVE  WorkSound'
  BY <1>5, AcquireStep DEF WorkSound
<1>6. QED
  BY <1>1, <1>3, <1>4, <1>5, WorkSteps

-----------------------------------------------------------------------------
(* As long as the first document is loaded, a token is told by its          *)
(* generation, and the current observation of each is prepared once: the    *)
(* work of a predecessor or a newer observation only begins after it.       *)

TokensInv ==
  /\ \A token \in live \cup opened : token.document = 1
  /\ generation # 0 => [document |-> 1, generation |-> generation] \in opened
  /\ \A c \in Command : \A work \in running[c] :
       /\ work.token.document = 1
       /\ work.kind \in Kind => work.token \in opened
       /\ work.kind = "current" => work.token.generation # generation
  /\ \A c, d \in Command : \A work \in running[c] : \A other \in running[d] :
       work.kind = "current" /\ other.kind \in Kind /\ other.token = work.token
         => d = c /\ other = work

LEMMA SameToken ==
  ASSUME NEW t \in Token, NEW u \in Token,
         t.document = u.document, t.generation = u.generation
  PROVE  t = u
BY DEF Token

LEMMA TokensStarting ==
  ASSUME TypeOK, TokensInv, NEW c \in Command, NEW work \in Work,
         Start(c, work), live' = live, generation' = generation,
         opened \subseteq opened', \A token \in opened' : token.document = 1,
         work.kind \in Kind => work.token \in opened',
         work.kind = "current" => work.token \notin opened,
         work.kind \in {"predecessor", "newer"} => work.token.generation = generation
  PROVE  TokensInv'
<1>1. running'[c] = {work} /\ \A d \in Command \ {c} : running'[d] = running[d]
  BY Starting
<1>2. work.token \in live /\ work.token \in Token /\ work.token.document = 1
  BY Starting DEF TokensInv, Work
<1>3. \A d \in Command : \A other \in running[d] : other \in Work
  BY DEF TypeOK
<1>4. work.token.generation \in Generation /\ 0 \notin Generation
  BY <1>2 DEF Token, Generation
<1>5. work.kind = "current" => work.token.generation # generation
  <2> SUFFICES ASSUME work.kind = "current", work.token.generation = generation
               PROVE  FALSE
    OBVIOUS
  <2>1. generation # 0
    BY <1>4
  <2>2. [document |-> 1, generation |-> generation] \in opened
    BY <2>1 DEF TokensInv
  <2>3. work.token = [document |-> 1, generation |-> generation]
    BY <1>2 DEF Token
  <2>4. QED
    BY <2>2, <2>3
<1>6. (\A token \in live \cup opened : token.document = 1)'
  BY DEF TokensInv
<1>7. (generation # 0 => [document |-> 1, generation |-> generation] \in opened)'
  BY DEF TokensInv
<1>8. (\A d \in Command : \A other \in running[d] :
        /\ other.token.document = 1
        /\ other.kind \in Kind => other.token \in opened
        /\ other.kind = "current" => other.token.generation # generation)'
  BY <1>1, <1>2, <1>5 DEF TokensInv
<1>9. ASSUME NEW a \in Command, NEW b \in Command, NEW x \in running'[a], NEW y \in running'[b],
             x.kind = "current", y.kind \in Kind, y.token = x.token
      PROVE  a = b /\ y = x
  <2>1. CASE a = c /\ b = c
    BY <1>1, <2>1
  <2>2. CASE a = c /\ b # c
    <3>1. x = work /\ y \in running[b]
      BY <1>1, <2>2
    <3>2. y.token \in opened
      BY <1>9, <3>1 DEF TokensInv
    <3>3. QED
      BY <1>9, <3>1, <3>2
  <2>3. CASE a # c /\ b = c
    <3>1. y = work /\ x \in running[a]
      BY <1>1, <2>3
    <3>2. x.token \in opened /\ x.token.generation # generation
      BY <1>9, <3>1 DEF TokensInv, Kind
    <3>3. work.kind # "current" /\ work.kind \notin {"predecessor", "newer"}
      BY <1>9, <3>1, <3>2
    <3>4. QED
      BY <1>9, <3>1, <3>3 DEF Kind
  <2>4. CASE a # c /\ b # c
    BY <1>1, <1>9, <2>4 DEF TokensInv
  <2>5. QED
    BY <2>1, <2>2, <2>3, <2>4
<1>10. QED
  BY <1>6, <1>7, <1>8, <1>9 DEF TokensInv

LEMMA TokensStep ==
  ASSUME TypeOK, TokensInv, document = 1, [Next]_vars, document' = 1
  PROVE  TokensInv'
<1>1. ASSUME UNCHANGED <<opened, generation>>,
             \A d \in Command : running'[d] \subseteq running[d],
             \A token \in live' : token.document = 1
      PROVE  TokensInv'
  <2>1. (\A token \in live \cup opened : token.document = 1)'
    BY <1>1 DEF TokensInv
  <2>2. (generation # 0 => [document |-> 1, generation |-> generation] \in opened)'
    BY <1>1 DEF TokensInv
  <2>3. (\A c \in Command : \A work \in running[c] :
          /\ work.token.document = 1
          /\ work.kind \in Kind => work.token \in opened
          /\ work.kind = "current" => work.token.generation # generation)'
    BY <1>1 DEF TokensInv
  <2>4. (\A c, d \in Command : \A work \in running[c] : \A other \in running[d] :
          work.kind = "current" /\ other.kind \in Kind /\ other.token = work.token
            => d = c /\ other = work)'
    BY <1>1 DEF TokensInv
  <2>5. QED
    BY <2>1, <2>2, <2>3, <2>4 DEF TokensInv
<1>2. \A token \in live : token.document = 1
  BY DEF TokensInv
<1>3. CASE publish \/ cancel \/ document_started \/ (\E g \in Generation : begin(g))
            \/ UNCHANGED vars
  <2>1. UNCHANGED <<opened, generation, running>>
    BY <1>3 DEF publish, cancel, document_started, begin, vars, broker, store
  <2>2. \A token \in live' : token.document = 1
    BY <1>2, <1>3 DEF publish, cancel, document_started, begin, vars, broker
  <2>3. QED
    BY <1>1, <2>1, <2>2
<1>4. ASSUME NEW f \in Frame, finalize_commit(f) \/ rollback_staged(f) \/ rollback_commit(f)
      PROVE  TokensInv'
  <2>1. UNCHANGED <<opened, generation, running, live>>
    BY <1>4 DEF finalize_commit, rollback_staged, rollback_commit, broker
  <2>2. QED
    BY <1>1, <1>2, <2>1
<1>5. ASSUME NEW c \in Command,
             stage(c) \/ commit_staged(c) \/ cache_presentation(c) \/ command_fails(c)
      PROVE  TokensInv'
  <2>1. UNCHANGED <<opened, generation, live>> /\ running' = [running EXCEPT ![c] = {}]
    BY <1>5 DEF stage, commit_staged, cache_presentation, command_fails, broker, store
  <2>2. \A d \in Command : running'[d] \subseteq running[d]
    BY <2>1 DEF TypeOK
  <2>3. QED
    BY <1>1, <1>2, <2>1, <2>2
<1>6. ASSUME NEW c \in Command, prepare_current(c)
      PROVE  TokensInv'
  <2>1. PICK token \in live \ opened : Start(c, Preparation("current", token, {}))
                                         /\ opened' = opened \cup {token}
    BY <1>6 DEF prepare_current
  <2> DEFINE work == Preparation("current", token, {})
  <2>2. work.kind = "current" /\ work.token = token
    BY DEF Preparation
  <2>3. token \in Token /\ token.document = 1
    BY <1>2 DEF TypeOK
  <2>4. work \in Work
    BY <2>3 DEF Preparation, Work, Kind
  <2>5. live' = live /\ generation' = generation
    BY <2>1 DEF Start, store
  <2>6. \A u \in opened' : u.document = 1
    BY <2>1, <2>3 DEF TokensInv
  <2> HIDE DEF work
  <2>7. QED
    BY <2>1, <2>2, <2>4, <2>5, <2>6, TokensStarting DEF work
<1>7. ASSUME NEW c \in Command, NEW work \in Work, Start(c, work),
             opened' = opened, work.kind # "current",
             work.kind \in {"predecessor", "newer"} => work.token.generation = generation
      PROVE  TokensInv'
  <2>1. live' = live /\ generation' = generation
    BY <1>7 DEF Start, store
  <2>2. work.token \in live /\ work.token \in Token
    BY <1>7, Starting DEF Work
  <2>3. work.kind \in Kind => work.token \in opened'
    <3> SUFFICES ASSUME work.kind \in Kind PROVE work.token \in opened'
      OBVIOUS
    <3>1. work.token.generation = generation
      BY <1>7 DEF Kind
    <3>2. work.token = [document |-> 1, generation |-> generation]
      BY <1>2, <2>2, <3>1 DEF Token
    <3>3. generation # 0
      BY <2>2, <3>1 DEF Token, Generation
    <3>4. QED
      BY <1>7, <3>2, <3>3 DEF TokensInv
  <2>4. \A u \in opened' : u.document = 1
    BY <1>7 DEF TokensInv
  <2>5. QED
    BY <1>7, <2>1, <2>3, <2>4, TokensStarting
<1>8. ASSUME NEW c \in Command, prepare_predecessor(c) \/ prepare_newer(c)
      PROVE  TokensInv'
  <2>1. PICK sort \in {"predecessor", "newer"}, token \in live, seen \in SUBSET Time :
           /\ token.generation = generation
           /\ Start(c, Preparation(sort, token, seen))
    <3>1. CASE prepare_predecessor(c)
      <4>1. Head(backfill_candidates) \in Time
        BY <3>1, HeadTailProperties DEF prepare_predecessor, TypeOK
      <4>2. QED
        BY <3>1, <4>1 DEF prepare_predecessor
    <3>2. CASE prepare_newer(c)
      <4>1. retained # <<>> /\ retained \in Seq(Frame)
        BY <3>2 DEF prepare_newer, TypeOK
      <4>2. Last(retained).time \in Time
        BY <4>1, Ends DEF Frame
      <4>3. QED
        BY <3>2, <4>2 DEF prepare_newer
    <3>3. QED
      BY <1>8, <3>1, <3>2
  <2> DEFINE work == Preparation(sort, token, seen)
  <2>2. work.kind = sort /\ work.token = token
    BY DEF Preparation
  <2>3. work \in Work
    BY DEF Preparation, Work, Kind, TypeOK
  <2>4. opened' = opened
    BY <1>8 DEF prepare_predecessor, prepare_newer
  <2> HIDE DEF work
  <2>5. QED
    BY <1>7, <2>1, <2>2, <2>3, <2>4 DEF work
<1>9. ASSUME NEW c \in Command, NEW f \in Frame,
             commit_national_history_frame(c, f) \/ prepare_presentation(c, f)
      PROVE  TokensInv'
  <2>1. PICK sort \in {"commit", "presentation"}, token \in live :
           Start(c, [kind |-> sort, token |-> token, seen |-> {}, frame |-> {f},
                     backfill_candidates |-> <<>>])
    BY <1>9 DEF commit_national_history_frame, prepare_presentation
  <2> DEFINE work == [kind |-> sort, token |-> token, seen |-> {}, frame |-> {f},
                      backfill_candidates |-> <<>>]
  <2>2. work \in Work /\ work.kind = sort
    BY DEF Work, TypeOK
  <2>3. opened' = opened
    BY <1>9 DEF commit_national_history_frame, prepare_presentation
  <2> HIDE DEF work
  <2>4. QED
    BY <1>7, <2>1, <2>2, <2>3 DEF work
<1>10. ASSUME NEW c \in Command, acquire_overview(c)
       PROVE  TokensInv'
  <2>1. UNCHANGED <<opened, generation, live>>
    BY <1>10 DEF acquire_overview, broker, store
  <2>2. PICK work \in running[c], acquired \in Work :
            /\ running'[c] = {acquired}
            /\ \A d \in Command \ {c} : running'[d] = running[d]
            /\ acquired.kind = work.kind /\ acquired.token = work.token
    BY <1>10, AcquireStep
  <2>3. (\A token \in live \cup opened : token.document = 1)'
    BY <2>1 DEF TokensInv
  <2>4. (generation # 0 => [document |-> 1, generation |-> generation] \in opened)'
    BY <2>1 DEF TokensInv
  <2>5. (\A d \in Command : \A x \in running[d] :
          /\ x.token.document = 1
          /\ x.kind \in Kind => x.token \in opened
          /\ x.kind = "current" => x.token.generation # generation)'
    BY <2>1, <2>2 DEF TokensInv
  <2>6. ASSUME NEW a \in Command, NEW b \in Command, NEW x \in running'[a],
               NEW y \in running'[b],
               x.kind = "current", y.kind \in Kind, y.token = x.token
        PROVE  b = a /\ y = x
    <3>1. PICK x0 \in running[a] : x0.kind = x.kind /\ x0.token = x.token
                                     /\ (a # c => x0 = x)
      BY <2>2
    <3>2. PICK y0 \in running[b] : y0.kind = y.kind /\ y0.token = y.token
                                     /\ (b # c => y0 = y)
      BY <2>2
    <3>3. b = a /\ y0 = x0
      BY <2>6, <3>1, <3>2 DEF TokensInv
    <3>4. QED
      BY <2>2, <3>1, <3>2, <3>3
  <2>7. QED
    BY <2>3, <2>4, <2>5, <2>6 DEF TokensInv
<1>11. ASSUME NEW c \in Command, stage_current(c)
       PROVE  TokensInv'
  <2>1. PICK work \in running[c] :
           /\ work.kind = "current"
           /\ generation' = work.token.generation
           /\ running' = [running EXCEPT ![c] = {}]
           /\ UNCHANGED <<live, opened>>
    BY <1>11 DEF stage_current, broker
  <2>2. running'[c] = {} /\ \A d \in Command \ {c} : running'[d] = running[d]
    BY <2>1 DEF TypeOK
  <2>3. work.token \in Token /\ work.token \in opened /\ work.token.document = 1
    BY <2>1 DEF TokensInv, TypeOK, Work, Kind
  <2>4. [document |-> 1, generation |-> generation'] \in opened'
    BY <2>1, <2>3 DEF Token
  <2>5. ASSUME NEW d \in Command, NEW other \in running'[d]
        PROVE  /\ other.token.document = 1
               /\ other.kind \in Kind => other.token \in opened'
               /\ other.kind = "current" => other.token.generation # generation'
    <3>1. d # c /\ other \in running[d] /\ other.token \in Token
      BY <2>2 DEF TypeOK, Work
    <3>2. other.token.document = 1 /\ (other.kind \in Kind => other.token \in opened')
      BY <2>1, <3>1 DEF TokensInv
    <3>3. other.kind = "current" => other.token # work.token
      BY <2>1, <3>1 DEF TokensInv, Kind
    <3>4. QED
      BY <2>1, <2>3, <3>1, <3>2, <3>3, SameToken
  <2>6. (\A a, b \in Command : \A x \in running[a] : \A y \in running[b] :
          x.kind = "current" /\ y.kind \in Kind /\ y.token = x.token
            => b = a /\ y = x)'
    BY <2>2 DEF TokensInv
  <2>7. QED
    BY <2>1, <2>4, <2>5, <2>6 DEF TokensInv
<1>12. QED
  BY <1>3, <1>4, <1>5, <1>6, <1>8, <1>9, <1>10, <1>11 DEF Next, CommandStep

-----------------------------------------------------------------------------
(* What ties the observations retained to the candidates, to the exact      *)
(* pyramid of the current observation and to the work under way for the     *)
(* generation: now, and in what a rollback would restore.                   *)

Mine(work) ==
  work.kind \in {"predecessor", "newer"} /\ work.token.generation = generation

Consecutive(candidates) ==
  \A i \in 1 .. Len(candidates) : candidates[i] = candidates[1] - (i - 1)

Adjoins(frames, candidates) ==
  candidates # <<>> /\ frames # <<>> =>
    /\ candidates[1] < frames[1].time
    /\ Len(frames) = HISTORY_LIMIT \/ frames[1].time = candidates[1] + 1

ExactBetween(frames, candidates) ==
  \A e \in exact_pyramid :
     /\ frames # <<>> => e.time <= frames[Len(frames)].time
     /\ \A i \in 1 .. Len(candidates) : candidates[i] < e.time

WorkBetween(frames, candidates) ==
  \A c \in Command : \A work \in running[c] : Mine(work) =>
     /\ frames # <<>>
     /\ work.kind = "predecessor" /\ candidates # <<>> =>
          \A t \in work.seen : candidates[1] <= t

Consistent(frames, candidates) ==
  /\ Consecutive(candidates)
  /\ Adjoins(frames, candidates)
  /\ ExactBetween(frames, candidates)
  /\ WorkBetween(frames, candidates)

StagedFits ==
  \A s \in staged :
     /\ s.kind = "current" => \A e \in exact_pyramid : e.time <= s.frame.time
     /\ s.kind = "current" /\ backfill_candidates # <<>> =>
          s.frame.time = backfill_candidates[1] + 1
     /\ s.kind # "current" => retained # <<>>
     /\ s.kind = "predecessor" /\ backfill_candidates # <<>> =>
          backfill_candidates[1] <= s.frame.time

WorkMeetsNoExact ==
  \A c \in Command : \A work \in running[c] : Mine(work) =>
     /\ work.seen # {}
     /\ \A e \in exact_pyramid : \A t \in work.seen :
          IF work.kind = "newer" THEN e.time <= t ELSE t < e.time

SeriesInv ==
  /\ \A e \in exact_pyramid : e.generation = generation
  /\ Consistent(retained, backfill_candidates)
  /\ \A r \in reversible_commit : Consistent(r.retained, r.backfill_candidates)
  /\ StagedFits
  /\ WorkMeetsNoExact

(* The work of the generation is not more than before.                      *)
NoMoreOfMine ==
  \A c \in Command : \A work \in running'[c] : Mine(work)' =>
     \E before \in running[c] :
        /\ Mine(before)
        /\ before.kind = work.kind /\ before.seen = work.seen

LEMMA ConsistentKept ==
  ASSUME NEW frames, NEW candidates, Consistent(frames, candidates),
         NoMoreOfMine, exact_pyramid' \subseteq exact_pyramid
  PROVE  /\ ExactBetween(frames, candidates)' /\ WorkBetween(frames, candidates)'
         /\ Consecutive(candidates) /\ Adjoins(frames, candidates)
<1>1. \A e \in exact_pyramid' :
         /\ frames # <<>> => e.time <= frames[Len(frames)].time
         /\ \A i \in 1 .. Len(candidates) : candidates[i] < e.time
  BY DEF Consistent, ExactBetween
<1>2. \A c \in Command : \A work \in running'[c] : Mine(work)' =>
         /\ frames # <<>>
         /\ work.kind = "predecessor" /\ candidates # <<>> =>
              \A t \in work.seen : candidates[1] <= t
  BY DEF Consistent, WorkBetween, NoMoreOfMine
<1>3. QED
  BY <1>1, <1>2 DEF Consistent, ExactBetween, WorkBetween

LEMMA NoMoreWork ==
  ASSUME TypeOK, generation' = generation,
         \/ \A d \in Command : running'[d] \subseteq running[d]
         \/ \E c \in Command :
              \/ prepare_current(c) \/ acquire_overview(c)
              \/ \E f \in Frame : commit_national_history_frame(c, f)
              \/ \E f \in Frame : prepare_presentation(c, f)
  PROVE  NoMoreOfMine
<1>1. CASE \A d \in Command : running'[d] \subseteq running[d]
  BY <1>1 DEF NoMoreOfMine, Mine
<1>2. ASSUME NEW c \in Command, NEW work, Start(c, work),
             work.kind \notin {"predecessor", "newer"}
      PROVE  NoMoreOfMine
  <2>1. running'[c] = {work} /\ \A d \in Command \ {c} : running'[d] = running[d]
    BY <1>2, Starting
  <2>2. QED
    BY <1>2, <2>1 DEF NoMoreOfMine, Mine
<1>3. ASSUME NEW c \in Command, prepare_current(c)
      PROVE  NoMoreOfMine
  <2>1. PICK token : Start(c, Preparation("current", token, {}))
    BY <1>3 DEF prepare_current
  <2>2. Preparation("current", token, {}).kind = "current"
    BY DEF Preparation
  <2>3. QED
    BY <1>2, <2>1, <2>2
<1>4. ASSUME NEW c \in Command, NEW f \in Frame,
             commit_national_history_frame(c, f) \/ prepare_presentation(c, f)
      PROVE  NoMoreOfMine
  <2>1. PICK sort \in {"commit", "presentation"}, token \in live :
           Start(c, [kind |-> sort, token |-> token, seen |-> {}, frame |-> {f},
                     backfill_candidates |-> <<>>])
    BY <1>4 DEF commit_national_history_frame, prepare_presentation
  <2> DEFINE work == [kind |-> sort, token |-> token, seen |-> {}, frame |-> {f},
                      backfill_candidates |-> <<>>]
  <2>2. work.kind = sort
    OBVIOUS
  <2> HIDE DEF work
  <2>3. QED
    BY <1>2, <2>1, <2>2 DEF work
<1>5. ASSUME NEW c \in Command, acquire_overview(c)
      PROVE  NoMoreOfMine
  <2>1. PICK work \in running[c], acquired \in Work :
            /\ running'[c] = {acquired}
            /\ \A d \in Command \ {c} : running'[d] = running[d]
            /\ acquired.kind = work.kind /\ acquired.token = work.token
            /\ acquired.seen = work.seen
    BY <1>5, AcquireStep
  <2>2. QED
    BY <2>1 DEF NoMoreOfMine, Mine
<1>6. QED
  BY <1>1, <1>3, <1>4, <1>5

(* A step that leaves the store alone.                                      *)
LEMMA SeriesUntouched ==
  ASSUME SeriesInv, StoreUntouched, NoMoreOfMine
  PROVE  SeriesInv'
<1>1. UNCHANGED <<generation, retained, staged, backfill_candidates, reversible_commit,
                  exact_pyramid>>
  BY DEF StoreUntouched
<1>2. Consistent(retained, backfill_candidates)'
  <2>1. Consistent(retained, backfill_candidates)
    BY DEF SeriesInv
  <2>2. QED
    BY <1>1, <2>1, ConsistentKept
       DEF Consistent, ExactBetween, WorkBetween, Consecutive, Adjoins
<1>3. ASSUME NEW r \in reversible_commit
      PROVE  Consistent(r.retained, r.backfill_candidates)'
  <2>1. Consistent(r.retained, r.backfill_candidates)
    BY DEF SeriesInv
  <2>2. QED
    BY <1>1, <2>1, ConsistentKept
       DEF Consistent, ExactBetween, WorkBetween, Consecutive, Adjoins
<1>4. StagedFits'
  BY <1>1 DEF SeriesInv, StagedFits
<1>5. WorkMeetsNoExact'
  BY <1>1 DEF SeriesInv, WorkMeetsNoExact, NoMoreOfMine
<1>6. QED
  BY <1>1, <1>2, <1>3, <1>4, <1>5 DEF SeriesInv, Consistent

LEMMA TimesAreIntegers ==
  ASSUME TypeOK
  PROVE  /\ \A e \in exact_pyramid : e.time \in Int
         /\ \A s \in staged : s.frame.time \in Int
         /\ \A c \in Command : \A work \in running[c] :
              /\ work \in Work
              /\ \A t \in work.seen : t \in Int
              /\ \A f \in work.frame : f \in Frame /\ f.time \in Int
<1>1. \A f \in Frame : f.time \in Int
  BY DEF Frame, Time
<1>2. \A t \in Time : t \in Int
  BY DEF Time
<1>3. \A s \in Staged : s.frame \in Frame
  BY DEF Staged
<1>4. \A work \in Work : work.seen \subseteq Time /\ work.frame \subseteq Frame
  BY DEF Work
<1>5. /\ exact_pyramid \subseteq Frame /\ staged \subseteq Staged
      /\ \A c \in Command : running[c] \subseteq Work
  BY DEF TypeOK
<1>6. QED
  BY <1>1, <1>2, <1>3, <1>4, <1>5

LEMMA CandidateTimes ==
  ASSUME NEW candidates \in Seq(Time)
  PROVE  /\ Len(candidates) \in Nat
         /\ \A i \in 1 .. Len(candidates) : candidates[i] \in Int
         /\ candidates # <<>> =>
              /\ 1 \in 1 .. Len(candidates)
              /\ Head(candidates) = candidates[1]
<1>1. \A t \in Time : t \in Int
  BY DEF Time
<1>2. /\ Len(candidates) \in Nat
      /\ \A i \in 1 .. Len(candidates) : candidates[i] \in Time
  OBVIOUS
<1>3. candidates # <<>> => 1 \in 1 .. Len(candidates) /\ Head(candidates) = candidates[1]
  OBVIOUS
<1>4. QED
  BY <1>1, <1>2, <1>3

(* A predecessor or a newer observation begins to be prepared.              *)
LEMMA SeriesPrepare ==
  ASSUME HistoryInv, SeriesInv, NEW c \in Command,
         prepare_predecessor(c) \/ prepare_newer(c)
  PROVE  SeriesInv'
<1>1. TypeOK /\ reversible_commit = {} /\ staged = {} /\ retained # <<>>
  BY DEF prepare_predecessor, prepare_newer, HistoryInv
<1>2. UNCHANGED <<generation, retained, staged, backfill_candidates, reversible_commit,
                  exact_pyramid>>
  BY OutsideTheStore DEF StoreUntouched
<1>3. PICK sort \in {"predecessor", "newer"}, token \in live,
              t \in {Head(backfill_candidates), Last(retained).time} :
         /\ Start(c, Preparation(sort, token, {t}))
         /\ sort = "predecessor" => backfill_candidates # <<>> /\ t = Head(backfill_candidates)
         /\ sort = "newer" => t = Last(retained).time
  BY DEF prepare_predecessor, prepare_newer
<1> DEFINE work == Preparation(sort, token, {t})
<1>4. work.kind = sort /\ work.seen = {t}
  BY DEF Preparation
<1> HIDE DEF work
<1>5. running'[c] = {work} /\ \A d \in Command \ {c} : running'[d] = running[d]
  BY <1>1, <1>3, Starting DEF work
<1>6. /\ retained \in Seq(Frame) /\ backfill_candidates \in Seq(Time)
      /\ Last(retained) = retained[Len(retained)]
      /\ Consistent(retained, backfill_candidates)
  BY <1>1, Ends DEF TypeOK, SeriesInv
<1>7. \A e \in exact_pyramid : IF sort = "newer" THEN e.time <= t ELSE t < e.time
  <2> SUFFICES ASSUME NEW e \in exact_pyramid
               PROVE  IF sort = "newer" THEN e.time <= t ELSE t < e.time
    OBVIOUS
  <2>1. CASE sort = "newer"
    BY <1>1, <1>3, <1>6, <2>1 DEF Consistent, ExactBetween
  <2>2. CASE sort = "predecessor"
    <3>1. 1 \in 1 .. Len(backfill_candidates) /\ t = backfill_candidates[1]
      BY <1>3, <1>6, <2>2, CandidateTimes
    <3>2. QED
      BY <1>6, <2>2, <3>1 DEF Consistent, ExactBetween
  <2>3. QED
    BY <2>1, <2>2
<1>8. WorkMeetsNoExact'
  <2> SUFFICES ASSUME NEW d \in Command, NEW other \in running'[d], Mine(other)'
               PROVE  /\ other.seen # {}
                      /\ \A e \in exact_pyramid' : \A u \in other.seen :
                           IF other.kind = "newer" THEN e.time <= u ELSE u < e.time
    BY DEF WorkMeetsNoExact
  <2>1. CASE d = c
    BY <1>2, <1>4, <1>5, <1>7, <2>1
  <2>2. CASE d # c
    <3>1. other \in running[d] /\ Mine(other)
      BY <1>2, <1>5, <2>2 DEF Mine
    <3>2. QED
      BY <1>2, <3>1 DEF SeriesInv, WorkMeetsNoExact
  <2>3. QED
    BY <2>1, <2>2
<1>9. WorkBetween(retained, backfill_candidates)'
  <2> SUFFICES ASSUME NEW d \in Command, NEW other \in running'[d], Mine(other)'
               PROVE  /\ retained # <<>>
                      /\ other.kind = "predecessor" /\ backfill_candidates # <<>> =>
                           \A u \in other.seen : backfill_candidates[1] <= u
    BY <1>2 DEF WorkBetween
  <2>1. CASE d = c
    <3>1. other.kind = sort /\ other.seen = {t}
      BY <1>4, <1>5, <2>1
    <3>2. sort = "predecessor" =>
            t = backfill_candidates[1] /\ backfill_candidates[1] \in Int
      BY <1>3, <1>6, CandidateTimes
    <3>3. QED
      BY <1>1, <3>1, <3>2
  <2>2. CASE d # c
    <3>1. other \in running[d] /\ Mine(other)
      BY <1>2, <1>5, <2>2 DEF Mine
    <3>2. QED
      BY <1>6, <3>1 DEF Consistent, WorkBetween
  <2>3. QED
    BY <2>1, <2>2
<1>10. Consistent(retained, backfill_candidates)'
  BY <1>2, <1>6, <1>9 DEF Consistent, Consecutive, Adjoins, ExactBetween
<1>11. StagedFits'
  BY <1>1, <1>2 DEF StagedFits
<1>12. QED
  BY <1>1, <1>2, <1>8, <1>10, <1>11 DEF SeriesInv

(* A new generation starts over with its current observation.               *)
LEMMA SeriesRestart ==
  ASSUME HistoryInv, TokensInv, WorkSound, NEW c \in Command, stage_current(c)
  PROVE  SeriesInv'
<1>1. PICK work \in running[c] : \E f \in work.frame :
         /\ work.kind = "current"
         /\ generation' = work.token.generation
         /\ retained' = <<>>
         /\ staged' = {[kind |-> "current", frame |-> f]}
         /\ backfill_candidates' = work.backfill_candidates
         /\ reversible_commit' = {}
         /\ exact_pyramid' = {f}
         /\ running' = [running EXCEPT ![c] = {}]
  BY DEF stage_current
<1>f. PICK f \in work.frame :
         staged' = {[kind |-> "current", frame |-> f]} /\ exact_pyramid' = {f}
  BY <1>1
<1>2. TypeOK /\ work \in Work /\ f \in Frame /\ f.time \in Int
  BY TimesAreIntegers DEF HistoryInv
<1>3. running'[c] = {} /\ \A d \in Command \ {c} : running'[d] = running[d]
  BY <1>1, <1>f, <1>2 DEF TypeOK
<1>4. ASSUME NEW d \in Command, NEW other \in running'[d], Mine(other)'
      PROVE  FALSE
  <2>1. d # c /\ other \in running[d] /\ other \in Work
    BY <1>2, <1>3, TimesAreIntegers
  <2>2. other.kind \in Kind /\ other.kind # "current"
          /\ other.token.generation = work.token.generation
    BY <1>1, <1>f, <1>4 DEF Mine, Kind
  <2>3. other.token.document = 1 /\ work.token.document = 1
    BY <2>1 DEF TokensInv
  <2>4. other.token = work.token
    BY <1>2, <2>1, <2>2, <2>3, SameToken DEF Work
  <2>5. QED
    BY <1>1, <1>f, <2>1, <2>2, <2>4 DEF TokensInv
<1>5. /\ f.generation = work.token.generation
      /\ \A i \in 1 .. Len(work.backfill_candidates) : work.backfill_candidates[i] = f.time - i
  BY <1>1, <1>f DEF WorkSound, Sound, Kind
<1>6. /\ work.backfill_candidates \in Seq(Time)
      /\ Len(work.backfill_candidates) \in Nat
  BY <1>2 DEF Work
<1>7. Consecutive(work.backfill_candidates)
  BY <1>2, <1>5, <1>6 DEF Consecutive
<1>8. Consistent(retained, backfill_candidates)'
  <2>1. Adjoins(<<>>, work.backfill_candidates)
    BY DEF Adjoins
  <2>2. ExactBetween(retained, backfill_candidates)'
    <3> SUFFICES ASSUME NEW e \in exact_pyramid'
                 PROVE  /\ retained' # <<>> => e.time <= retained'[Len(retained')].time
                        /\ \A i \in 1 .. Len(backfill_candidates') : backfill_candidates'[i] < e.time
      BY DEF ExactBetween
    <3>1. e = f
      BY <1>1, <1>f
    <3>2. QED
      BY <1>1, <1>f, <1>2, <1>5, <1>6, <3>1
  <2>3. WorkBetween(retained, backfill_candidates)'
    BY <1>4 DEF WorkBetween
  <2>4. QED
    BY <1>1, <1>f, <1>7, <2>1, <2>2, <2>3 DEF Consistent, Consecutive, Adjoins
<1>9. StagedFits'
  <2> SUFFICES ASSUME NEW s \in staged'
               PROVE  /\ s.kind = "current" => \A e \in exact_pyramid' : e.time <= s.frame.time
                      /\ s.kind = "current" /\ backfill_candidates' # <<>> =>
                           s.frame.time = backfill_candidates'[1] + 1
                      /\ s.kind # "current" => retained' # <<>>
                      /\ s.kind = "predecessor" /\ backfill_candidates' # <<>> =>
                           backfill_candidates'[1] <= s.frame.time
    BY DEF StagedFits
  <2>1. s.kind = "current" /\ s.frame = f
    BY <1>1, <1>f
  <2>2. work.backfill_candidates # <<>> => work.backfill_candidates[1] = f.time - 1
    BY <1>5, <1>6, CandidateTimes
  <2>3. QED
    BY <1>1, <1>f, <1>2, <2>1, <2>2
<1>10. WorkMeetsNoExact'
  BY <1>4 DEF WorkMeetsNoExact
<1>11. QED
  BY <1>1, <1>f, <1>5, <1>8, <1>9, <1>10 DEF SeriesInv

(* A predecessor or a newer observation is staged.                          *)
LEMMA SeriesStage ==
  ASSUME HistoryInv, SeriesInv, WorkSound, NEW c \in Command, stage(c)
  PROVE  SeriesInv'
<1>1. PICK work \in running[c] : \E f \in work.frame :
         /\ work.kind \in {"predecessor", "newer"}
         /\ generation = f.generation
         /\ staged' = {[kind |-> work.kind, frame |-> f]}
         /\ running' = [running EXCEPT ![c] = {}]
  BY DEF stage
<1>f. PICK f \in work.frame : /\ generation = f.generation
                              /\ staged' = {[kind |-> work.kind, frame |-> f]}
  BY <1>1
<1>2. UNCHANGED <<generation, retained, backfill_candidates, reversible_commit, exact_pyramid>>
  BY DEF stage
<1>3. TypeOK
  BY DEF HistoryInv
<1>4. NoMoreOfMine
  BY <1>1, <1>f, <1>2, <1>3, NoMoreWork DEF TypeOK
<1>5. f.generation = work.token.generation /\ (work.kind = "predecessor" => f.time \in work.seen)
  BY <1>1, <1>f DEF WorkSound, Sound, Kind
<1>6. Mine(work)
  BY <1>1, <1>f, <1>5 DEF Mine
<1>7. StagedFits'
  <2>1. retained # <<>>
    BY <1>6 DEF SeriesInv, Consistent, WorkBetween
  <2>2. work.kind = "predecessor" /\ backfill_candidates # <<>> =>
          backfill_candidates[1] <= f.time
    BY <1>5, <1>6 DEF SeriesInv, Consistent, WorkBetween
  <2>3. \A s \in staged' : s.kind = work.kind /\ s.frame = f
    BY <1>1, <1>f
  <2>4. QED
    BY <1>1, <1>f, <1>2, <2>1, <2>2, <2>3 DEF StagedFits
<1>8. Consistent(retained, backfill_candidates)'
  <2>1. Consistent(retained, backfill_candidates)
    BY DEF SeriesInv
  <2>2. QED
    BY <1>2, <1>4, <2>1, ConsistentKept
       DEF Consistent, ExactBetween, WorkBetween, Consecutive, Adjoins
<1>9. reversible_commit' = {}
  BY <1>2 DEF stage, ensure_no_stage
<1>10. WorkMeetsNoExact'
  BY <1>2, <1>4 DEF SeriesInv, WorkMeetsNoExact, NoMoreOfMine
<1>11. QED
  BY <1>2, <1>7, <1>8, <1>9, <1>10 DEF SeriesInv

(* A commit adds the staged observation, and may evict the oldest one.      *)
LEMMA CommitJoins ==
  ASSUME HistoryInv, SeriesInv, NEW s \in staged, InPlace(s),
         NEW frames, frames = evict(Joined(s)),
         NEW candidates,
         candidates = IF Consumed(s) THEN Tail(backfill_candidates) ELSE backfill_candidates
  PROVE  Consistent(frames, candidates)
<1> DEFINE n == Len(retained)
           t == s.frame.time
           cand == backfill_candidates
<1>1. /\ TypeOK /\ retained \in Seq(Frame) /\ n \in Nat
      /\ \A i \in 1 .. n : retained[i].time \in Int
      /\ n <= HISTORY_LIMIT /\ InOrder(retained)
  BY RetainedFrames DEF HistoryInv, Kept
<1>2. t \in Int /\ s.kind \in Kind
  BY <1>1, TimesAreIntegers DEF TypeOK, Staged
<1>3. /\ cand \in Seq(Time) /\ Len(cand) \in Nat
      /\ \A i \in 1 .. Len(cand) : cand[i] \in Int
      /\ cand # <<>> => 1 \in 1 .. Len(cand) /\ Head(cand) = cand[1]
  BY <1>1, CandidateTimes DEF TypeOK
<1>4. /\ Consecutive(cand) /\ Adjoins(retained, cand)
      /\ ExactBetween(retained, cand) /\ WorkBetween(retained, cand)
  BY DEF SeriesInv, Consistent
<1>5. /\ s.kind = "current" => \A e \in exact_pyramid : e.time <= t
      /\ s.kind = "current" /\ cand # <<>> => t = cand[1] + 1
      /\ s.kind # "current" => retained # <<>>
      /\ s.kind = "predecessor" /\ cand # <<>> => cand[1] <= t
  BY DEF SeriesInv, StagedFits
<1>6. /\ Joined(s) \in Seq(Frame) /\ Len(Joined(s)) = n + 1
      /\ s.kind = "predecessor" =>
           Joined(s)[1] = s.frame /\ \A i \in 1 .. n : Joined(s)[i + 1] = retained[i]
      /\ s.kind # "predecessor" =>
           Joined(s)[n + 1] = s.frame /\ \A i \in 1 .. n : Joined(s)[i] = retained[i]
  BY <1>1, JoinedProperties
<1>7. InOrder(Joined(s))
  BY <1>1, JoinedInOrder
<1>8. /\ n < HISTORY_LIMIT => frames = Joined(s)
      /\ n = HISTORY_LIMIT =>
           Len(frames) = n /\ \A i \in 1 .. n : frames[i] = Joined(s)[i + 1]
  <2>1. /\ Len(Joined(s)) <= HISTORY_LIMIT => evict(Joined(s)) = Joined(s)
        /\ Len(Joined(s)) > HISTORY_LIMIT =>
             /\ Len(evict(Joined(s))) = Len(Joined(s)) - 1
             /\ \A i \in 1 .. Len(Joined(s)) - 1 : evict(Joined(s))[i] = Joined(s)[i + 1]
    BY <1>6, EvictProperties
  <2>2. (n + 1) - 1 = n /\ (n < HISTORY_LIMIT => n + 1 <= HISTORY_LIMIT)
          /\ (n = HISTORY_LIMIT => n + 1 > HISTORY_LIMIT)
    BY <1>1, LimitAssumption
  <2>3. QED
    BY <1>6, <2>1, <2>2
<1>9. n < HISTORY_LIMIT \/ n = HISTORY_LIMIT
  BY <1>1, LimitAssumption
<1>10. retained # <<>> => n >= 1
  BY <1>1
<1>11. retained = <<>> => n = 0
  BY <1>1
<1>12. s.kind = "current" => retained = <<>>
  BY DEF InPlace
<1>13. s.kind = "newer" => t > retained[n].time
  <2>1. s.kind = "newer" => t > Last(retained).time
    BY <1>5 DEF InPlace
  <2>2. s.kind = "newer" => Last(retained) = retained[n]
    BY <1>1, <1>5, Ends
  <2>3. QED
    BY <2>1, <2>2
<1>14. s.kind = "predecessor" => t < retained[1].time
  <2>1. s.kind = "predecessor" => t < Head(retained).time
    BY <1>5 DEF InPlace
  <2>2. s.kind = "predecessor" => Head(retained) = retained[1]
    BY <1>1, <1>5, Ends
  <2>3. QED
    BY <2>1, <2>2
<1>15. /\ cand # <<>> => Tail(cand) \in Seq(Time) /\ Len(Tail(cand)) = Len(cand) - 1
       /\ cand # <<>> => \A i \in 1 .. Len(cand) - 1 : Tail(cand)[i] = cand[i + 1]
  BY <1>3, HeadTailProperties
<1>16. Consumed(s) <=> s.kind = "predecessor" /\ cand # <<>> /\ cand[1] = t
  BY <1>3 DEF Consumed
<1>17. candidates = IF Consumed(s) THEN Tail(cand) ELSE cand
  OBVIOUS
<1> HIDE DEF n, t, cand
<1>27. Consumed(s) =>
         /\ cand # <<>> /\ candidates = Tail(cand) /\ Len(candidates) = Len(cand) - 1
         /\ \A i \in 1 .. Len(cand) - 1 : candidates[i] = cand[i + 1]
  <2> SUFFICES ASSUME Consumed(s)
               PROVE  /\ cand # <<>> /\ candidates = Tail(cand)
                      /\ Len(candidates) = Len(cand) - 1
                      /\ \A i \in 1 .. Len(cand) - 1 : candidates[i] = cand[i + 1]
    OBVIOUS
  <2>1. cand # <<>> /\ candidates = Tail(cand)
    BY <1>16, <1>17
  <2>2. QED
    BY <1>15, <2>1
<1>18. /\ Len(frames) >= 1 /\ Len(frames) \in Nat
       /\ frames[Len(frames)] = Joined(s)[n + 1]
  BY <1>1, <1>6, <1>8, <1>9, LimitAssumption
<1>19. /\ candidates \in Seq(Time) /\ Len(candidates) \in Nat
       /\ candidates # <<>> => 1 \in 1 .. Len(candidates)
       /\ \A i \in 1 .. Len(candidates) : candidates[i] \in Int
  BY <1>3, <1>15, <1>16, <1>17, CandidateTimes
<1>20. \A i \in 1 .. Len(candidates) : \E j \in 1 .. Len(cand) : candidates[i] = cand[j]
  <2> SUFFICES ASSUME NEW i \in 1 .. Len(candidates)
               PROVE  \E j \in 1 .. Len(cand) : candidates[i] = cand[j]
    OBVIOUS
  <2>1. CASE Consumed(s)
    <3>1. i \in 1 .. Len(cand) - 1 /\ i + 1 \in 1 .. Len(cand)
      BY <1>3, <1>27, <2>1
    <3>2. candidates[i] = cand[i + 1]
      BY <1>27, <2>1, <3>1
    <3>3. QED
      BY <3>1, <3>2
  <2>2. QED
    BY <1>17, <2>1
<1>21. Consecutive(candidates)
  <2>1. CASE Consumed(s)
    <3>1. cand # <<>> /\ candidates = Tail(cand)
      BY <1>16, <1>17, <2>1
    <3>2. ASSUME NEW i \in 1 .. Len(candidates)
          PROVE  candidates[i] = candidates[1] - (i - 1)
      <4>0. /\ i \in 1 .. Len(cand) - 1 /\ 1 \in 1 .. Len(cand) - 1
            /\ i + 1 \in 1 .. Len(cand) /\ 2 \in 1 .. Len(cand)
        BY <1>3, <1>27, <2>1
      <4>1. candidates[i] = cand[i + 1] /\ candidates[1] = cand[1 + 1]
        BY <1>27, <2>1, <4>0
      <4>2. cand[i + 1] = cand[1] - ((i + 1) - 1) /\ cand[2] = cand[1] - (2 - 1)
        BY <1>4, <4>0 DEF Consecutive
      <4>3. cand[1] \in Int /\ i \in Int
        BY <1>3, <4>0
      <4>4. cand[i + 1] = cand[1] - i /\ cand[1 + 1] = cand[1] - 1
        BY <4>2, <4>3
      <4>5. candidates[i] = cand[1] - i /\ candidates[1] = cand[1] - 1
        BY <4>1, <4>4
      <4>6. QED
        BY <4>3, <4>5
    <3>3. QED
      BY <3>2 DEF Consecutive
  <2>2. QED
    BY <1>4, <1>17, <2>1
<1>22. candidates # <<>> =>
         /\ cand # <<>> /\ cand[1] \in Int /\ candidates[1] <= cand[1]
         /\ Consumed(s) => candidates[1] = cand[1] - 1
         /\ ~Consumed(s) => candidates[1] = cand[1]
  <2> SUFFICES ASSUME candidates # <<>>
               PROVE  /\ cand # <<>> /\ cand[1] \in Int /\ candidates[1] <= cand[1]
                      /\ Consumed(s) => candidates[1] = cand[1] - 1
                      /\ ~Consumed(s) => candidates[1] = cand[1]
    OBVIOUS
  <2>1. CASE Consumed(s)
    <3>1. cand # <<>> /\ cand[1] \in Int
      BY <1>3, <1>16, <2>1
    <3>2. 1 + 1 \in 1 .. Len(cand) /\ candidates[1] = cand[1 + 1]
      BY <1>3, <1>15, <1>17, <1>19, <2>1, <3>1
    <3>3. cand[1 + 1] = cand[1] - ((1 + 1) - 1)
      BY <1>4, <3>2 DEF Consecutive
    <3>4. QED
      BY <2>1, <3>1, <3>2, <3>3
  <2>2. CASE ~Consumed(s)
    BY <1>3, <1>17, <2>2
  <2>3. QED
    BY <2>1, <2>2
<1>23. ExactBetween(frames, candidates)
  <2> SUFFICES ASSUME NEW e \in exact_pyramid
               PROVE  /\ e.time <= frames[Len(frames)].time
                      /\ \A i \in 1 .. Len(candidates) : candidates[i] < e.time
    BY DEF ExactBetween
  <2>1. e.time \in Int
    BY <1>1, TimesAreIntegers
  <2>2. \A i \in 1 .. Len(candidates) : candidates[i] < e.time
    BY <1>4, <1>20 DEF ExactBetween
  <2>3. retained # <<>> => e.time <= retained[n].time
    BY <1>4 DEF ExactBetween, n
  <2>4. e.time <= Joined(s)[n + 1].time
    <3>1. CASE s.kind = "current"
      BY <1>5, <1>6, <3>1 DEF t
    <3>2. CASE s.kind = "predecessor"
      <4>1. n \in 1 .. n /\ retained # <<>>
        BY <1>1, <1>5, <1>10, <3>2
      <4>2. QED
        BY <1>6, <2>3, <3>2, <4>1
    <3>3. CASE s.kind = "newer"
      <4>1. n \in 1 .. n /\ retained # <<>>
        BY <1>1, <1>5, <1>10, <3>3
      <4>2. Joined(s)[n + 1].time = t /\ retained[n].time \in Int
        BY <1>1, <1>6, <3>3, <4>1 DEF t
      <4>3. QED
        BY <1>2, <1>13, <2>1, <2>3, <3>3, <4>1, <4>2
    <3>4. QED
      BY <1>2, <3>1, <3>2, <3>3 DEF Kind
  <2>5. QED
    BY <1>18, <2>2, <2>4
<1>24. WorkBetween(frames, candidates)
  <2> SUFFICES ASSUME NEW c \in Command, NEW work \in running[c], Mine(work)
               PROVE  /\ frames # <<>>
                      /\ work.kind = "predecessor" /\ candidates # <<>> =>
                           \A u \in work.seen : candidates[1] <= u
    BY DEF WorkBetween
  <2>1. frames # <<>>
    BY <1>18
  <2>2. ASSUME work.kind = "predecessor", candidates # <<>>, NEW u \in work.seen
        PROVE  candidates[1] <= u
    <3>1. u \in Int
      BY <1>1, TimesAreIntegers
    <3>2. cand[1] <= u
      BY <1>4, <1>22, <2>2 DEF WorkBetween
    <3>3. candidates[1] \in Int
      BY <1>19, <2>2
    <3>4. QED
      BY <1>22, <2>2, <3>1, <3>2, <3>3
  <2>3. QED
    BY <2>1, <2>2
<1>25. Adjoins(frames, candidates)
  <2> SUFFICES ASSUME candidates # <<>>
               PROVE  /\ candidates[1] < frames[1].time
                      /\ Len(frames) = HISTORY_LIMIT \/ frames[1].time = candidates[1] + 1
    BY DEF Adjoins
  <2>1. cand # <<>> /\ cand[1] \in Int /\ candidates[1] \in Int /\ candidates[1] <= cand[1]
    BY <1>19, <1>22
  <2>2. retained # <<>> => /\ cand[1] < retained[1].time
                           /\ n = HISTORY_LIMIT \/ retained[1].time = cand[1] + 1
    BY <1>4, <2>1 DEF Adjoins, n
  <2>3. CASE s.kind = "current"
    <3>1. n = 0 /\ n < HISTORY_LIMIT
      BY <1>11, <1>12, <2>3, LimitAssumption
    <3>2. frames[1].time = t
      BY <1>6, <1>8, <2>3, <3>1 DEF t
    <3>3. candidates[1] = cand[1] /\ t = cand[1] + 1
      BY <1>5, <1>16, <1>22, <2>1, <2>3
    <3>4. QED
      BY <2>1, <3>2, <3>3
  <2>4. CASE s.kind = "newer"
    <3>1. n >= 1 /\ retained[1].time \in Int /\ candidates[1] = cand[1]
      BY <1>1, <1>5, <1>10, <1>16, <1>22, <2>4
    <3>2. CASE n < HISTORY_LIMIT
      <4>1. frames[1] = retained[1]
        BY <1>1, <1>6, <1>8, <2>4, <3>1, <3>2
      <4>2. QED
        BY <1>1, <1>5, <2>2, <2>4, <3>1, <3>2, <4>1, LimitAssumption
    <3>3. CASE n = HISTORY_LIMIT
      <4>0. 1 \in 1 .. n
        BY <1>1, <3>1
      <4>1. /\ frames[1] = Joined(s)[1 + 1] /\ Joined(s)[1] = retained[1]
            /\ Len(frames) = HISTORY_LIMIT
        <5>1. Joined(s)[1] = retained[1]
          BY <1>6, <2>4, <4>0
        <5>2. Len(frames) = n /\ frames[1] = Joined(s)[1 + 1]
          BY <1>8, <3>3, <4>0
        <5>3. QED
          BY <3>3, <5>1, <5>2
      <4>2. 1 \in 1 .. Len(Joined(s)) /\ 1 + 1 \in 1 .. Len(Joined(s))
        BY <1>1, <1>6, <3>1
      <4>3. Joined(s)[1].time < Joined(s)[1 + 1].time
        BY <1>7, <4>2 DEF InOrder
      <4>4. Joined(s)[1 + 1].time \in Int
        <5>1. Joined(s)[1 + 1] \in Frame
          BY <1>6, <4>2
        <5>2. QED
          BY <5>1 DEF Frame, Time
      <4>5. QED
        BY <1>5, <2>1, <2>2, <2>4, <3>1, <4>1, <4>3, <4>4
    <3>4. QED
      BY <1>9, <3>2, <3>3
  <2>5. CASE s.kind = "predecessor"
    <3>1. n >= 1 /\ retained[1].time \in Int /\ t < retained[1].time /\ cand[1] <= t
      BY <1>1, <1>5, <1>10, <1>14, <2>1, <2>5
    <3>2. CASE n < HISTORY_LIMIT
      <4>1. frames[1].time = t
        BY <1>6, <1>8, <2>5, <3>2 DEF t
      <4>2. retained[1].time = cand[1] + 1
        BY <1>1, <1>5, <2>2, <2>5, <3>2, LimitAssumption
      <4>3. t = cand[1]
        BY <1>2, <2>1, <3>1, <4>2
      <4>4. candidates[1] = cand[1] - 1
        BY <1>16, <1>22, <2>1, <2>5, <4>3
      <4>5. QED
        BY <2>1, <4>1, <4>3, <4>4
    <3>3. CASE n = HISTORY_LIMIT
      <4>1. frames[1] = retained[1] /\ Len(frames) = HISTORY_LIMIT
        BY <1>1, <1>6, <1>8, <2>5, <3>1, <3>3
      <4>2. QED
        BY <1>5, <2>1, <2>2, <2>5, <3>1, <4>1
    <3>4. QED
      BY <1>9, <3>2, <3>3
  <2>6. QED
    BY <1>2, <2>3, <2>4, <2>5 DEF Kind
<1>26. QED
  BY <1>21, <1>23, <1>24, <1>25 DEF Consistent

(* The rest of the steps move, drop or restore what is consistent already.  *)
LEMMA SeriesMoves ==
  ASSUME SeriesInv, NoMoreOfMine, exact_pyramid' \subseteq exact_pyramid,
         generation' = generation,
         \/ <<retained', backfill_candidates'>> = <<retained, backfill_candidates>>
         \/ \E r \in reversible_commit :
              <<retained', backfill_candidates'>> = <<r.retained, r.backfill_candidates>>
         \/ Consistent(retained', backfill_candidates'),
         \A r \in reversible_commit' :
            <<r.retained, r.backfill_candidates>> = <<retained, backfill_candidates>>
              \/ r \in reversible_commit,
         staged' \subseteq staged,
         staged' # {} => UNCHANGED <<retained, backfill_candidates>>
  PROVE  SeriesInv'
<1>1. ASSUME NEW frames, NEW candidates, Consistent(frames, candidates)
      PROVE  /\ \A e \in exact_pyramid' :
                  /\ frames # <<>> => e.time <= frames[Len(frames)].time
                  /\ \A i \in 1 .. Len(candidates) : candidates[i] < e.time
             /\ \A c \in Command : \A work \in running'[c] : Mine(work)' =>
                  /\ frames # <<>>
                  /\ work.kind = "predecessor" /\ candidates # <<>> =>
                       \A t \in work.seen : candidates[1] <= t
  BY <1>1 DEF Consistent, ExactBetween, WorkBetween, NoMoreOfMine
<1>2. Consistent(retained', backfill_candidates')
  BY DEF SeriesInv
<1>3. Consistent(retained, backfill_candidates)'
  <2>1. Consecutive(backfill_candidates)' /\ Adjoins(retained, backfill_candidates)'
    BY <1>2 DEF Consistent, Consecutive, Adjoins
  <2>2. ExactBetween(retained, backfill_candidates)'
    BY <1>1, <1>2 DEF ExactBetween
  <2>3. WorkBetween(retained, backfill_candidates)'
    BY <1>1, <1>2 DEF WorkBetween
  <2>4. QED
    BY <2>1, <2>2, <2>3 DEF Consistent
<1>4. ASSUME NEW r \in reversible_commit'
      PROVE  Consistent(r.retained, r.backfill_candidates)'
  <2>1. Consistent(r.retained, r.backfill_candidates)
    BY DEF SeriesInv
  <2>2. QED
    BY <1>1, <2>1 DEF Consistent, Consecutive, Adjoins, ExactBetween, WorkBetween
<1>5. StagedFits'
  <2> SUFFICES ASSUME NEW s \in staged'
               PROVE  /\ s.kind = "current" => \A e \in exact_pyramid' : e.time <= s.frame.time
                      /\ s.kind = "current" /\ backfill_candidates' # <<>> =>
                           s.frame.time = backfill_candidates'[1] + 1
                      /\ s.kind # "current" => retained' # <<>>
                      /\ s.kind = "predecessor" /\ backfill_candidates' # <<>> =>
                           backfill_candidates'[1] <= s.frame.time
    BY DEF StagedFits
  <2>1. s \in staged /\ UNCHANGED <<retained, backfill_candidates>>
    OBVIOUS
  <2>2. QED
    BY <2>1 DEF SeriesInv, StagedFits
<1>6. WorkMeetsNoExact'
  BY DEF SeriesInv, WorkMeetsNoExact, NoMoreOfMine
<1>7. (\A e \in exact_pyramid : e.generation = generation)'
  BY DEF SeriesInv
<1>8. QED
  BY <1>3, <1>4, <1>5, <1>6, <1>7 DEF SeriesInv

LEMMA SeriesStep ==
  ASSUME HistoryInv, TokensInv, WorkSound, SeriesInv, [Next]_vars
  PROVE  SeriesInv'
<1>1. TypeOK
  BY DEF HistoryInv
<1>2. ASSUME NEW c \in Command, prepare_predecessor(c) \/ prepare_newer(c)
      PROVE  SeriesInv'
  BY <1>2, SeriesPrepare
<1>3. ASSUME NEW c \in Command, stage_current(c)
      PROVE  SeriesInv'
  BY <1>3, SeriesRestart
<1>4. ASSUME NEW c \in Command, stage(c)
      PROVE  SeriesInv'
  BY <1>4, SeriesStage
<1>5. ASSUME NEW c \in Command, commit_staged(c)
      PROVE  SeriesInv'
  <2>1. PICK s \in staged :
           /\ InPlace(s)
           /\ reversible_commit = {}
           /\ reversible_commit' = {[observation |-> s.frame, retained |-> retained,
                                     backfill_candidates |-> backfill_candidates,
                                     detail |-> detail]}
           /\ retained' = evict(Joined(s))
           /\ backfill_candidates' = IF Consumed(s) THEN Tail(backfill_candidates)
                                                    ELSE backfill_candidates
    BY <1>5 DEF commit_staged
  <2>2. /\ staged' = {} /\ UNCHANGED <<generation, exact_pyramid>>
        /\ running' = [running EXCEPT ![c] = {}]
    BY <1>5 DEF commit_staged
  <2>3. NoMoreOfMine
    BY <1>1, <2>2, NoMoreWork DEF TypeOK
  <2>4. Consistent(retained', backfill_candidates')
    BY <2>1, CommitJoins
  <2>5. \A r \in reversible_commit' :
           <<r.retained, r.backfill_candidates>> = <<retained, backfill_candidates>>
    BY <2>1
  <2>6. QED
    BY <2>2, <2>3, <2>4, <2>5, SeriesMoves
<1>6. ASSUME NEW c \in Command, cache_presentation(c)
      PROVE  SeriesInv'
  <2>1. /\ UNCHANGED <<generation, retained, staged, backfill_candidates, reversible_commit>>
        /\ exact_pyramid' \subseteq exact_pyramid
        /\ running' = [running EXCEPT ![c] = {}]
    BY <1>6 DEF cache_presentation
  <2>2. NoMoreOfMine
    BY <1>1, <2>1, NoMoreWork DEF TypeOK
  <2>3. QED
    BY <2>1, <2>2, SeriesMoves
<1>7. ASSUME NEW f \in Frame, finalize_commit(f) \/ rollback_staged(f) \/ rollback_commit(f)
      PROVE  SeriesInv'
  <2>1. UNCHANGED <<generation, running>>
    BY <1>7 DEF finalize_commit, rollback_staged, rollback_commit
  <2>2. NoMoreOfMine
    BY <1>1, <2>1, NoMoreWork
  <2>3. CASE finalize_commit(f) \/ rollback_staged(f)
    <3>1. /\ UNCHANGED <<retained, backfill_candidates>>
          /\ exact_pyramid' \subseteq exact_pyramid
          /\ staged' \subseteq staged
          /\ reversible_commit' \subseteq reversible_commit
      BY <2>3 DEF finalize_commit, rollback_staged
    <3>2. QED
      BY <2>1, <2>2, <3>1, SeriesMoves
  <2>4. CASE rollback_commit(f)
    <3>1. /\ UNCHANGED exact_pyramid /\ staged' = {} /\ reversible_commit' = {}
          /\ \E r \in reversible_commit :
               <<retained', backfill_candidates'>> = <<r.retained, r.backfill_candidates>>
      BY <2>4 DEF rollback_commit
    <3>2. QED
      BY <2>1, <2>2, <3>1, SeriesMoves
  <2>5. QED
    BY <1>7, <2>3, <2>4
<1>8. ASSUME StoreUntouched,
             \/ \A d \in Command : running'[d] \subseteq running[d]
             \/ \E c \in Command :
                  \/ prepare_current(c) \/ acquire_overview(c)
                  \/ \E f \in Frame : commit_national_history_frame(c, f)
                  \/ \E f \in Frame : prepare_presentation(c, f)
      PROVE  SeriesInv'
  BY <1>1, <1>8, NoMoreWork, SeriesUntouched DEF StoreUntouched
<1>9. QED
  BY <1>1, <1>2, <1>3, <1>4, <1>5, <1>6, <1>7, <1>8, StoreSteps, WorkSteps

-----------------------------------------------------------------------------
(* Memory.  The three sets of observations that the account is made of.     *)

StoredFrames ==
  ToSet(retained) \cup UNION {ToSet(r.retained) : r \in reversible_commit}

StagedFrames == {s.frame : s \in staged}

PresentedFrames == detail \cup UNION {r.detail : r \in reversible_commit}

LEMMA FramesAreFinite ==
  ASSUME NEW S \in SUBSET Frame
  PROVE  IsFiniteSet(S) /\ Cardinality(S) \in Nat
<1> DEFINE P == Generation \X Time
           f == [p \in P |-> [generation |-> p[1], time |-> p[2]]]
<1>1. IsFiniteSet(Generation) /\ IsFiniteSet(Time)
  BY FS_Interval, BoundAssumption DEF Generation, Time
<1>2. IsFiniteSet(P)
  BY <1>1, FS_Product
<1>3. f \in Surjection(P, Frame)
  <2>1. f \in [P -> Frame]
    BY DEF Frame
  <2>2. \A y \in Frame : \E p \in P : f[p] = y
    <3> SUFFICES ASSUME NEW y \in Frame PROVE \E p \in P : f[p] = y
      OBVIOUS
    <3>1. <<y.generation, y.time>> \in P
      BY DEF Frame
    <3>2. f[<<y.generation, y.time>>] = y
      BY <3>1 DEF Frame
    <3>3. QED
      BY <3>1, <3>2
  <2>3. QED
    BY <2>1, <2>2 DEF Surjection
<1>4. IsFiniteSet(Frame)
  BY <1>2, <1>3, FS_Surjection
<1>5. QED
  BY <1>4, FS_Subset, FS_CardinalityType

LEMMA HeldGrows ==
  ASSUME NEW B \in SUBSET Frame, NEW Y, NEW A \in SUBSET B, NEW X \in SUBSET Y
  PROVE  /\ Held(A, X) \in Nat /\ Held(B, Y) \in Nat
         /\ Held(A, X) <= Held(B, Y)
<1>1. /\ IsFiniteSet(B) /\ IsFiniteSet(B \cap Y)
      /\ Cardinality(A) \in Nat /\ Cardinality(B) \in Nat
      /\ Cardinality(A \cap X) \in Nat /\ Cardinality(B \cap Y) \in Nat
  <2>1. A \in SUBSET Frame /\ A \cap X \in SUBSET Frame /\ B \cap Y \in SUBSET Frame
    OBVIOUS
  <2>2. QED
    BY <2>1, FramesAreFinite
<1>2. Cardinality(A) <= Cardinality(B)
  BY <1>1, FS_Subset
<1>3. Cardinality(A \cap X) <= Cardinality(B \cap Y)
  <2>1. A \cap X \in SUBSET (B \cap Y)
    OBVIOUS
  <2>2. QED
    BY <1>1, <2>1, FS_Subset
<1>4. QED
  BY <1>1, <1>2, <1>3 DEF Held

LEMMA HeldTogether ==
  ASSUME NEW A \in SUBSET Frame, NEW B \in SUBSET Frame, NEW X
  PROVE  Held(A \cup B, X) <= Held(A, X) + Held(B, X)
<1>1. \A S, T \in SUBSET Frame : Cardinality(S \cup T) <= Cardinality(S) + Cardinality(T)
  <2> SUFFICES ASSUME NEW S \in SUBSET Frame, NEW T \in SUBSET Frame
               PROVE  Cardinality(S \cup T) <= Cardinality(S) + Cardinality(T)
    OBVIOUS
  <2>1. S \cap T \in SUBSET Frame
    OBVIOUS
  <2>2. /\ IsFiniteSet(S) /\ IsFiniteSet(T)
        /\ Cardinality(S) \in Nat /\ Cardinality(T) \in Nat
        /\ Cardinality(S \cap T) \in Nat
    BY <2>1, FramesAreFinite
  <2>3. Cardinality(S \cup T) = Cardinality(S) + Cardinality(T) - Cardinality(S \cap T)
    BY <2>2, FS_Union
  <2>4. QED
    BY <2>2, <2>3
<1>2. (A \cup B) \cap X = (A \cap X) \cup (B \cap X)
  OBVIOUS
<1>3. /\ Cardinality(A \cup B) <= Cardinality(A) + Cardinality(B)
      /\ Cardinality((A \cup B) \cap X) <= Cardinality(A \cap X) + Cardinality(B \cap X)
  <2>1. A \cap X \in SUBSET Frame /\ B \cap X \in SUBSET Frame
    OBVIOUS
  <2>2. QED
    BY <1>1, <1>2, <2>1
<1>4. /\ Cardinality(A \cup B) \in Nat /\ Cardinality((A \cup B) \cap X) \in Nat
      /\ Cardinality(A) \in Nat /\ Cardinality(B) \in Nat
      /\ Cardinality(A \cap X) \in Nat /\ Cardinality(B \cap X) \in Nat
  <2>1. A \cup B \in SUBSET Frame /\ (A \cup B) \cap X \in SUBSET Frame
          /\ A \cap X \in SUBSET Frame /\ B \cap X \in SUBSET Frame
    OBVIOUS
  <2>2. QED
    BY <2>1, FramesAreFinite
<1>5. QED
  BY <1>3, <1>4 DEF Held

LEMMA AccountedFrames ==
  ASSUME TypeOK
  PROVE  /\ StoredFrames \in SUBSET Frame
         /\ StagedFrames \in SUBSET Frame
         /\ PresentedFrames \in SUBSET Frame
         /\ total_bytes = Held(StoredFrames, exact_pyramid)
                            + Held(StagedFrames, exact_pyramid)
                            + Cardinality(PresentedFrames)
<1>1. \A r \in reversible_commit : r.retained \in Seq(Frame) /\ r.detail \in SUBSET Frame
  BY DEF TypeOK, ReversibleCommit
<1>2. \A frames \in Seq(Frame) : ToSet(frames) \subseteq Frame
  BY DEF ToSet
<1>3. StoredFrames \in SUBSET Frame
  <2>1. retained \in Seq(Frame)
    BY DEF TypeOK
  <2>2. QED
    BY <1>1, <1>2, <2>1 DEF StoredFrames
<1>4. StagedFrames \in SUBSET Frame
  BY DEF TypeOK, Staged, StagedFrames
<1>5. PresentedFrames \in SUBSET Frame
  BY <1>1 DEF TypeOK, PresentedFrames
<1>6. total_bytes = Held(StoredFrames, exact_pyramid)
                      + Held(StagedFrames, exact_pyramid)
                      + Cardinality(PresentedFrames)
  BY DEF total_bytes, BytesWith, StoredFrames, StagedFrames, PresentedFrames
<1>7. QED
  BY <1>3, <1>4, <1>5, <1>6

LEMMA BytesShrink ==
  ASSUME TypeOK, TypeOK',
         StoredFrames' \subseteq StoredFrames, StagedFrames' \subseteq StagedFrames,
         PresentedFrames' \subseteq PresentedFrames, exact_pyramid' \subseteq exact_pyramid
  PROVE  total_bytes' <= total_bytes
<1>1. /\ StoredFrames \in SUBSET Frame /\ StagedFrames \in SUBSET Frame
      /\ PresentedFrames \in SUBSET Frame
      /\ total_bytes = Held(StoredFrames, exact_pyramid)
                         + Held(StagedFrames, exact_pyramid)
                         + Cardinality(PresentedFrames)
  BY AccountedFrames
<1>2. (total_bytes = Held(StoredFrames, exact_pyramid)
                       + Held(StagedFrames, exact_pyramid)
                       + Cardinality(PresentedFrames))'
  BY AccountedFrames, PTL
<1>3. /\ Held(StoredFrames', exact_pyramid') \in Nat
      /\ Held(StoredFrames, exact_pyramid) \in Nat
      /\ Held(StoredFrames', exact_pyramid') <= Held(StoredFrames, exact_pyramid)
  BY <1>1, HeldGrows
<1>4. /\ Held(StagedFrames', exact_pyramid') \in Nat
      /\ Held(StagedFrames, exact_pyramid) \in Nat
      /\ Held(StagedFrames', exact_pyramid') <= Held(StagedFrames, exact_pyramid)
  BY <1>1, HeldGrows
<1>5. /\ Cardinality(PresentedFrames') \in Nat /\ Cardinality(PresentedFrames) \in Nat
      /\ Cardinality(PresentedFrames') <= Cardinality(PresentedFrames)
  BY <1>1, FramesAreFinite, FS_Subset
<1>6. total_bytes' = Held(StoredFrames', exact_pyramid')
                       + Held(StagedFrames', exact_pyramid')
                       + Cardinality(PresentedFrames')
  BY <1>2 DEF Held
<1>7. QED
  BY <1>1, <1>3, <1>4, <1>5, <1>6

LEMMA BytesNext ==
  ASSUME TypeOK'
  PROVE  /\ StoredFrames' \in SUBSET Frame
         /\ StagedFrames' \in SUBSET Frame
         /\ PresentedFrames' \in SUBSET Frame
         /\ total_bytes' = Held(StoredFrames', exact_pyramid')
                             + Held(StagedFrames', exact_pyramid')
                             + Cardinality(PresentedFrames')
<1>1. (StoredFrames \in SUBSET Frame /\ StagedFrames \in SUBSET Frame
         /\ PresentedFrames \in SUBSET Frame)'
  BY AccountedFrames, PTL
<1>2. (total_bytes = Held(StoredFrames, exact_pyramid)
                       + Held(StagedFrames, exact_pyramid)
                       + Cardinality(PresentedFrames))'
  BY AccountedFrames, PTL
<1>3. QED
  BY <1>1, <1>2 DEF Held

(* The sum of three parts, and of parts that are no larger.                 *)
LEMMA BytesParts ==
  ASSUME TypeOK
  PROVE  /\ Held(StoredFrames, exact_pyramid) \in Nat
         /\ Held(StagedFrames, exact_pyramid) \in Nat
         /\ Cardinality(PresentedFrames) \in Nat
<1>1. /\ StoredFrames \in SUBSET Frame /\ StagedFrames \in SUBSET Frame
      /\ PresentedFrames \in SUBSET Frame
  BY AccountedFrames
<1>2. \A S \in SUBSET Frame : Held(S, exact_pyramid) \in Nat
  BY HeldGrows
<1>3. QED
  BY <1>1, <1>2, FramesAreFinite

LEMMA HeldOne ==
  ASSUME NEW f, NEW X
  PROVE  Held({f}, X) = IF f \in X THEN 2 ELSE 1
<1>1. Cardinality({f}) = 1
  BY FS_Singleton
<1>2. CASE f \in X
  <2>1. {f} \cap X = {f}
    BY <1>2
  <2>2. QED
    BY <1>1, <1>2, <2>1 DEF Held
<1>3. CASE f \notin X
  <2>1. {f} \cap X = {}
    BY <1>3
  <2>2. QED
    BY <1>1, <1>3, <2>1, FS_EmptySet DEF Held
<1>4. QED
  BY <1>2, <1>3

LEMMA HeldNone == \A X : Held({}, X) = 0
<1>1. \A X : {} \cap X = {}
  OBVIOUS
<1>2. QED
  BY <1>1, FS_EmptySet DEF Held

(* What is staged has no exact pyramid of its own yet.                      *)
LEMMA StageMeetsNoExact ==
  ASSUME TypeOK, SeriesInv, WorkSound, NEW c \in Command, NEW work \in running[c],
         work.kind \in {"predecessor", "newer"}, NEW f \in work.frame,
         generation = f.generation
  PROVE  f \notin exact_pyramid
<1>1. /\ f.generation = work.token.generation
      /\ work.kind = "predecessor" => f.time \in work.seen
      /\ work.kind = "newer" => \A t \in work.seen : f.time > t
  BY DEF WorkSound, Sound, Kind
<1>2. Mine(work)
  BY <1>1 DEF Mine
<1>3. /\ work.seen # {} /\ \A t \in work.seen : t \in Int
      /\ \A e \in exact_pyramid : e.time \in Int
      /\ \A e \in exact_pyramid : \A t \in work.seen :
           IF work.kind = "newer" THEN e.time <= t ELSE t < e.time
  BY <1>2, TimesAreIntegers DEF SeriesInv, WorkMeetsNoExact
<1>4. SUFFICES ASSUME f \in exact_pyramid PROVE FALSE
  OBVIOUS
<1>5. CASE work.kind = "newer"
  <2>1. PICK t \in work.seen : TRUE
    BY <1>3
  <2>2. f.time > t /\ f.time <= t
    BY <1>1, <1>3, <1>4, <1>5
  <2>3. QED
    BY <1>3, <1>4, <2>2
<1>6. CASE work.kind = "predecessor"
  BY <1>1, <1>3, <1>4, <1>6
<1>7. QED
  BY <1>5, <1>6

LEMMA MemoryStep ==
  ASSUME HistoryInv, SeriesInv, WorkSound, total_bytes <= BACKEND_TARGET, [Next]_vars
  PROVE  total_bytes' <= BACKEND_TARGET
<1>1. TypeOK /\ TypeOK'
  BY TypeStep DEF HistoryInv
<1>2. BACKEND_TARGET \in Nat /\ BACKEND_TARGET >= 2
  BY TargetAssumption
<1>3. /\ StoredFrames \in SUBSET Frame /\ StagedFrames \in SUBSET Frame
      /\ PresentedFrames \in SUBSET Frame
      /\ total_bytes = Held(StoredFrames, exact_pyramid)
                         + Held(StagedFrames, exact_pyramid)
                         + Cardinality(PresentedFrames)
  BY <1>1, AccountedFrames
<1>4. /\ StoredFrames' \in SUBSET Frame /\ StagedFrames' \in SUBSET Frame
      /\ PresentedFrames' \in SUBSET Frame
      /\ total_bytes' = Held(StoredFrames', exact_pyramid')
                          + Held(StagedFrames', exact_pyramid')
                          + Cardinality(PresentedFrames')
  BY <1>1, BytesNext
<1>5. /\ Held(StoredFrames, exact_pyramid) \in Nat
      /\ Held(StagedFrames, exact_pyramid) \in Nat
      /\ Cardinality(PresentedFrames) \in Nat
  BY <1>1, BytesParts
<1>6. ASSUME NEW S \in SUBSET Frame, NEW X
      PROVE  Held(S, X) \in Nat
  BY HeldGrows
<1>7. ASSUME StoredFrames' \subseteq StoredFrames, StagedFrames' \subseteq StagedFrames,
             PresentedFrames' \subseteq PresentedFrames,
             exact_pyramid' \subseteq exact_pyramid
      PROVE  total_bytes' <= BACKEND_TARGET
  <2>1. total_bytes' <= total_bytes
    BY <1>1, <1>7, BytesShrink
  <2>2. total_bytes' \in Int /\ total_bytes \in Int
    BY <1>3, <1>4, <1>5, <1>6, FramesAreFinite
  <2>3. QED
    BY <1>2, <2>1, <2>2
<1>8. CASE StoreUntouched
  BY <1>7, <1>8 DEF StoreUntouched, StoredFrames, StagedFrames, PresentedFrames
<1>9. ASSUME NEW c \in Command, stage_current(c)
      PROVE  total_bytes' <= BACKEND_TARGET
  <2>1. PICK f : staged' = {[kind |-> "current", frame |-> f]} /\ exact_pyramid' = {f}
    BY <1>9 DEF stage_current
  <2>2. retained' = <<>> /\ detail' = {} /\ reversible_commit' = {}
    BY <1>9 DEF stage_current
  <2>3. StoredFrames' = {} /\ StagedFrames' = {f} /\ PresentedFrames' = {}
    BY <2>1, <2>2 DEF StoredFrames, StagedFrames, PresentedFrames, ToSet
  <2>4. Held({}, exact_pyramid') = 0 /\ Held({f}, exact_pyramid') = 2 /\ Cardinality({}) = 0
    BY <2>1, HeldNone, HeldOne, FS_EmptySet
  <2>5. QED
    BY <1>2, <1>4, <2>3, <2>4
<1>10. ASSUME NEW c \in Command, stage(c)
       PROVE  total_bytes' <= BACKEND_TARGET
  <2>1. PICK work \in running[c] : \E f \in work.frame :
           /\ work.kind \in {"predecessor", "newer"}
           /\ generation = f.generation
           /\ staged' = {[kind |-> work.kind, frame |-> f]}
    BY <1>10 DEF stage
  <2>2. PICK f \in work.frame :
           generation = f.generation /\ staged' = {[kind |-> work.kind, frame |-> f]}
    BY <2>1
  <2>3. f \notin exact_pyramid
    BY <1>1, <2>1, <2>2, StageMeetsNoExact
  <2>4. /\ UNCHANGED <<retained, detail, reversible_commit, exact_pyramid>>
        /\ staged = {} /\ total_bytes + 1 <= BACKEND_TARGET
    BY <1>10 DEF stage, ensure_no_stage
  <2>5. /\ StoredFrames' = StoredFrames /\ PresentedFrames' = PresentedFrames
        /\ StagedFrames = {} /\ StagedFrames' = {f}
    BY <2>2, <2>4 DEF StoredFrames, StagedFrames, PresentedFrames
  <2>6. Held({f}, exact_pyramid) = 1 /\ Held({}, exact_pyramid) = 0
    BY <2>3, HeldOne, HeldNone
  <2>7. total_bytes' = total_bytes + 1
    BY <1>3, <1>4, <1>5, <2>4, <2>5, <2>6
  <2>8. QED
    BY <2>4, <2>7
<1>11. ASSUME NEW c \in Command, commit_staged(c)
       PROVE  total_bytes' <= BACKEND_TARGET
  <2>1. PICK s \in staged :
           /\ reversible_commit = {}
           /\ reversible_commit' = {[observation |-> s.frame, retained |-> retained,
                                     backfill_candidates |-> backfill_candidates,
                                     detail |-> detail]}
           /\ retained' = evict(Joined(s))
    BY <1>11 DEF commit_staged
  <2>2. staged' = {} /\ UNCHANGED <<detail, exact_pyramid>>
    BY <1>11 DEF commit_staged
  <2>3. StoredFrames = ToSet(retained) /\ PresentedFrames = detail
    BY <2>1 DEF StoredFrames, PresentedFrames
  <2>4. /\ StoredFrames' = ToSet(evict(Joined(s))) \cup ToSet(retained)
        /\ StagedFrames' = {} /\ PresentedFrames' = detail
    BY <2>1, <2>2 DEF StoredFrames, StagedFrames, PresentedFrames, ToSet
  <2>5. ToSet(evict(Joined(s))) \subseteq ToSet(retained) \cup {s.frame}
    <3>1. /\ Joined(s) \in Seq(Frame) /\ Len(Joined(s)) = Len(retained) + 1
          /\ Len(retained) \in Nat
          /\ s.kind = "predecessor" =>
               /\ Joined(s)[1] = s.frame
               /\ \A i \in 1 .. Len(retained) : Joined(s)[i + 1] = retained[i]
          /\ s.kind # "predecessor" =>
               /\ Joined(s)[Len(retained) + 1] = s.frame
               /\ \A i \in 1 .. Len(retained) : Joined(s)[i] = retained[i]
      BY <1>1, JoinedProperties, RetainedFrames
    <3>2. \A j \in 1 .. Len(Joined(s)) : Joined(s)[j] \in ToSet(retained) \cup {s.frame}
      <4> SUFFICES ASSUME NEW j \in 1 .. Len(Joined(s))
                   PROVE  Joined(s)[j] \in ToSet(retained) \cup {s.frame}
        OBVIOUS
      <4>1. \A i \in 1 .. Len(retained) : retained[i] \in ToSet(retained)
        BY <1>1, RetainedFrames DEF ToSet
      <4>2. CASE s.kind = "predecessor"
        <5>1. j = 1 \/ (j - 1 \in 1 .. Len(retained) /\ (j - 1) + 1 = j)
          BY <3>1
        <5>2. QED
          BY <3>1, <4>1, <4>2, <5>1
      <4>3. CASE s.kind # "predecessor"
        <5>1. j = Len(retained) + 1 \/ j \in 1 .. Len(retained)
          BY <3>1
        <5>2. QED
          BY <3>1, <4>1, <4>3, <5>1
      <4>4. QED
        BY <4>2, <4>3
    <3>3. \A i \in 1 .. Len(evict(Joined(s))) :
             \E j \in 1 .. Len(Joined(s)) : evict(Joined(s))[i] = Joined(s)[j]
      <4>1. CASE Len(Joined(s)) <= HISTORY_LIMIT
        <5>1. evict(Joined(s)) = Joined(s)
          BY <3>1, <4>1, EvictProperties
        <5>2. QED
          BY <5>1
      <4>2. CASE Len(Joined(s)) > HISTORY_LIMIT
        <5>1. /\ Len(evict(Joined(s))) = Len(Joined(s)) - 1
              /\ \A i \in 1 .. Len(Joined(s)) - 1 : evict(Joined(s))[i] = Joined(s)[i + 1]
          BY <3>1, <4>2, EvictProperties
        <5>2. \A i \in 1 .. Len(Joined(s)) - 1 : i + 1 \in 1 .. Len(Joined(s))
          BY <3>1
        <5>3. QED
          BY <5>1, <5>2
      <4>3. QED
        BY <3>1, <4>1, <4>2, LimitAssumption
    <3>4. evict(Joined(s)) \in Seq(Frame)
      BY <3>1, EvictType
    <3>5. QED
      BY <3>2, <3>3, <3>4 DEF ToSet
  <2>6. s.frame \in StagedFrames
    BY DEF StagedFrames
  <2>7. StoredFrames' \subseteq StoredFrames \cup StagedFrames
    BY <2>3, <2>4, <2>5, <2>6
  <2>8. Held(StoredFrames', exact_pyramid) <= Held(StoredFrames \cup StagedFrames, exact_pyramid)
    BY <1>3, <2>7, HeldGrows
  <2>9. Held(StoredFrames \cup StagedFrames, exact_pyramid)
          <= Held(StoredFrames, exact_pyramid) + Held(StagedFrames, exact_pyramid)
    BY <1>3, HeldTogether
  <2>10. Held(StagedFrames', exact_pyramid') = 0
    BY <2>4, HeldNone
  <2>11. Held(StoredFrames \cup StagedFrames, exact_pyramid) \in Nat
           /\ Held(StoredFrames', exact_pyramid) \in Nat
    BY <1>3, <1>4, <1>6
  <2>12. total_bytes' = Held(StoredFrames', exact_pyramid) + Cardinality(PresentedFrames)
    BY <1>4, <1>5, <2>2, <2>3, <2>4, <2>10, <2>11
  <2>13. QED
    BY <1>2, <1>3, <1>5, <2>8, <2>9, <2>11, <2>12
<1>12. ASSUME NEW c \in Command, cache_presentation(c)
       PROVE  total_bytes' <= BACKEND_TARGET
  <2>1. PICK f : /\ exact_pyramid' = exact_pyramid \ {f}
                 /\ detail' = IF BytesWith(exact_pyramid \ {f}, {f}) <= BACKEND_TARGET
                                THEN {f} ELSE {}
    BY <1>12 DEF cache_presentation
  <2>2. UNCHANGED <<retained, staged, reversible_commit>>
    BY <1>12 DEF cache_presentation
  <2>3. CASE BytesWith(exact_pyramid \ {f}, {f}) <= BACKEND_TARGET
    <3>1. detail' = {f}
      BY <2>1, <2>3
    <3>2. total_bytes' = BytesWith(exact_pyramid \ {f}, {f})
      BY <2>1, <2>2, <3>1 DEF total_bytes, BytesWith, Held, ToSet
    <3>3. QED
      BY <2>3, <3>2
  <2>4. CASE ~(BytesWith(exact_pyramid \ {f}, {f}) <= BACKEND_TARGET)
    <3>1. detail' = {}
      BY <2>1, <2>4
    <3>2. StoredFrames' = StoredFrames /\ StagedFrames' = StagedFrames
            /\ PresentedFrames' \subseteq PresentedFrames
      BY <2>2, <3>1 DEF StoredFrames, StagedFrames, PresentedFrames, ToSet
    <3>3. QED
      BY <1>7, <2>1, <3>2
  <2>5. QED
    BY <2>3, <2>4
<1>13. ASSUME NEW f \in Frame, finalize_commit(f) \/ rollback_staged(f)
       PROVE  total_bytes' <= BACKEND_TARGET
  <2>1. /\ UNCHANGED <<retained, detail>>
        /\ staged' \subseteq staged /\ reversible_commit' \subseteq reversible_commit
        /\ exact_pyramid' \subseteq exact_pyramid
    BY <1>13 DEF finalize_commit, rollback_staged
  <2>2. StoredFrames' \subseteq StoredFrames /\ StagedFrames' \subseteq StagedFrames
          /\ PresentedFrames' \subseteq PresentedFrames
    BY <2>1 DEF StoredFrames, StagedFrames, PresentedFrames, ToSet
  <2>3. QED
    BY <1>7, <2>1, <2>2
<1>14. ASSUME NEW f \in Frame, rollback_commit(f)
       PROVE  total_bytes' <= BACKEND_TARGET
  <2>1. PICK r \in reversible_commit : retained' = r.retained /\ detail' = r.detail
    BY <1>14 DEF rollback_commit
  <2>2. UNCHANGED <<staged, exact_pyramid>> /\ reversible_commit' = {}
    BY <1>14 DEF rollback_commit
  <2>3. StoredFrames' \subseteq StoredFrames /\ StagedFrames' \subseteq StagedFrames
          /\ PresentedFrames' \subseteq PresentedFrames
    BY <2>1, <2>2 DEF StoredFrames, StagedFrames, PresentedFrames, ToSet
  <2>4. QED
    BY <1>7, <2>2, <2>3
<1>15. QED
  BY <1>8, <1>9, <1>10, <1>11, <1>12, <1>13, <1>14, StoreSteps

-----------------------------------------------------------------------------
(* Everything that holds while the first document is loaded.                *)
DocumentInv ==
  document = 1 => TokensInv /\ WorkSound /\ SeriesInv /\ total_bytes <= BACKEND_TARGET

LEMMA DocumentInit == Init => DocumentInv
<1> SUFFICES ASSUME Init PROVE DocumentInv
  OBVIOUS
<1>1. TokensInv /\ WorkSound
  BY DEF Init, TokensInv, WorkSound
<1>2. Consistent(<<>>, <<>>)
  BY DEF Init, Consistent, Consecutive, Adjoins, ExactBetween, WorkBetween
<1>3. SeriesInv
  BY <1>2 DEF Init, SeriesInv, StagedFits, WorkMeetsNoExact
<1>4. total_bytes <= BACKEND_TARGET
  <2>1. StoredFrames = {} /\ StagedFrames = {} /\ PresentedFrames = {}
    BY DEF Init, StoredFrames, StagedFrames, PresentedFrames, ToSet
  <2>2. total_bytes = Held({}, exact_pyramid) + Held({}, exact_pyramid) + Cardinality({})
    BY <2>1, TypeInit, AccountedFrames
  <2>3. QED
    BY <2>2, HeldNone, FS_EmptySet, TargetAssumption
<1>5. QED
  BY <1>1, <1>3, <1>4 DEF DocumentInv

LEMMA DocumentStep ==
  ASSUME HistoryInv, DocumentInv, [Next]_vars
  PROVE  DocumentInv'
<1> SUFFICES ASSUME document' = 1
             PROVE  (TokensInv /\ WorkSound /\ SeriesInv /\ total_bytes <= BACKEND_TARGET)'
  BY DEF DocumentInv
<1>1. TypeOK
  BY DEF HistoryInv
<1>2. document = 1
  <2>1. document \in Nat /\ document >= 1
    BY <1>1, BoundAssumption DEF TypeOK
  <2>2. document_started => document' = document + 1
    BY DEF document_started
  <2>3. ~document_started => document' = document
    BY DEF Next, CommandStep, publish, begin, cancel, vars, broker, prepare_current,
           prepare_predecessor, prepare_newer, acquire_overview, stage_current, stage,
           commit_national_history_frame, commit_staged, prepare_presentation,
           cache_presentation, command_fails, finalize_commit, rollback_staged,
           rollback_commit, Start
  <2>4. QED
    BY <2>1, <2>2, <2>3
<1>3. TokensInv /\ WorkSound /\ SeriesInv /\ total_bytes <= BACKEND_TARGET
  BY <1>2 DEF DocumentInv
<1>4. TokensInv'
  BY <1>1, <1>2, <1>3, TokensStep
<1>5. WorkSound'
  BY <1>1, <1>3, WorkSoundStep
<1>6. SeriesInv'
  BY <1>3, SeriesStep
<1>7. total_bytes' <= BACKEND_TARGET
  BY <1>3, MemoryStep
<1>8. QED
  BY <1>4, <1>5, <1>6, <1>7

LEMMA DocumentInvariant == Spec => [](HistoryInv /\ DocumentInv)
<1>1. HistoryInv /\ DocumentInv /\ [Next]_vars => (HistoryInv /\ DocumentInv)'
  BY HistoryStep, DocumentStep
<1>2. QED
  BY <1>1, HistoryInit, DocumentInit, PTL DEF Spec

(* The store stays within its memory target, also while a rollback journal  *)
(* holds what a commit replaced and detail is cached, as long as the page   *)
(* is not replaced (HistoryStore::stage, commit_staged, rollback_commit and *)
(* cache_presentation in src-tauri/src/national_history.rs).                *)
THEOREM StaysWithinMemory == Spec => []TotalWithinTarget
<1>1. DocumentInv => TotalWithinTarget
  BY DEF DocumentInv, TotalWithinTarget
<1>2. QED
  BY <1>1, DocumentInvariant, PTL

LEMMA NoHole ==
  ASSUME HistoryInv, SeriesInv
  PROVE  BackfillLeavesNoHole
<1> SUFFICES ASSUME backfill_candidates # <<>>, NEW i \in 1 .. Len(retained)
             PROVE  /\ Head(backfill_candidates) < retained[i].time
                    /\ \A t \in Head(backfill_candidates) + 1 .. Head(retained).time - 1 :
                         Len(retained) = HISTORY_LIMIT
  BY DEF BackfillLeavesNoHole
<1>1. /\ TypeOK /\ retained \in Seq(Frame) /\ Len(retained) \in Nat
      /\ \A j \in 1 .. Len(retained) : retained[j].time \in Int
      /\ InOrder(retained)
  BY RetainedFrames DEF HistoryInv, Kept
<1>2. /\ backfill_candidates \in Seq(Time)
      /\ Head(backfill_candidates) = backfill_candidates[1]
      /\ backfill_candidates[1] \in Int
  BY <1>1, CandidateTimes DEF TypeOK
<1>3. retained # <<>> /\ Head(retained) = retained[1] /\ 1 \in 1 .. Len(retained)
  BY <1>1, Ends
<1>4. /\ backfill_candidates[1] < retained[1].time
      /\ Len(retained) = HISTORY_LIMIT \/ retained[1].time = backfill_candidates[1] + 1
  BY <1>3 DEF SeriesInv, Consistent, Adjoins
<1>5. i = 1 \/ retained[1].time < retained[i].time
  BY <1>1, <1>3 DEF InOrder
<1>6. QED
  BY <1>1, <1>2, <1>3, <1>4, <1>5

(* Backfill never steps over an observation while the first document is     *)
(* loaded, however preparations, commits and rollbacks interleave.          *)
THEOREM LeavesNoHole == Spec => [](document = 1 => BackfillLeavesNoHole)
<1>1. HistoryInv /\ DocumentInv => (document = 1 => BackfillLeavesNoHole)
  BY NoHole DEF DocumentInv
<1>2. QED
  BY <1>1, DocumentInvariant, PTL

-----------------------------------------------------------------------------
(* The transaction.                                                         *)

TransactionTypeOK ==
  /\ mode \in {"closed", "current", "backfill", "polling", "stopped"}
  /\ kind \in Kind
  /\ candidate \in SUBSET Frame
  /\ nationalObservations \in Seq(Time)
  /\ timeline \in Seq(Time)
  /\ awaitingExternalCommit \in SUBSET Seq(Time)

-----------------------------------------------------------------------------
(* Every step of the transaction is a step of the store and its commands.   *)

LEMMA ChainIsCommand == chain \in Command
BY ChainAssumption

LEMMA StepOfStore ==
  ASSUME TypeOK, TransactionTypeOK, [TransactionNext]_txVars
  PROVE  /\ [Next]_vars
         /\ document' = document
<1>1. ASSUME CommandStep(chain)
      PROVE  Next
  BY <1>1, ChainIsCommand DEF Next
<1>2. \A f \in candidate : f \in Frame
  BY DEF TransactionTypeOK
<1>3. ASSUME beginExclusiveLane
      PROVE  Next /\ document' = document
  <2>1. begin(1)
    BY <1>3 DEF beginExclusiveLane
  <2>2. 1 \in Generation
    BY <2>1, BoundAssumption DEF begin, TypeOK, Generation
  <2>3. QED
    BY <2>1, <2>2 DEF Next, begin
<1>4. ASSUME NEW k \in Kind, prepare(k) \/ retryableStagedPreparation(k) \/ prepareRefused(k)
      PROVE  [Next]_vars /\ document' = document
  <2>1. UNCHANGED vars \/ prepare_current(chain) \/ prepare_predecessor(chain)
          \/ prepare_newer(chain)
    BY <1>4 DEF prepare, retryableStagedPreparation, prepareRefused
  <2>2. document' = document
    BY <2>1 DEF prepare_current, prepare_predecessor, prepare_newer, Start, vars, broker
  <2>3. QED
    BY <1>1, <2>1, <2>2 DEF CommandStep
<1>5. ASSUME prepareAcquires \/ prepareAnswered \/ prepareLost \/ prepareFails
      PROVE  [Next]_vars /\ document' = document
  <2>1. acquire_overview(chain) \/ stage_current(chain) \/ stage(chain) \/ command_fails(chain)
    BY <1>5 DEF prepareAcquires, prepareAnswered, prepareLost, prepareFails
  <2>2. document' = document
    BY <2>1 DEF acquire_overview, stage_current, stage, command_fails, broker
  <2>3. QED
    BY <1>1, <2>1, <2>2 DEF CommandStep
<1>6. ASSUME commit \/ commitAnswered \/ commitFails
      PROVE  [Next]_vars /\ document' = document
  <2>1. \/ \E f \in Frame : commit_national_history_frame(chain, f)
        \/ commit_staged(chain) \/ command_fails(chain)
    BY <1>2, <1>6 DEF commit, commitAnswered, commitFails
  <2>2. document' = document
    BY <2>1 DEF commit_national_history_frame, Start, commit_staged, command_fails, broker
  <2>3. QED
    BY <1>1, <2>1, <2>2 DEF CommandStep
<1>7. ASSUME finalizeNationalHistory \/ rollbackNationalHistory
      PROVE  [Next]_vars /\ document' = document
  <2>1. \E f \in Frame : finalize_commit(f) \/ rollback_staged(f) \/ rollback_commit(f)
    BY <1>2, <1>7 DEF finalizeNationalHistory, rollbackNationalHistory
  <2>2. document' = document
    BY <2>1 DEF finalize_commit, rollback_staged, rollback_commit, broker
  <2>3. QED
    BY <2>1, <2>2 DEF Next
<1>8. ASSUME cancelLane \/ observationPublished
      PROVE  [Next]_vars /\ document' = document
  <2>1. cancel \/ publish
    BY <1>8 DEF cancelLane, observationPublished
  <2>2. QED
    BY <2>1 DEF Next, cancel, publish, broker
<1>9. ASSUME \/ nextStep \/ backfillCompletes \/ chainStops
             \/ commitStagedResidency \/ commitStagedResidencyThrows
             \/ uploadFails \/ commitRefused
             \/ finalizeHistoryMutation \/ finalizeRefused \/ recoverFinalized
             \/ publishNationalHistory \/ publishSuperseded
             \/ waitForAuthoritativeReceiptFails
             \/ rollbackHistoryMutation \/ recoverRolledBack \/ settlingCancelled
             \/ beginRecovery \/ supersede \/ teardown \/ UNCHANGED txVars
      PROVE  UNCHANGED vars
  BY <1>9 DEF nextStep, backfillCompletes, chainStops, commitStagedResidency,
              commitStagedResidencyThrows, uploadFails, commitRefused,
              finalizeHistoryMutation, finalizeRefused,
              recoverFinalized, publishNationalHistory, publishSuperseded,
              waitForAuthoritativeReceiptFails, rollbackHistoryMutation,
              recoverRolledBack, settlingCancelled, beginRecovery, supersede,
              teardown, txVars
<1>10. UNCHANGED vars => document' = document
  BY DEF vars, broker
<1>11. QED
  BY <1>3, <1>4, <1>5, <1>6, <1>7, <1>8, <1>9, <1>10
     DEF TransactionNext, ChainNext, EnvironmentNext

-----------------------------------------------------------------------------
(* Types of the frontend's side.                                            *)

Mode == {"closed", "current", "backfill", "polling", "stopped"}

LEMMA ProposedProperties ==
  ASSUME NEW times \in Seq(Time), Len(times) <= HISTORY_LIMIT + 1
  PROVE  /\ newestOf(times) \in Seq(Time)
         /\ newestOf(times) = Ledger!Trim(times)
         /\ Len(newestOf(times)) <= HISTORY_LIMIT
<1>1. Len(times) \in Nat
  OBVIOUS
<1>2. CASE Len(times) > HISTORY_LIMIT
  <2>1. Len(times) = HISTORY_LIMIT + 1 /\ times # <<>>
    BY <1>1, <1>2, LimitAssumption
  <2>2. newestOf(times) = SubSeq(times, 2, Len(times))
    <3>1. Len(times) - HISTORY_LIMIT + 1 = 2
      BY <1>1, <2>1, LimitAssumption
    <3>2. QED
      BY <1>2, <3>1 DEF newestOf
  <2>3. Tail(times) = SubSeq(times, 2, Len(times))
    BY <2>1, TailIsSubSeq
  <2>4. Tail(times) \in Seq(Time) /\ Len(Tail(times)) = Len(times) - 1
    BY <2>1, HeadTailProperties
  <2>5. Ledger!Trim(times) = Tail(times)
    BY <1>2 DEF Ledger!Trim
  <2>6. QED
    BY <1>1, <2>1, <2>2, <2>3, <2>4, <2>5, LimitAssumption
<1>3. CASE ~(Len(times) > HISTORY_LIMIT)
  BY <1>1, <1>3, LimitAssumption DEF newestOf, Ledger!Trim
<1>4. QED
  BY <1>2, <1>3

LEMMA NewestType ==
  ASSUME NEW times \in Seq(Time)
  PROVE  newestOf(times) \in Seq(Time)
<1>1. Len(times) \in Nat /\ HISTORY_LIMIT \in Nat \ {0}
  BY LimitAssumption
<1>2. CASE Len(times) > HISTORY_LIMIT
  <2> DEFINE m == Len(times) - HISTORY_LIMIT + 1
  <2>1. m \in Int /\ Len(times) \in Int /\ \A i \in m .. Len(times) : times[i] \in Time
    BY <1>1, <1>2
  <2> HIDE DEF m
  <2>2. SubSeq(times, m, Len(times)) \in Seq(Time)
    BY <2>1, SubSeqProperties
  <2>3. QED
    BY <1>2, <2>2 DEF newestOf, m
<1>3. CASE ~(Len(times) > HISTORY_LIMIT)
  BY <1>3 DEF newestOf
<1>4. QED
  BY <1>2, <1>3

LEMMA ProposedType ==
  ASSUME NEW t \in Time, nationalObservations \in Seq(Time)
  PROVE  proposed(t) \in Seq(Time)
<1>1. <<t>> \in Seq(Time)
  OBVIOUS
<1>2. /\ <<t>> \o nationalObservations \in Seq(Time)
      /\ Append(nationalObservations, t) \in Seq(Time)
  BY <1>1, ConcatProperties, AppendProperties
<1>3. QED
  BY <1>2, NewestType DEF proposed

LEMMA EndingType ==
  ASSUME TransactionTypeOK,
         \/ \E k \in Kind : Failed(k)
         \/ \E times \in Seq(Time) : Succeeded(times)
         \/ Superseded
  PROVE  /\ mode' \in Mode /\ kind' \in Kind
         /\ candidate' = {} /\ pc' = "idle"
         /\ nationalObservations' \in Seq(Time)
<1>1. ASSUME NEW k \in Kind, Failed(k)
      PROVE  /\ mode' \in Mode /\ kind' \in Kind
             /\ candidate' = {} /\ pc' = "idle"
             /\ nationalObservations' \in Seq(Time)
  BY <1>1 DEF Failed, AfterCheck, TransactionTypeOK, Mode, loops
<1>2. ASSUME NEW times \in Seq(Time), Succeeded(times)
      PROVE  /\ mode' \in Mode /\ kind' \in Kind
             /\ candidate' = {} /\ pc' = "idle"
             /\ nationalObservations' \in Seq(Time)
  BY <1>2 DEF Succeeded, AfterCheck, TransactionTypeOK, Mode, loops
<1>3. CASE Superseded
  BY <1>3 DEF Superseded, TransactionTypeOK, Mode
<1>4. QED
  BY <1>1, <1>2, <1>3

LEMMA TransactionTypeStep ==
  ASSUME TypeOK, TypeOK', TransactionTypeOK, [TransactionNext]_txVars
  PROVE  TransactionTypeOK'
<1>1. ASSUME \/ \E k \in Kind : Failed(k)
             \/ \E times \in Seq(Time) : Succeeded(times)
             \/ Superseded,
             UNCHANGED layer
      PROVE  TransactionTypeOK'
  BY <1>1, EndingType DEF TransactionTypeOK, layer, Mode
<1>2. kind \in Kind /\ candidate \subseteq Frame
  BY DEF TransactionTypeOK
<1>3. ASSUME NEW k \in Kind, prepareRefused(k)
      PROVE  TransactionTypeOK'
  BY <1>1, <1>3 DEF prepareRefused
<1>4. CASE prepareLost \/ prepareFails \/ waitForAuthoritativeReceiptFails
             \/ recoverRolledBack \/ publishSuperseded \/ settlingCancelled
  <2>1. Failed(kind) \/ Superseded
    BY <1>4 DEF prepareLost, prepareFails, waitForAuthoritativeReceiptFails,
                recoverRolledBack, publishSuperseded, settlingCancelled
  <2>2. UNCHANGED layer
    BY <1>4 DEF prepareLost, prepareFails, waitForAuthoritativeReceiptFails,
                recoverRolledBack, publishSuperseded, settlingCancelled
  <2>3. QED
    BY <1>1, <1>2, <2>1, <2>2
<1>5. CASE publishNationalHistory
  <2>1. Times(retained) \in Seq(Time)
    BY TimesProperties DEF TypeOK
  <2>2. QED
    BY <1>1, <1>5, <2>1 DEF publishNationalHistory
<1>6. CASE rollbackNationalHistory
  <2>1. CASE Failed(kind)
    BY <1>1, <1>2, <1>6, <2>1 DEF rollbackNationalHistory
  <2>2. CASE UNCHANGED <<loops, mutation, nationalObservations>>
    BY <1>6, <2>2
       DEF rollbackNationalHistory, TransactionTypeOK, loops, mutation, layer
  <2>3. QED
    BY <1>6, <2>1, <2>2 DEF rollbackNationalHistory
<1>7. CASE beginExclusiveLane \/ nextStep \/ backfillCompletes \/ chainStops
             \/ supersede \/ cancelLane \/ teardown \/ observationPublished
             \/ UNCHANGED txVars
  BY <1>7 DEF beginExclusiveLane, nextStep, backfillCompletes, chainStops, supersede,
              cancelLane, teardown, observationPublished, txVars, TransactionTypeOK,
              loops, mutation, layer
<1>8. ASSUME NEW k \in Kind, prepare(k)
      PROVE  TransactionTypeOK'
  BY <1>8 DEF prepare, TransactionTypeOK, loops, layer
<1>9. ASSUME NEW k \in Kind, retryableStagedPreparation(k)
      PROVE  TransactionTypeOK'
  <2>1. \A s \in staged : s.frame \in Frame
    BY DEF TypeOK, Staged
  <2>2. candidate' \in SUBSET Frame
    BY <1>9, <2>1 DEF retryableStagedPreparation
  <2>3. QED
    BY <1>9, <2>2 DEF retryableStagedPreparation, TransactionTypeOK, loops, layer
<1>10. CASE prepareAnswered
  <2>1. \A s \in staged' : s.frame \in Frame
    BY DEF TypeOK, Staged
  <2>2. candidate' \in SUBSET Frame
    BY <1>10, <2>1 DEF prepareAnswered
  <2>3. QED
    BY <1>10, <2>2 DEF prepareAnswered, TransactionTypeOK, loops, layer
<1>11. CASE commitStagedResidency
  <2>1. PICK f \in candidate :
           timeline' = IF kind = "current" THEN <<f.time>> ELSE proposed(f.time)
    BY <1>11 DEF commitStagedResidency
  <2>2. f.time \in Time
    BY <1>2 DEF Frame
  <2>3. proposed(f.time) \in Seq(Time)
    BY <2>2, ProposedType DEF TransactionTypeOK
  <2>4. timeline' \in Seq(Time)
    BY <2>1, <2>2, <2>3
  <2>5. awaitingExternalCommit' \in SUBSET Seq(Time)
    BY <1>11 DEF commitStagedResidency, TransactionTypeOK
  <2>6. QED
    BY <1>11, <2>4, <2>5 DEF commitStagedResidency, TransactionTypeOK, loops
<1>12. CASE beginRecovery \/ rollbackHistoryMutation
  <2>1. timeline' \in Seq(Time)
    BY <1>12 DEF beginRecovery, rollbackHistoryMutation, TransactionTypeOK
  <2>2. awaitingExternalCommit' = {}
    BY <1>12 DEF beginRecovery, rollbackHistoryMutation
  <2>3. QED
    BY <1>12, <2>1, <2>2
       DEF beginRecovery, rollbackHistoryMutation, TransactionTypeOK, loops, mutation
<1>13. CASE \/ prepareAcquires \/ uploadFails \/ commit \/ commitRefused \/ commitAnswered
            \/ commitFails \/ finalizeRefused \/ finalizeNationalHistory
            \/ recoverFinalized
  BY <1>13 DEF prepareAcquires, uploadFails, commit, commitRefused, commitAnswered,
               commitFails, finalizeRefused, finalizeNationalHistory, recoverFinalized,
               TransactionTypeOK, loops, mutation, layer
<1>14. CASE finalizeHistoryMutation
  BY <1>14 DEF finalizeHistoryMutation, TransactionTypeOK, loops
<1>15. CASE commitStagedResidencyThrows
  <2>1. PICK f \in candidate : timeline' = proposed(f.time)
    BY <1>15 DEF commitStagedResidencyThrows
  <2>2. f.time \in Time /\ nationalObservations \in Seq(Time)
    BY <1>2 DEF Frame, TransactionTypeOK
  <2>3. timeline' \in Seq(Time)
    BY <2>1, <2>2, ProposedType
  <2>4. QED
    BY <1>15, <2>3 DEF commitStagedResidencyThrows, TransactionTypeOK, loops
<1>16. QED
  BY <1>3, <1>4, <1>5, <1>6, <1>7, <1>8, <1>9, <1>10, <1>11, <1>12, <1>13, <1>14, <1>15
     DEF TransactionNext, ChainNext, EnvironmentNext

-----------------------------------------------------------------------------
StoreInv == HistoryInv /\ DocumentInv /\ TransactionTypeOK /\ document = 1

LEMMA StoreInvInit == TransactionInit => StoreInv
<1> SUFFICES ASSUME TransactionInit PROVE StoreInv
  OBVIOUS
<1>1. Init
  BY DEF TransactionInit
<1>2. HistoryInv /\ DocumentInv /\ document = 1
  BY <1>1, HistoryInit, DocumentInit DEF Init
<1>3. TransactionTypeOK
  BY DEF TransactionInit, TransactionTypeOK, Kind
<1>4. QED
  BY <1>2, <1>3 DEF StoreInv

LEMMA StoreInvStep ==
  ASSUME StoreInv, [TransactionNext]_txVars
  PROVE  StoreInv'
<1>1. TypeOK /\ TransactionTypeOK
  BY DEF StoreInv, HistoryInv
<1>2. [Next]_vars /\ document' = document
  BY <1>1, StepOfStore
<1>3. HistoryInv' /\ DocumentInv'
  BY <1>2, HistoryStep, DocumentStep DEF StoreInv
<1>4. TypeOK'
  BY <1>3 DEF HistoryInv
<1>5. TransactionTypeOK'
  BY <1>1, <1>4, TransactionTypeStep
<1>6. QED
  BY <1>2, <1>3, <1>5 DEF StoreInv

LEMMA StoreInvariant == TransactionSpec => []StoreInv
BY StoreInvInit, StoreInvStep, PTL DEF TransactionSpec

(* The chain of operations uses the store only as its commands allow, so    *)
(* the transaction implements the store's specification (the calls of       *)
(* acquireAndPaint and commitNationalHistoryMutation in src/App.tsx).       *)
THEOREM ChainUsesStore == TransactionSpec => Spec
<1>1. TransactionInit => Init
  BY DEF TransactionInit
<1>2. StoreInv /\ [TransactionNext]_txVars => [Next]_vars
  BY StepOfStore DEF StoreInv, HistoryInv
<1>3. QED
  BY <1>1, <1>2, StoreInvariant, PTL DEF TransactionSpec, Spec

(* Backfill never steps over an observation, whichever answers are lost and *)
(* whatever is retried, recovered or rolled back (runNationalBackfill in    *)
(* src/App.tsx with HistoryStore::commit_staged).                           *)
THEOREM BackfillIsWhole == TransactionSpec => []BackfillLeavesNoHole
<1>1. StoreInv => BackfillLeavesNoHole
  BY NoHole DEF StoreInv, DocumentInv
<1>2. QED
  BY <1>1, StoreInvariant, PTL

-----------------------------------------------------------------------------
(* Renderer, store and application in step.  What holds while the chain is  *)
(* neither ended by a teardown in the middle of settling a mutation nor has *)
(* counted a sealed mutation as failed.  A commit that threw puts the       *)
(* renderer ahead of the other two until a mutation is sealed.              *)

CommitIsKept == \A r \in reversible_commit : r.observation \in ToSet(retained)

Ended == mode = "stopped" /\ pc = "idle" /\ cancelled /\ CommitIsKept

(* Where in a mutation the store, and the renderer, may be provisional.     *)
ProvisionalPhases ==
  /\ pc \in {"idle", "preparing", "prepared", "painted", "committing", "sealed"} =>
       reversible_commit = {}
  /\ awaitingExternalCommit # {} => pc \in {"painted", "committing", "committed", "failing"}
  /\ AtMostOne(awaitingExternalCommit)
  /\ mode \in {"closed", "stopped"} => pc = "idle"

(* The mutation under way is of the observation that is being prepared, or  *)
(* is staged.                                                               *)
CandidateInStep ==
  /\ pc = "preparing" => \A c \in Command : \A work \in running[c] : work.kind = kind
  /\ pc = "preparing" /\ kind = "current" => mode = "current"
  /\ pc \in {"prepared", "painted", "committing"} =>
       /\ candidate = {s.frame : s \in staged}
       /\ \A s \in staged : s.kind = kind

(* What a painted mutation leads to.                                        *)
Leads(t) == IF kind = "current" THEN <<t>> ELSE proposed(t)

TimelineInStep ==
  /\ awaitingExternalCommit # {} /\ pc \in {"painted", "committing"} =>
       \A f \in candidate : timeline = Leads(f.time) /\ Len(timeline) <= HISTORY_LIMIT
  /\ awaitingExternalCommit # {} /\ pc = "committed" => timeline = Times(retained)
  /\ kind = "predecessor" /\ pc \in {"painted", "committing"} =>
       Len(nationalObservations) < HISTORY_LIMIT

PartiesAgree ==
  /\ pc = "sealing" => timeline = Times(retained)
  /\ pc # "sealing" => halfApplied \/ SettledTimeline = SettledHistory
  /\ pc \in {"sealing", "sealed"} => ~halfApplied
  /\ mode # "stopped" /\ pc \notin {"sealing", "sealed"} =>
       nationalObservations = SettledHistory
  /\ mode \in {"closed", "current"} => nationalObservations = <<>>

InStep ==
  /\ ProvisionalPhases
  /\ CandidateInStep
  /\ TimelineInStep
  /\ PartiesAgree
  /\ CommitIsKept

TransactionInv == disowned \/ Ended \/ InStep

LEMMA SettledHistoryIs ==
  /\ reversible_commit = {} => SettledHistory = Times(retained)
  /\ \A r : reversible_commit = {r} => SettledHistory = Times(r.retained)
<1>1. \A r : (CHOOSE q \in {r} : TRUE) = r
  OBVIOUS
<1>2. QED
  BY <1>1 DEF SettledHistory

LEMMA SettledTimelineIs ==
  /\ awaitingExternalCommit = {} => SettledTimeline = timeline
  /\ \A times : awaitingExternalCommit = {times} => SettledTimeline = times
<1>1. \A times : (CHOOSE q \in {times} : TRUE) = times
  OBVIOUS
<1>2. QED
  BY <1>1 DEF SettledTimeline

(* A mutation that is over leaves nothing provisional.                      *)
LEMMA IdleInStep ==
  ASSUME pc' = "idle", reversible_commit' = {}, awaitingExternalCommit' = {},
         halfApplied' \/ timeline' = Times(retained'),
         mode' # "stopped" => nationalObservations' = Times(retained'),
         mode' \notin {"closed", "current"}
  PROVE  InStep'
<1>1. ProvisionalPhases' /\ CandidateInStep' /\ TimelineInStep' /\ CommitIsKept'
  BY DEF ProvisionalPhases, AtMostOne, CandidateInStep, TimelineInStep, CommitIsKept
<1>2. PartiesAgree'
  BY DEF PartiesAgree, SettledTimeline, SettledHistory, Times
<1>3. QED
  BY <1>1, <1>2 DEF InStep

LEMMA FailedEnds ==
  ASSUME NEW k, Failed(k)
  PROVE  /\ pc' = "idle" /\ mode # "stopped" /\ mode' \notin {"closed", "current"}
         /\ nationalObservations' = nationalObservations
BY DEF Failed, AfterCheck, loops

LEMMA SucceededEnds ==
  ASSUME NEW times, Succeeded(times)
  PROVE  /\ pc' = "idle" /\ mode' \notin {"closed", "current"}
         /\ nationalObservations' = times
BY DEF Succeeded, AfterCheck, loops

(* A mutation that fails with nothing provisional any more.                 *)
LEMMA FailedInStep ==
  ASSUME InStep, pc \notin {"sealing", "sealed"}, awaitingExternalCommit = {},
         NEW k, Failed(k), UNCHANGED <<layer, halfApplied>>,
         reversible_commit' = {}, Times(retained') = SettledHistory
  PROVE  InStep'
<1>1. /\ pc' = "idle" /\ mode # "stopped" /\ mode' \notin {"closed", "current"}
      /\ nationalObservations' = nationalObservations
  BY FailedEnds
<1>2. UNCHANGED <<timeline, awaitingExternalCommit, halfApplied>>
  BY DEF layer
<1>3. SettledTimeline = timeline /\ (halfApplied \/ SettledTimeline = SettledHistory)
        /\ nationalObservations = SettledHistory
  BY <1>1, SettledTimelineIs DEF InStep, PartiesAgree
<1>4. (halfApplied' \/ timeline' = Times(retained')) /\ nationalObservations' = Times(retained')
  BY <1>1, <1>2, <1>3
<1>5. QED
  BY <1>1, <1>2, <1>4, IdleInStep

(* Steps that touch nothing the parties hold.                               *)
Untouched ==
  /\ UNCHANGED <<retained, staged, reversible_commit, running>>
  /\ UNCHANGED <<kind, candidate, nationalObservations, timeline, awaitingExternalCommit,
                 halfApplied>>

LEMMA UntouchedInStep ==
  ASSUME InStep, Untouched, pc' = pc, mode' = mode
  PROVE  InStep'
<1> USE DEF Untouched
<1>1. ProvisionalPhases' /\ CandidateInStep' /\ CommitIsKept'
  BY DEF InStep, ProvisionalPhases, CandidateInStep, CommitIsKept, AtMostOne
<1>2. TimelineInStep'
  BY DEF InStep, TimelineInStep, Leads, proposed, Times
<1>3. PartiesAgree'
  <2>1. SettledTimeline' = SettledTimeline /\ SettledHistory' = SettledHistory
    BY DEF SettledTimeline, SettledHistory, Times
  <2>2. QED
    BY <2>1 DEF InStep, PartiesAgree
<1>4. QED
  BY <1>1, <1>2, <1>3 DEF InStep

(* The chain turns to something else between two mutations.                 *)
LEMMA TurnsInStep ==
  ASSUME InStep, Untouched, pc = "idle", pc' = "idle",
         \/ mode = "closed" /\ mode' = "current"
         \/ mode' = "stopped"
         \/ mode = "backfill" /\ mode' = "polling"
  PROVE  InStep'
<1> USE DEF Untouched
<1>1. ProvisionalPhases' /\ CandidateInStep' /\ TimelineInStep' /\ CommitIsKept'
  BY DEF InStep, ProvisionalPhases, AtMostOne, CandidateInStep, TimelineInStep, CommitIsKept
<1>2. PartiesAgree'
  <2>1. SettledTimeline' = SettledTimeline /\ SettledHistory' = SettledHistory
    BY DEF SettledTimeline, SettledHistory, Times
  <2>2. QED
    BY <2>1 DEF InStep, PartiesAgree
<1>3. QED
  BY <1>1, <1>2 DEF InStep

(* What a preparation in Rust does to the store.                            *)
LEMMA StagingInStep ==
  ASSUME StoreInv, InStep, pc = "preparing", stage_current(chain) \/ stage(chain)
  PROVE  /\ reversible_commit' = {}
         /\ Times(retained') = SettledHistory
         /\ \A s \in staged' : s.kind = kind
<1>1. reversible_commit = {} /\ SettledHistory = Times(retained)
  BY SettledHistoryIs DEF InStep, ProvisionalPhases
<1>2. \A work \in running[chain] : work.kind = kind
  BY ChainIsCommand DEF InStep, CandidateInStep
<1>3. CASE stage_current(chain)
  <2>1. PICK work \in running[chain] : work.kind = "current"
    BY <1>3 DEF stage_current
  <2>2. kind = "current" /\ mode = "current"
    BY <1>2, <2>1 DEF InStep, CandidateInStep
  <2>3. SettledHistory = <<>>
    BY <2>2 DEF InStep, PartiesAgree
  <2>4. retained' = <<>> /\ reversible_commit' = {} /\ \A s \in staged' : s.kind = "current"
    BY <1>3 DEF stage_current
  <2>5. Times(retained') = <<>>
    BY <2>4 DEF Times
  <2>6. QED
    BY <2>2, <2>3, <2>4, <2>5
<1>4. CASE stage(chain)
  <2>1. /\ UNCHANGED <<retained, reversible_commit>>
        /\ \E work \in running[chain] : \E f \in work.frame :
             staged' = {[kind |-> work.kind, frame |-> f]}
    BY <1>4 DEF stage
  <2>2. \A s \in staged' : s.kind = kind
    BY <1>2, <2>1
  <2>3. Times(retained') = Times(retained)
    BY <2>1
  <2>4. QED
    BY <1>1, <2>1, <2>2, <2>3
<1>5. QED
  BY <1>3, <1>4

LEMMA PrepareInStep ==
  ASSUME StoreInv, InStep, NEW k \in Kind, prepare(k)
  PROVE  InStep'
<1>1. /\ pc = "idle" /\ pc' = "preparing" /\ kind' = k /\ Wanted(k)
      /\ UNCHANGED <<candidate, mode, nationalObservations, timeline, awaitingExternalCommit,
                     halfApplied>>
  BY DEF prepare, loops, layer, control
<1>2. prepare_current(chain) \/ prepare_predecessor(chain) \/ prepare_newer(chain)
  BY DEF prepare
<1>3. UNCHANGED <<retained, staged, reversible_commit>>
  BY <1>2, ChainIsCommand, OutsideTheStore DEF StoreUntouched
<1>4. PICK token, seen : Start(chain, Preparation(k, token, seen))
  <2>1. ASSUME k = "current" PROVE \E token, seen : Start(chain, Preparation(k, token, seen))
    BY <2>1 DEF prepare, prepare_current
  <2>2. ASSUME k = "predecessor" PROVE \E token, seen : Start(chain, Preparation(k, token, seen))
    BY <2>2 DEF prepare, prepare_predecessor
  <2>3. ASSUME k = "newer" PROVE \E token, seen : Start(chain, Preparation(k, token, seen))
    BY <2>3 DEF prepare, prepare_newer
  <2>4. QED
    BY <2>1, <2>2, <2>3 DEF Kind
<1>5. Preparation(k, token, seen).kind = k
  BY DEF Preparation
<1>6. \A c \in Command : \A work \in running'[c] : work.kind = k
  BY <1>4, <1>5, ChainAssumption, Starting DEF StoreInv, HistoryInv
<1>7. ProvisionalPhases' /\ CommitIsKept'
  BY <1>1, <1>3 DEF InStep, ProvisionalPhases, CommitIsKept, AtMostOne, Wanted
<1>8. CandidateInStep'
  BY <1>1, <1>6 DEF CandidateInStep, Wanted
<1>9. TimelineInStep'
  BY <1>1 DEF TimelineInStep
<1>10. SettledHistory' = SettledHistory /\ SettledTimeline' = SettledTimeline
  BY <1>1, <1>3 DEF SettledTimeline, SettledHistory, Times
<1>11. PartiesAgree'
  BY <1>1, <1>10 DEF InStep, PartiesAgree
<1>12. QED
  BY <1>7, <1>8, <1>9, <1>11 DEF InStep

LEMMA RetryableInStep ==
  ASSUME StoreInv, InStep, NEW k \in Kind, retryableStagedPreparation(k)
  PROVE  InStep'
<1>1. PICK s \in staged : s.kind = k /\ candidate' = {s.frame}
  BY DEF retryableStagedPreparation
<1>2. /\ pc = "idle" /\ pc' = "prepared" /\ kind' = k /\ Wanted(k)
      /\ UNCHANGED <<mode, nationalObservations, timeline, awaitingExternalCommit,
                     halfApplied>>
      /\ UNCHANGED <<retained, staged, reversible_commit>>
  BY DEF retryableStagedPreparation, loops, layer, vars, store, control
<1>3. \A q \in staged : q = s
  BY DEF StoreInv, HistoryInv, AtMostOne
<1>4. candidate' = {q.frame : q \in staged'} /\ \A q \in staged' : q.kind = kind'
  BY <1>1, <1>2, <1>3
<1>5. ProvisionalPhases' /\ CommitIsKept'
  BY <1>2 DEF InStep, ProvisionalPhases, CommitIsKept, AtMostOne, Wanted
<1>6. CandidateInStep'
  BY <1>2, <1>4 DEF CandidateInStep
<1>7. TimelineInStep'
  BY <1>2 DEF TimelineInStep
<1>8. PartiesAgree'
  <2>1. SettledTimeline' = SettledTimeline /\ SettledHistory' = SettledHistory
    BY <1>2 DEF SettledTimeline, SettledHistory, Times
  <2>2. QED
    BY <1>2, <2>1 DEF InStep, PartiesAgree
<1>9. QED
  BY <1>5, <1>6, <1>7, <1>8 DEF InStep

LEMMA AcquiresInStep ==
  ASSUME StoreInv, InStep, prepareAcquires
  PROVE  InStep'
<1>1. /\ pc = "preparing" /\ acquire_overview(chain)
      /\ UNCHANGED <<mode, pc, kind, candidate, nationalObservations, timeline,
                     awaitingExternalCommit, halfApplied>>
  BY DEF prepareAcquires, loops, mutation, layer, control
<1>2. UNCHANGED <<retained, staged, reversible_commit>>
  BY <1>1, ChainIsCommand, OutsideTheStore DEF StoreUntouched
<1>3. PICK work \in running[chain], acquired \in Work :
         running'[chain] = {acquired} /\ acquired.kind = work.kind
  BY <1>1, ChainIsCommand, AcquireStep DEF StoreInv, HistoryInv
<1>4. \A c \in Command : \A w \in running'[c] : w.kind = kind
  BY <1>1, <1>3, ChainAssumption DEF InStep, CandidateInStep
<1>5. ProvisionalPhases' /\ CommitIsKept'
  BY <1>1, <1>2 DEF InStep, ProvisionalPhases, CommitIsKept, AtMostOne
<1>6. CandidateInStep'
  BY <1>1, <1>4 DEF InStep, CandidateInStep
<1>7. TimelineInStep'
  BY <1>1 DEF TimelineInStep
<1>8. PartiesAgree'
  <2>1. SettledTimeline' = SettledTimeline /\ SettledHistory' = SettledHistory
    BY <1>1, <1>2 DEF SettledTimeline, SettledHistory, Times
  <2>2. QED
    BY <1>1, <1>2, <2>1 DEF InStep, PartiesAgree
<1>9. QED
  BY <1>5, <1>6, <1>7, <1>8 DEF InStep

LEMMA AnsweredInStep ==
  ASSUME StoreInv, InStep, prepareAnswered
  PROVE  InStep'
<1>1. /\ pc = "preparing" /\ pc' = "prepared" /\ (stage_current(chain) \/ stage(chain))
      /\ candidate' = {s.frame : s \in staged'}
      /\ UNCHANGED <<mode, kind, nationalObservations, timeline, awaitingExternalCommit,
                     halfApplied>>
  BY DEF prepareAnswered, loops, layer, control
<1>2. /\ reversible_commit' = {} /\ Times(retained') = SettledHistory
      /\ \A s \in staged' : s.kind = kind
  BY <1>1, StagingInStep
<1>3. awaitingExternalCommit = {}
  BY <1>1 DEF InStep, ProvisionalPhases
<1>4. ProvisionalPhases' /\ CommitIsKept'
  BY <1>1, <1>2, <1>3 DEF InStep, ProvisionalPhases, CommitIsKept, AtMostOne
<1>5. CandidateInStep'
  BY <1>1, <1>2 DEF CandidateInStep
<1>6. TimelineInStep'
  BY <1>1 DEF TimelineInStep
<1>7. SettledHistory' = SettledHistory
  BY <1>2 DEF SettledHistory, Times
<1>8. SettledTimeline' = SettledTimeline
  BY <1>1 DEF SettledTimeline
<1>9. PartiesAgree'
  BY <1>1, <1>7, <1>8 DEF InStep, PartiesAgree
<1>10. QED
  BY <1>4, <1>5, <1>6, <1>9 DEF InStep

(* A preparation is refused, lost or fails.                                 *)
LEMMA PrepareFailsInStep ==
  ASSUME StoreInv, InStep,
         (\E k \in Kind : prepareRefused(k)) \/ prepareLost \/ prepareFails
  PROVE  InStep'
<1>1. PICK k : Failed(k) /\ UNCHANGED <<layer, halfApplied>>
  BY DEF prepareRefused, prepareLost, prepareFails, control
<1>2. pc \in {"idle", "preparing"}
  BY DEF prepareRefused, prepareLost, prepareFails
<1>3. awaitingExternalCommit = {} /\ reversible_commit = {} /\ SettledHistory = Times(retained)
  BY <1>2, SettledHistoryIs DEF InStep, ProvisionalPhases
<1>4. reversible_commit' = {} /\ Times(retained') = SettledHistory
  <2>1. CASE prepareLost
    BY <2>1, StagingInStep DEF prepareLost
  <2>2. CASE (\E k0 \in Kind : prepareRefused(k0)) \/ prepareFails
    <3>1. UNCHANGED <<retained, reversible_commit>>
      BY <2>2 DEF prepareRefused, prepareFails, command_fails, vars, store
    <3>2. QED
      BY <1>3, <3>1
  <2>3. QED
    BY <2>1, <2>2
<1>5. QED
  BY <1>1, <1>2, <1>3, <1>4, FailedInStep

(* The renderer paints the mutation, provisionally.                         *)
LEMMA PaintInStep ==
  ASSUME StoreInv, InStep, commitStagedResidency
  PROVE  InStep'
<1>1. /\ pc = "prepared" /\ pc' = "painted"
      /\ awaitingExternalCommit = {} /\ awaitingExternalCommit' = {timeline}
      /\ UNCHANGED <<mode, kind, candidate, nationalObservations, halfApplied>>
      /\ UNCHANGED <<retained, staged, reversible_commit>>
  BY DEF commitStagedResidency, loops, vars, store, control
<1>2. PICK f \in candidate :
         timeline' = Leads(f.time) /\ Len(timeline') <= HISTORY_LIMIT
  BY DEF commitStagedResidency, Leads, validateResidentTimeline
<1>3. \A g \in candidate : g = f
  BY <1>1 DEF InStep, CandidateInStep, StoreInv, HistoryInv, AtMostOne
<1>4. mode # "stopped"
  BY <1>1 DEF InStep, ProvisionalPhases
<1>5. ProvisionalPhases' /\ CommitIsKept'
  BY <1>1, <1>4 DEF InStep, ProvisionalPhases, CommitIsKept, AtMostOne
<1>6. CandidateInStep'
  BY <1>1 DEF InStep, CandidateInStep
<1>7. kind = "predecessor" => Len(nationalObservations) < HISTORY_LIMIT
  <2> SUFFICES ASSUME kind = "predecessor"
               PROVE  Len(nationalObservations) < HISTORY_LIMIT
    OBVIOUS
  <2>1. nationalObservations \in Seq(Time) /\ f.time \in Time
    BY DEF StoreInv, TransactionTypeOK, Frame
  <2>2. timeline' = <<f.time>> \o nationalObservations
    BY <1>2 DEF Leads, proposed
  <2>3. Len(<<f.time>> \o nationalObservations) = 1 + Len(nationalObservations)
    BY <2>1
  <2>4. QED
    BY <1>2, <2>1, <2>2, <2>3, LimitAssumption
<1>8. TimelineInStep'
  BY <1>1, <1>2, <1>3, <1>7 DEF TimelineInStep, Leads, proposed
<1>9. SettledTimeline = timeline /\ SettledTimeline' = timeline
  BY <1>1, SettledTimelineIs DEF SettledTimeline
<1>10. SettledHistory' = SettledHistory
  BY <1>1 DEF SettledHistory, Times
<1>11. PartiesAgree'
  BY <1>1, <1>9, <1>10 DEF InStep, PartiesAgree
<1>12. QED
  BY <1>5, <1>6, <1>8, <1>11 DEF InStep

(* A mutation that fails before it is sealed is rolled back next.           *)
LEMMA FailingInStep ==
  ASSUME InStep, pc \in {"prepared", "painted", "committing", "committed"},
         pc' = "failing",
         UNCHANGED <<kind, mode, nationalObservations, awaitingExternalCommit>>,
         \/ halfApplied'
         \/ UNCHANGED <<timeline, halfApplied>>,
         SettledHistory' = SettledHistory, CommitIsKept'
  PROVE  InStep'
<1>1. mode \notin {"closed", "stopped"}
  BY DEF InStep, ProvisionalPhases
<1>2. ProvisionalPhases'
  BY <1>1 DEF InStep, ProvisionalPhases, AtMostOne
<1>3. CandidateInStep' /\ TimelineInStep'
  BY DEF CandidateInStep, TimelineInStep
<1>4. halfApplied' \/ (SettledTimeline' = SettledTimeline /\ UNCHANGED halfApplied)
  BY DEF SettledTimeline
<1>5. PartiesAgree'
  BY <1>4 DEF InStep, PartiesAgree
<1>6. QED
  BY <1>2, <1>3, <1>5 DEF InStep

LEMMA RefusedInStep ==
  ASSUME InStep, uploadFails \/ commitRefused \/ finalizeRefused
  PROVE  InStep'
<1>1. /\ pc \in {"prepared", "painted", "committing", "committed"} /\ pc' = "failing"
      /\ UNCHANGED <<kind, mode, nationalObservations, timeline, awaitingExternalCommit,
                     halfApplied>>
      /\ UNCHANGED <<retained, reversible_commit>>
  BY DEF uploadFails, commitRefused, finalizeRefused, loops, layer, vars, store, control
<1>2. SettledHistory' = SettledHistory /\ CommitIsKept'
  BY <1>1 DEF SettledHistory, Times, InStep, CommitIsKept
<1>3. QED
  BY <1>1, <1>2, FailingInStep

(* A commit of the renderer throws once its timeline is assigned.           *)
LEMMA ThrowInStep ==
  ASSUME InStep, commitStagedResidencyThrows
  PROVE  InStep'
<1>1. /\ pc = "prepared" /\ pc' = "failing" /\ halfApplied' = TRUE
      /\ UNCHANGED <<kind, mode, nationalObservations, awaitingExternalCommit>>
      /\ UNCHANGED <<retained, reversible_commit>>
  BY DEF commitStagedResidencyThrows, loops, vars, store
<1>2. SettledHistory' = SettledHistory /\ CommitIsKept'
  BY <1>1 DEF SettledHistory, Times, InStep, CommitIsKept
<1>3. QED
  BY <1>1, <1>2, FailingInStep

(* A lost context takes the provisional mutation back in the renderer.      *)
LEMMA RecoveryInStep ==
  ASSUME InStep, beginRecovery
  PROVE  InStep'
<1>1. PICK times \in awaitingExternalCommit : timeline' = times
  BY DEF beginRecovery
<1>2. /\ awaitingExternalCommit' = {}
      /\ UNCHANGED <<mode, pc, kind, candidate, nationalObservations, halfApplied>>
      /\ UNCHANGED <<retained, staged, reversible_commit, running>>
  BY DEF beginRecovery, loops, mutation, vars, store, control
<1>3. awaitingExternalCommit = {times} /\ pc # "sealing"
  BY <1>1 DEF InStep, ProvisionalPhases, AtMostOne
<1>4. SettledTimeline' = SettledTimeline
  BY <1>1, <1>2, <1>3, SettledTimelineIs DEF SettledTimeline
<1>5. SettledHistory' = SettledHistory
  BY <1>2 DEF SettledHistory, Times
<1>6. ProvisionalPhases' /\ CandidateInStep' /\ CommitIsKept'
  BY <1>2 DEF InStep, ProvisionalPhases, AtMostOne, CandidateInStep, CommitIsKept
<1>7. TimelineInStep'
  BY <1>2 DEF InStep, TimelineInStep
<1>8. PartiesAgree'
  BY <1>2, <1>3, <1>4, <1>5 DEF InStep, PartiesAgree
<1>9. QED
  BY <1>6, <1>7, <1>8 DEF InStep

(* The commit is asked for.                                                 *)
LEMMA CommitInStep ==
  ASSUME StoreInv, InStep, commit
  PROVE  InStep'
<1>1. /\ pc = "painted" /\ pc' = "committing"
      /\ UNCHANGED <<mode, kind, candidate, nationalObservations, timeline,
                     awaitingExternalCommit, halfApplied>>
  BY DEF commit, loops, layer, control
<1>2. \E f \in Frame : commit_national_history_frame(chain, f)
  BY DEF commit, StoreInv, TransactionTypeOK
<1>3. UNCHANGED <<retained, staged, reversible_commit>>
  BY <1>2, ChainIsCommand, OutsideTheStore DEF StoreUntouched
<1>4. ProvisionalPhases' /\ CommitIsKept'
  BY <1>1, <1>3 DEF InStep, ProvisionalPhases, AtMostOne, CommitIsKept
<1>5. CandidateInStep'
  BY <1>1, <1>3 DEF InStep, CandidateInStep
<1>6. TimelineInStep'
  BY <1>1 DEF InStep, TimelineInStep, Leads, proposed
<1>7. SettledHistory' = SettledHistory /\ SettledTimeline' = SettledTimeline
  BY <1>1, <1>3 DEF SettledHistory, SettledTimeline, Times
<1>8. PartiesAgree'
  BY <1>1, <1>7 DEF InStep, PartiesAgree
<1>9. QED
  BY <1>4, <1>5, <1>6, <1>8 DEF InStep

(* What the store does of a commit, and where it leads.                     *)
LEMMA CommitTakes ==
  ASSUME StoreInv, commit_staged(chain)
  PROVE  \E s \in staged :
            /\ InPlace(s)
            /\ reversible_commit = {}
            /\ \E r : reversible_commit' = {r} /\ r.observation = s.frame
                        /\ r.retained = retained
            /\ retained' = evict(Joined(s))
            /\ staged' = {}
<1>1. PICK work \in running[chain], s \in staged :
         /\ InPlace(s)
         /\ reversible_commit = {}
         /\ reversible_commit' = {[observation |-> s.frame, retained |-> retained,
                                   backfill_candidates |-> backfill_candidates,
                                   detail |-> detail]}
         /\ retained' = evict(Joined(s))
         /\ staged' = {}
  BY DEF commit_staged
<1> DEFINE r0 == [observation |-> s.frame, retained |-> retained,
                  backfill_candidates |-> backfill_candidates, detail |-> detail]
<1>2. r0.observation = s.frame /\ r0.retained = retained
  OBVIOUS
<1> HIDE DEF r0
<1>3. reversible_commit' = {r0}
  BY <1>1 DEF r0
<1>4. QED
  BY <1>1, <1>2, <1>3

(* The observation that joins is still there once the history is trimmed.   *)
LEMMA JoinedIsKept ==
  ASSUME TypeOK, NEW s \in staged,
         s.kind = "predecessor" => Len(retained) < HISTORY_LIMIT
  PROVE  s.frame \in ToSet(evict(Joined(s)))
<1> DEFINE frames == Joined(s)
           n == Len(retained)
<1>1. /\ frames \in Seq(Frame) /\ Len(frames) = n + 1 /\ n \in Nat
      /\ s.kind = "predecessor" => frames[1] = s.frame
      /\ s.kind # "predecessor" => frames[n + 1] = s.frame
  BY JoinedProperties, RetainedFrames
<1>2. HISTORY_LIMIT \in Nat \ {0}
  BY LimitAssumption
<1> HIDE DEF frames, n
<1>3. CASE n + 1 <= HISTORY_LIMIT
  <2>1. evict(frames) = frames
    BY <1>1, <1>3, EvictProperties
  <2>2. \E i \in 1 .. Len(frames) : frames[i] = s.frame
    <3>1. CASE s.kind = "predecessor"
      <4>1. 1 \in 1 .. Len(frames)
        BY <1>1
      <4>2. QED
        BY <1>1, <3>1, <4>1
    <3>2. CASE s.kind # "predecessor"
      <4>1. n + 1 \in 1 .. Len(frames)
        BY <1>1
      <4>2. QED
        BY <1>1, <3>2, <4>1
    <3>3. QED
      BY <3>1, <3>2
  <2>3. s.frame \in ToSet(frames)
    BY <2>2 DEF ToSet
  <2>4. QED
    BY <2>1, <2>3 DEF frames
<1>4. CASE n + 1 > HISTORY_LIMIT
  <2>1. s.kind # "predecessor"
    BY <1>1, <1>2, <1>4 DEF n
  <2>2. Len(evict(frames)) = n /\ \A i \in 1 .. n : evict(frames)[i] = frames[i + 1]
    BY <1>1, <1>4, EvictProperties
  <2>3. n \in 1 .. n
    BY <1>1, <1>2, <1>4
  <2>4. evict(frames)[n] = s.frame /\ n \in 1 .. Len(evict(frames))
    BY <1>1, <2>1, <2>2, <2>3
  <2>5. s.frame \in ToSet(evict(frames))
    BY <2>4 DEF ToSet
  <2>6. QED
    BY <2>5 DEF frames
<1>5. QED
  BY <1>1, <1>2, <1>3, <1>4

(* What the renderer painted of a staged observation is what the store      *)
(* retains once it is committed.                                            *)
LEMMA LeadsToJoined ==
  ASSUME StoreInv, NEW s \in staged, s.kind = kind, InPlace(s),
         nationalObservations = Times(retained),
         Len(Leads(s.frame.time)) <= HISTORY_LIMIT
  PROVE  Leads(s.frame.time) = Times(evict(Joined(s)))
<1> DEFINE t == s.frame.time
<1>1. /\ TypeOK /\ retained \in Seq(Frame) /\ Len(retained) \in Nat
      /\ Len(retained) <= HISTORY_LIMIT
      /\ s \in Staged
  BY RetainedFrames DEF StoreInv, HistoryInv, Kept, TypeOK
<1>2. t \in Time /\ HISTORY_LIMIT \in Nat \ {0}
  BY <1>1, LimitAssumption DEF Staged, Frame
<1>3. Times(retained) \in Seq(Time) /\ Len(Times(retained)) = Len(retained)
  BY <1>1, TimesProperties
<1>4. Joined(s) \in Seq(Frame) /\ Len(Joined(s)) = Len(retained) + 1
  BY <1>1, JoinedProperties
<1>5. Times(evict(Joined(s))) = Ledger!Trim(Times(Joined(s)))
  BY <1>4, TimesOfEvict
<1>6. Times(Joined(s)) = IF kind = "predecessor" THEN <<t>> \o Times(retained)
                                                 ELSE Append(Times(retained), t)
  BY <1>1, TimesOfJoined
<1>7. Len(Times(Joined(s))) = Len(retained) + 1
  BY <1>4, TimesProperties
<1> HIDE DEF t
<1>8. CASE kind = "predecessor"
  <2>1. Leads(t) = Times(Joined(s))
    BY <1>6, <1>8 DEF Leads, proposed
  <2>2. Len(Times(Joined(s))) <= HISTORY_LIMIT
    BY <2>1 DEF t
  <2>3. Ledger!Trim(Times(Joined(s))) = Times(Joined(s))
    BY <1>1, <1>2, <1>7, <2>2 DEF Ledger!Trim
  <2>4. QED
    BY <1>5, <2>1, <2>3 DEF t
<1>9. CASE kind = "current"
  <2>1. retained = <<>>
    BY <1>9 DEF InPlace
  <2>2. Times(retained) = <<>>
    BY <2>1 DEF Times
  <2>3. Times(Joined(s)) = <<t>>
    BY <1>2, <1>6, <1>9, <2>2
  <2>4. Leads(t) = Times(Joined(s))
    BY <1>9, <2>3 DEF Leads
  <2>5. Len(Times(Joined(s))) <= HISTORY_LIMIT
    BY <2>4 DEF t
  <2>6. Ledger!Trim(Times(Joined(s))) = Times(Joined(s))
    BY <1>1, <1>2, <1>7, <2>5 DEF Ledger!Trim
  <2>7. QED
    BY <1>5, <2>4, <2>6 DEF t
<1>10. CASE kind \notin {"predecessor", "current"}
  <2>1. Leads(t) = newestOf(Append(Times(retained), t))
    BY <1>10 DEF Leads, proposed
  <2>2. /\ Append(Times(retained), t) \in Seq(Time)
        /\ Len(Append(Times(retained), t)) <= HISTORY_LIMIT + 1
    BY <1>1, <1>2, <1>3, AppendProperties
  <2>3. newestOf(Append(Times(retained), t)) = Ledger!Trim(Append(Times(retained), t))
    BY <2>2, ProposedProperties
  <2>4. Times(Joined(s)) = Append(Times(retained), t)
    BY <1>6, <1>10
  <2>5. QED
    BY <1>5, <2>1, <2>3, <2>4 DEF t
<1>11. QED
  BY <1>8, <1>9, <1>10

(* A commit that takes effect, whether or not its answer arrives.           *)
LEMMA CommitKeepsStep ==
  ASSUME StoreInv, InStep, pc = "committing", commit_staged(chain)
  PROVE  /\ SettledHistory' = SettledHistory
         /\ CommitIsKept'
         /\ awaitingExternalCommit # {} => timeline = Times(retained')
<1>1. PICK s \in staged :
         /\ InPlace(s)
         /\ reversible_commit = {}
         /\ \E r : reversible_commit' = {r} /\ r.observation = s.frame
                     /\ r.retained = retained
         /\ retained' = evict(Joined(s))
         /\ staged' = {}
  BY CommitTakes
<1>2. PICK r : reversible_commit' = {r} /\ r.observation = s.frame /\ r.retained = retained
  BY <1>1
<1>3. SettledHistory = Times(retained) /\ SettledHistory' = Times(retained)
  <2>1. (CHOOSE q \in {r} : TRUE) = r
    OBVIOUS
  <2>2. SettledHistory' = Times(r.retained)
    BY <1>2, <2>1 DEF SettledHistory, Times
  <2>3. QED
    BY <1>1, <1>2, <2>2, SettledHistoryIs
<1>4. nationalObservations = Times(retained)
  BY <1>3 DEF InStep, ProvisionalPhases, PartiesAgree
<1>5. s.kind = kind /\ s.frame \in candidate
  BY DEF InStep, CandidateInStep
<1>6. TypeOK /\ Len(Times(retained)) = Len(retained)
  BY RetainedFrames, TimesProperties DEF StoreInv, HistoryInv
<1>7. CommitIsKept'
  <2>1. s.kind = "predecessor" => Len(retained) < HISTORY_LIMIT
    BY <1>4, <1>5, <1>6 DEF InStep, TimelineInStep
  <2>2. s.frame \in ToSet(retained')
    BY <1>1, <1>6, <2>1, JoinedIsKept
  <2>3. QED
    BY <1>2, <2>2 DEF CommitIsKept
<1>8. ASSUME awaitingExternalCommit # {}
      PROVE  timeline = Times(retained')
  <2>1. timeline = Leads(s.frame.time) /\ Len(timeline) <= HISTORY_LIMIT
    BY <1>5, <1>8 DEF InStep, TimelineInStep
  <2>2. Leads(s.frame.time) = Times(evict(Joined(s)))
    BY <1>1, <1>4, <1>5, <2>1, LeadsToJoined
  <2>3. QED
    BY <1>1, <2>1, <2>2 DEF Times
<1>9. QED
  BY <1>3, <1>7, <1>8

LEMMA AnsweredCommitInStep ==
  ASSUME StoreInv, InStep, commitAnswered
  PROVE  InStep'
<1>1. /\ pc = "committing" /\ pc' = "committed" /\ commit_staged(chain)
      /\ UNCHANGED <<mode, kind, candidate, nationalObservations, timeline,
                     awaitingExternalCommit, halfApplied>>
  BY DEF commitAnswered, loops, layer, control
<1>2. /\ SettledHistory' = SettledHistory
      /\ CommitIsKept'
      /\ awaitingExternalCommit # {} => timeline = Times(retained')
  BY <1>1, CommitKeepsStep
<1>3. ProvisionalPhases'
  BY <1>1 DEF InStep, ProvisionalPhases, AtMostOne
<1>4. CandidateInStep'
  BY <1>1 DEF CandidateInStep
<1>5. TimelineInStep'
  BY <1>1, <1>2 DEF TimelineInStep, Times
<1>6. SettledTimeline' = SettledTimeline
  BY <1>1 DEF SettledTimeline
<1>7. PartiesAgree'
  BY <1>1, <1>2, <1>6 DEF InStep, PartiesAgree
<1>8. QED
  BY <1>2, <1>3, <1>4, <1>5, <1>7 DEF InStep

LEMMA FailedCommitInStep ==
  ASSUME StoreInv, InStep, commitFails
  PROVE  InStep'
<1>1. /\ pc = "committing" /\ pc' = "failing"
      /\ commit_staged(chain) \/ command_fails(chain)
      /\ UNCHANGED <<mode, kind, candidate, nationalObservations, timeline,
                     awaitingExternalCommit, halfApplied>>
  BY DEF commitFails, loops, layer, control
<1>2. SettledHistory' = SettledHistory /\ CommitIsKept'
  <2>1. CASE commit_staged(chain)
    BY <1>1, <2>1, CommitKeepsStep
  <2>2. CASE command_fails(chain)
    <3>1. UNCHANGED <<retained, reversible_commit>>
      BY <2>2 DEF command_fails, store
    <3>2. QED
      BY <3>1 DEF SettledHistory, Times, InStep, CommitIsKept
  <2>3. QED
    BY <1>1, <2>1, <2>2
<1>3. QED
  BY <1>1, <1>2, FailingInStep

(* Renderer first, then store: a mutation becomes final.                    *)
LEMMA FinalizeInStep ==
  ASSUME InStep, finalizeHistoryMutation
  PROVE  InStep'
<1>1. /\ pc = "committed" /\ pc' = "sealing"
      /\ awaitingExternalCommit # {} /\ awaitingExternalCommit' = {} /\ halfApplied' = FALSE
      /\ UNCHANGED <<mode, kind, candidate, nationalObservations, timeline>>
      /\ UNCHANGED <<retained, reversible_commit>>
  BY DEF finalizeHistoryMutation, loops, vars, store
<1>2. timeline' = Times(retained')
  BY <1>1 DEF InStep, TimelineInStep, Times
<1>3. ProvisionalPhases' /\ CandidateInStep' /\ TimelineInStep' /\ CommitIsKept'
  BY <1>1 DEF InStep, ProvisionalPhases, AtMostOne, CandidateInStep, TimelineInStep,
              CommitIsKept
<1>4. PartiesAgree'
  BY <1>1, <1>2 DEF InStep, PartiesAgree
<1>5. QED
  BY <1>3, <1>4 DEF InStep

LEMMA SealInStep ==
  ASSUME InStep, finalizeNationalHistory \/ recoverFinalized
  PROVE  InStep'
<1>1. /\ pc = "sealing" /\ pc' \in {"sealing", "sealed"}
      /\ UNCHANGED <<mode, kind, candidate, nationalObservations, timeline,
                     awaitingExternalCommit, halfApplied>>
  BY DEF finalizeNationalHistory, recoverFinalized, loops, layer, control
<1>2. retained' = retained /\ reversible_commit' = {}
  BY <1>1 DEF finalizeNationalHistory, finalize_commit, recoverFinalized, vars, store
<1>3. awaitingExternalCommit = {} /\ timeline = Times(retained)
  BY <1>1 DEF InStep, ProvisionalPhases, PartiesAgree
<1>4. timeline' = Times(retained')
  BY <1>1, <1>2, <1>3
<1>5. ProvisionalPhases' /\ CandidateInStep' /\ TimelineInStep' /\ CommitIsKept'
  BY <1>1, <1>2, <1>3 DEF InStep, ProvisionalPhases, AtMostOne, CandidateInStep,
                          TimelineInStep, CommitIsKept
<1>6. SettledTimeline' = timeline' /\ SettledHistory' = Times(retained')
  BY <1>1, <1>2, <1>3 DEF SettledTimeline, SettledHistory, Times
<1>7. PartiesAgree'
  BY <1>1, <1>4, <1>6 DEF InStep, PartiesAgree
<1>8. QED
  BY <1>5, <1>7 DEF InStep

LEMMA PublishInStep ==
  ASSUME InStep, publishNationalHistory \/ publishSuperseded
  PROVE  InStep'
<1>1. pc = "sealed" /\ UNCHANGED <<timeline, awaitingExternalCommit>>
        /\ UNCHANGED <<retained, reversible_commit>>
  BY DEF publishNationalHistory, publishSuperseded, layer, vars, store
<1>2. reversible_commit = {} /\ awaitingExternalCommit = {}
        /\ SettledTimeline = SettledHistory
  BY <1>1 DEF InStep, ProvisionalPhases, PartiesAgree
<1>3. timeline = Times(retained)
  BY <1>2, SettledTimelineIs, SettledHistoryIs
<1>4. timeline' = Times(retained')
  BY <1>1, <1>3
<1>5. /\ pc' = "idle" /\ mode' \notin {"closed", "current"}
      /\ mode' # "stopped" => nationalObservations' = Times(retained)
  <2>1. CASE publishNationalHistory
    BY <2>1, SucceededEnds DEF publishNationalHistory
  <2>2. CASE publishSuperseded
    BY <2>2 DEF publishSuperseded, Superseded
  <2>3. QED
    BY <2>1, <2>2
<1>6. mode' # "stopped" => nationalObservations' = Times(retained')
  BY <1>1, <1>5
<1>7. QED
  BY <1>1, <1>2, <1>4, <1>5, <1>6, IdleInStep

(* Renderer first, then store: a mutation is taken back.                    *)
LEMMA TakeBackInStep ==
  ASSUME InStep, rollbackHistoryMutation
  PROVE  InStep'
<1>1. /\ pc = "failing" /\ pc' = "rollingBack"
      /\ timeline' = SettledTimeline /\ awaitingExternalCommit' = {}
      /\ UNCHANGED <<mode, kind, candidate, nationalObservations, halfApplied>>
      /\ UNCHANGED <<retained, reversible_commit>>
  BY DEF rollbackHistoryMutation, loops, vars, store, control,
         SettledTimeline
<1>2. ProvisionalPhases' /\ CandidateInStep' /\ TimelineInStep' /\ CommitIsKept'
  BY <1>1 DEF InStep, ProvisionalPhases, AtMostOne, CandidateInStep, TimelineInStep,
              CommitIsKept
<1>3. SettledTimeline' = SettledTimeline
  BY <1>1 DEF SettledTimeline
<1>4. SettledHistory' = SettledHistory
  BY <1>1 DEF SettledHistory, Times
<1>5. PartiesAgree'
  BY <1>1, <1>3, <1>4 DEF InStep, PartiesAgree
<1>6. QED
  BY <1>2, <1>5 DEF InStep

LEMMA RollbackInStep ==
  ASSUME StoreInv, InStep, rollbackNationalHistory
  PROVE  InStep'
<1>1. /\ pc = "rollingBack" /\ UNCHANGED <<layer, halfApplied>>
      /\ \E f : rollback_staged(f) \/ rollback_commit(f)
      /\ Failed(kind) \/ UNCHANGED <<mode, pc, kind, candidate, nationalObservations>>
  BY DEF rollbackNationalHistory, loops, mutation, control
<1>2. awaitingExternalCommit = {}
  BY <1>1 DEF InStep, ProvisionalPhases
<1>3. reversible_commit' = {} /\ Times(retained') = SettledHistory
  <2>1. PICK f : rollback_staged(f) \/ rollback_commit(f)
    BY <1>1
  <2>2. CASE rollback_staged(f)
    <3>1. reversible_commit = {} /\ UNCHANGED <<retained, reversible_commit>>
      BY <2>2 DEF rollback_staged, StoreInv, HistoryInv
    <3>2. QED
      BY <3>1, SettledHistoryIs
  <2>3. CASE rollback_commit(f)
    <3>1. PICK r \in reversible_commit : retained' = r.retained
      BY <2>3 DEF rollback_commit
    <3>2. reversible_commit = {r} /\ reversible_commit' = {}
      BY <2>3, <3>1 DEF rollback_commit, StoreInv, HistoryInv, AtMostOne
    <3>3. QED
      BY <3>1, <3>2, SettledHistoryIs
  <2>4. QED
    BY <2>1, <2>2, <2>3
<1>4. CASE Failed(kind)
  BY <1>1, <1>2, <1>3, <1>4, FailedInStep
<1>5. CASE UNCHANGED <<mode, pc, kind, candidate, nationalObservations>>
  <2>1. ProvisionalPhases' /\ CandidateInStep' /\ TimelineInStep' /\ CommitIsKept'
    BY <1>1, <1>2, <1>3, <1>5
       DEF InStep, ProvisionalPhases, AtMostOne, CandidateInStep, TimelineInStep,
           CommitIsKept, layer
  <2>2. SettledTimeline' = SettledTimeline
    BY <1>1 DEF SettledTimeline, layer
  <2>3. SettledHistory' = SettledHistory
    BY <1>3 DEF SettledHistory, Times
  <2>4. PartiesAgree'
    BY <1>1, <1>5, <2>2, <2>3 DEF InStep, PartiesAgree
  <2>5. QED
    BY <2>1, <2>4 DEF InStep
<1>6. QED
  BY <1>1, <1>4, <1>5

LEMMA RolledBackInStep ==
  ASSUME InStep, recoverRolledBack
  PROVE  InStep'
<1>1. /\ pc = "rollingBack" /\ Failed(kind) /\ UNCHANGED <<layer, halfApplied>>
      /\ reversible_commit = {} /\ UNCHANGED <<retained, reversible_commit>>
  BY DEF recoverRolledBack, vars, store, control
<1>2. awaitingExternalCommit = {}
  BY <1>1 DEF InStep, ProvisionalPhases
<1>3. reversible_commit' = {} /\ Times(retained') = SettledHistory
  BY <1>1, SettledHistoryIs
<1>4. QED
  BY <1>1, <1>2, <1>3, FailedInStep

LEMMA SettlingCancelledEnds ==
  ASSUME InStep, settlingCancelled
  PROVE  Ended'
BY DEF settlingCancelled, Superseded, Ended, InStep, CommitIsKept, control, vars, store

(* What happens between mutations, or around the chain.                     *)
LEMMA AroundInStep ==
  ASSUME InStep,
         \/ nextStep \/ beginExclusiveLane \/ backfillCompletes \/ chainStops
         \/ supersede \/ cancelLane \/ teardown \/ observationPublished
         \/ UNCHANGED txVars
  PROVE  InStep'
<1>1. CASE nextStep \/ supersede \/ teardown \/ UNCHANGED txVars
  <2>1. Untouched /\ pc' = pc /\ mode' = mode
    BY <1>1 DEF nextStep, supersede, teardown, txVars, vars, store, loops, mutation,
                layer, control, Untouched
  <2>2. QED
    BY <2>1, UntouchedInStep
<1>2. CASE cancelLane \/ observationPublished
  <2>1. Untouched /\ pc' = pc /\ mode' = mode
    BY <1>2 DEF cancelLane, cancel, observationPublished, publish, store, loops, mutation,
                layer, control, Untouched
  <2>2. QED
    BY <2>1, UntouchedInStep
<1>3. CASE backfillCompletes \/ chainStops
  <2>1. /\ Untouched /\ pc = "idle" /\ pc' = "idle"
        /\ mode' = "stopped" \/ (mode = "backfill" /\ mode' = "polling")
    BY <1>3 DEF backfillCompletes, chainStops, vars, store, mutation, layer,
                control, Untouched
  <2>2. QED
    BY <2>1, TurnsInStep
<1>4. CASE beginExclusiveLane
  <2>1. mode = "closed" /\ mode' = "current"
    BY <1>4 DEF beginExclusiveLane
  <2>2. pc = "idle" /\ pc' = "idle" /\ Untouched
    BY <1>4, <2>1 DEF beginExclusiveLane, begin, store, mutation, layer, control, Untouched,
                      InStep, ProvisionalPhases
  <2>3. QED
    BY <2>1, <2>2, TurnsInStep
<1>5. QED
  BY <1>1, <1>2, <1>3, <1>4

-----------------------------------------------------------------------------
(* What ends the agreement stays: a mutation once disowned, and the end of  *)
(* the application.                                                         *)

LEMMA DisownedStays ==
  ASSUME disowned, [TransactionNext]_txVars
  PROVE  disowned'
BY DEF TransactionNext, ChainNext, EnvironmentNext, control, txVars,
       beginExclusiveLane, nextStep, backfillCompletes, chainStops, prepare,
       retryableStagedPreparation, prepareRefused, prepareAcquires, prepareAnswered,
       prepareLost, prepareFails, commitStagedResidency, commitStagedResidencyThrows,
       uploadFails, commit,
       commitRefused, commitAnswered, commitFails, finalizeHistoryMutation,
       finalizeRefused, finalizeNationalHistory, recoverFinalized,
       publishNationalHistory, publishSuperseded, waitForAuthoritativeReceiptFails,
       rollbackHistoryMutation, rollbackNationalHistory, recoverRolledBack,
       settlingCancelled, beginRecovery, supersede, cancelLane, teardown,
       observationPublished

LEMMA EndedStays ==
  ASSUME Ended, [TransactionNext]_txVars
  PROVE  Ended'
<1>1. mode = "stopped" /\ pc = "idle" /\ cancelled
  BY DEF Ended
<1>2. ~ChainNext
  BY <1>1 DEF ChainNext, Wanted,
       beginExclusiveLane, nextStep, backfillCompletes, chainStops, prepare,
       retryableStagedPreparation, prepareRefused, prepareAcquires, prepareAnswered,
       prepareLost, prepareFails, commitStagedResidency, commitStagedResidencyThrows,
       uploadFails, commit,
       commitRefused, commitAnswered, commitFails, finalizeHistoryMutation,
       finalizeRefused, finalizeNationalHistory, recoverFinalized,
       publishNationalHistory, publishSuperseded, waitForAuthoritativeReceiptFails,
       rollbackHistoryMutation, rollbackNationalHistory, recoverRolledBack,
       settlingCancelled
<1>3. EnvironmentNext \/ UNCHANGED txVars
  BY <1>2 DEF TransactionNext
<1>4. UNCHANGED <<mode, pc, cancelled, retained, reversible_commit>>
  BY <1>1, <1>3
     DEF EnvironmentNext, beginRecovery, supersede, cancelLane, cancel, teardown,
         observationPublished, publish, txVars, vars, store, loops, mutation, control
<1>5. QED
  BY <1>4 DEF Ended, CommitIsKept

LEMMA TransactionInvInit == TransactionInit => TransactionInv
<1> SUFFICES ASSUME TransactionInit PROVE TransactionInv
  OBVIOUS
<1>1. /\ pc = "idle" /\ mode = "closed" /\ nationalObservations = <<>>
      /\ timeline = <<>> /\ awaitingExternalCommit = {}
      /\ ~halfApplied /\ retained = <<>> /\ reversible_commit = {}
  BY DEF TransactionInit, Init
<1>2. SettledTimeline = <<>> /\ SettledHistory = <<>>
  BY <1>1, SettledTimelineIs, SettledHistoryIs DEF Times
<1>3. ProvisionalPhases /\ CandidateInStep /\ TimelineInStep /\ CommitIsKept
  BY <1>1 DEF ProvisionalPhases, AtMostOne, CandidateInStep, TimelineInStep, CommitIsKept
<1>4. PartiesAgree
  BY <1>1, <1>2 DEF PartiesAgree
<1>5. QED
  BY <1>3, <1>4 DEF TransactionInv, InStep

LEMMA InStepStep ==
  ASSUME StoreInv, InStep, [TransactionNext]_txVars
  PROVE  TransactionInv'
<1>1. ASSUME NEW k \in Kind, prepare(k)
      PROVE  InStep'
  BY <1>1, PrepareInStep
<1>2. ASSUME NEW k \in Kind, retryableStagedPreparation(k)
      PROVE  InStep'
  BY <1>2, RetryableInStep
<1>3. CASE (\E k \in Kind : prepareRefused(k)) \/ prepareLost \/ prepareFails
  BY <1>3, PrepareFailsInStep DEF TransactionInv
<1>4. CASE prepareAcquires \/ prepareAnswered
  BY <1>4, AcquiresInStep, AnsweredInStep DEF TransactionInv
<1>5. CASE commitStagedResidency \/ commit
  BY <1>5, PaintInStep, CommitInStep DEF TransactionInv
<1>6. CASE commitStagedResidencyThrows \/ uploadFails \/ commitRefused \/ finalizeRefused
  BY <1>6, RefusedInStep, ThrowInStep DEF TransactionInv
<1>7. CASE commitAnswered \/ commitFails
  BY <1>7, AnsweredCommitInStep, FailedCommitInStep DEF TransactionInv
<1>8. CASE finalizeHistoryMutation \/ finalizeNationalHistory \/ recoverFinalized
  BY <1>8, FinalizeInStep, SealInStep DEF TransactionInv
<1>9. CASE publishNationalHistory \/ publishSuperseded
  BY <1>9, PublishInStep DEF TransactionInv
<1>10. CASE waitForAuthoritativeReceiptFails
  BY <1>10 DEF waitForAuthoritativeReceiptFails, TransactionInv
<1>11. CASE rollbackHistoryMutation \/ rollbackNationalHistory \/ recoverRolledBack
  BY <1>11, TakeBackInStep, RollbackInStep, RolledBackInStep DEF TransactionInv
<1>12. CASE settlingCancelled
  BY <1>12, SettlingCancelledEnds DEF TransactionInv
<1>13. CASE beginRecovery
  BY <1>13, RecoveryInStep DEF TransactionInv
<1>14. CASE \/ nextStep \/ beginExclusiveLane \/ backfillCompletes \/ chainStops
            \/ supersede \/ cancelLane \/ teardown \/ observationPublished
            \/ UNCHANGED txVars
  BY <1>14, AroundInStep DEF TransactionInv
<1>15. QED
  BY <1>1, <1>2, <1>3, <1>4, <1>5, <1>6, <1>7, <1>8, <1>9, <1>10, <1>11, <1>12, <1>13,
     <1>14 DEF TransactionNext, ChainNext, EnvironmentNext, TransactionInv

LEMMA TransactionInvariant == TransactionSpec => [](StoreInv /\ TransactionInv)
<1>1. StoreInv /\ TransactionInv /\ [TransactionNext]_txVars => TransactionInv'
  BY DisownedStays, EndedStays, InStepStep DEF TransactionInv
<1>2. QED
  BY <1>1, TransactionInvInit, StoreInvariant, PTL DEF TransactionSpec

(* Renderer, store and application always fall back to the same history:    *)
(* whichever answers are lost, whenever the context is lost or the          *)
(* generation superseded, what acquireAndPaint and                          *)
(* commitNationalHistoryMutation in src/App.tsx take back leaves them with  *)
(* one history, unless a sealed mutation was counted as failed or the       *)
(* application ended.  The renderer alone may be ahead from a commit that   *)
(* threw after a lost context (commitStagedResidency in                     *)
(* NationalGridLayer.ts) to the next mutation that becomes final, and then  *)
(* application and store still agree.                                       *)
THEOREM HistoriesFallBackTogether == TransactionSpec => []SettledHistoriesAgree
<1>1. TransactionInv => SettledHistoriesAgree
  BY DEF TransactionInv, Ended, InStep, PartiesAgree, SettledHistoriesAgree
<1>2. QED
  BY <1>1, TransactionInvariant, PTL

(* A commit keeps the observation it adds: a predecessor reaches the store  *)
(* only if the renderer has room for one more, so the limit the store trims *)
(* to never takes the predecessor itself (HistoryStore::commit_staged).     *)
THEOREM CommitKeeps == TransactionSpec => []CommitKeepsItsObservation
<1>1. TransactionInv => CommitKeepsItsObservation
  BY DEF TransactionInv, Ended, InStep, CommitIsKept, CommitKeepsItsObservation
<1>2. QED
  BY <1>1, TransactionInvariant, PTL

-----------------------------------------------------------------------------
(* What the client asserts of the answers.  The candidates leave room for   *)
(* the current observation, also those a rollback would restore; the one    *)
(* command the chain has under way is that of its mutation; what is staged, *)
(* or will be, is none of the retained observations; and the current        *)
(* observation is asked for with nothing staged.                            *)

CandidatesShort ==
  /\ Len(backfill_candidates) < HISTORY_LIMIT
  /\ \A r \in reversible_commit : Len(r.backfill_candidates) < HISTORY_LIMIT

CommandInStep ==
  \A work \in running[chain] :
     \/ pc = "preparing" /\ work.kind = kind
     \/ pc = "committing" /\ work.kind = "commit"

StagedApart == \A s \in staged : \A i \in 1 .. Len(retained) : retained[i] # s.frame

(* Of the time that a preparation under way has seen.                       *)
SeenApart(work, frames) ==
  \A t \in work.seen : \A i \in 1 .. Len(frames) :
     /\ work.kind = "predecessor" => t < frames[i].time
     /\ work.kind = "newer" => frames[i].time <= t

WorkApart == \A work \in running[chain] : SeenApart(work, retained)

FirstIsFresh ==
  /\ mode = "closed" => pc = "idle"
  /\ mode \in {"closed", "current"} /\ pc \in {"idle", "preparing"} => staged = {}

AnswersInv == CandidatesShort /\ CommandInStep /\ StagedApart /\ WorkApart /\ FirstIsFresh

LEMMA CandidatesShortStep ==
  ASSUME TypeOK, WorkSound, CandidatesShort, [Next]_vars
  PROVE  CandidatesShort'
<1>1. CASE StoreUntouched
  BY <1>1 DEF CandidatesShort, StoreUntouched
<1>2. ASSUME NEW c \in Command, stage_current(c)
      PROVE  CandidatesShort'
  <2>1. PICK work \in running[c] :
           backfill_candidates' = work.backfill_candidates /\ reversible_commit' = {}
    BY <1>2 DEF stage_current
  <2>2. Len(work.backfill_candidates) < HISTORY_LIMIT
    BY DEF WorkSound, Sound
  <2>3. QED
    BY <2>1, <2>2 DEF CandidatesShort
<1>3. ASSUME NEW c \in Command, stage(c) \/ cache_presentation(c)
      PROVE  CandidatesShort'
  BY <1>3 DEF stage, cache_presentation, CandidatesShort
<1>4. ASSUME NEW c \in Command, commit_staged(c)
      PROVE  CandidatesShort'
  <2>1. PICK s \in staged :
           /\ reversible_commit' = {[observation |-> s.frame, retained |-> retained,
                                     backfill_candidates |-> backfill_candidates,
                                     detail |-> detail]}
           /\ backfill_candidates' = IF Consumed(s) THEN Tail(backfill_candidates)
                                                    ELSE backfill_candidates
    BY <1>4 DEF commit_staged
  <2>2. \A r \in reversible_commit' : r.backfill_candidates = backfill_candidates
    BY <2>1
  <2>3. Len(backfill_candidates') <= Len(backfill_candidates)
    <3>1. backfill_candidates \in Seq(Time)
      BY DEF TypeOK
    <3>2. CASE Consumed(s)
      <4>1. backfill_candidates # <<>>
        BY <3>2 DEF Consumed
      <4>2. Len(Tail(backfill_candidates)) = Len(backfill_candidates) - 1
        BY <3>1, <4>1, HeadTailProperties
      <4>3. QED
        BY <2>1, <3>1, <3>2, <4>2
    <3>3. CASE ~Consumed(s)
      BY <2>1, <3>1, <3>3
    <3>4. QED
      BY <3>2, <3>3
  <2>4. Len(backfill_candidates) \in Nat /\ Len(backfill_candidates') \in Int
    <3>1. backfill_candidates \in Seq(Time)
      BY DEF TypeOK
    <3>2. Consumed(s) => Tail(backfill_candidates) \in Seq(Time)
      BY <3>1 DEF Consumed
    <3>3. backfill_candidates' \in Seq(Time)
      BY <2>1, <3>1, <3>2
    <3>4. QED
      BY <3>1, <3>3
  <2>5. QED
    BY <2>2, <2>3, <2>4, LimitAssumption DEF CandidatesShort
<1>5. ASSUME NEW f \in Frame, finalize_commit(f) \/ rollback_staged(f)
      PROVE  CandidatesShort'
  BY <1>5 DEF finalize_commit, rollback_staged, CandidatesShort
<1>6. ASSUME NEW f \in Frame, rollback_commit(f)
      PROVE  CandidatesShort'
  BY <1>6 DEF rollback_commit, CandidatesShort
<1>7. QED
  BY <1>1, <1>2, <1>3, <1>4, <1>5, <1>6, StoreSteps

(* What a step of the transaction does to the command of the chain.         *)
LEMMA CommandSteps ==
  ASSUME TypeOK, CommandInStep, [TransactionNext]_txVars
  PROVE  \/ running'[chain] = {}
         \/ running' = running /\ UNCHANGED <<pc, kind>>
         \/ \E k \in Kind : prepare(k)
         \/ prepareAcquires
         \/ commit
<1>1. CASE \/ prepareAnswered \/ prepareLost \/ prepareFails \/ commitAnswered \/ commitFails
  <2>1. running' = [running EXCEPT ![chain] = {}]
    BY <1>1 DEF prepareAnswered, prepareLost, prepareFails, commitAnswered, commitFails,
                stage_current, stage, commit_staged, command_fails
  <2>2. QED
    BY <2>1, ChainIsCommand DEF TypeOK
<1>2. CASE \/ beginExclusiveLane \/ nextStep \/ backfillCompletes \/ chainStops
           \/ beginRecovery \/ supersede \/ cancelLane \/ teardown \/ observationPublished
           \/ UNCHANGED txVars
  BY <1>2 DEF beginExclusiveLane, begin, nextStep, backfillCompletes, chainStops,
              beginRecovery, supersede, cancelLane, cancel, teardown, observationPublished,
              publish, txVars, vars, mutation
<1>3. CASE \/ \E k \in Kind : retryableStagedPreparation(k) \/ prepareRefused(k)
           \/ commitStagedResidency \/ commitStagedResidencyThrows
           \/ uploadFails \/ commitRefused
           \/ finalizeHistoryMutation \/ finalizeRefused \/ finalizeNationalHistory
           \/ recoverFinalized \/ publishNationalHistory \/ publishSuperseded
           \/ waitForAuthoritativeReceiptFails \/ rollbackHistoryMutation
           \/ rollbackNationalHistory \/ recoverRolledBack \/ settlingCancelled
  <2>1. pc \notin {"preparing", "committing"}
    BY <1>3 DEF retryableStagedPreparation, prepareRefused, commitStagedResidency,
                commitStagedResidencyThrows, uploadFails, commitRefused, finalizeHistoryMutation, finalizeRefused,
                finalizeNationalHistory, recoverFinalized, publishNationalHistory,
                publishSuperseded, waitForAuthoritativeReceiptFails,
                rollbackHistoryMutation, rollbackNationalHistory, recoverRolledBack,
                settlingCancelled
  <2>2. running' = running
    BY <1>3 DEF retryableStagedPreparation, prepareRefused, commitStagedResidency,
                commitStagedResidencyThrows, uploadFails, commitRefused, finalizeHistoryMutation, finalizeRefused,
                finalizeNationalHistory, finalize_commit, recoverFinalized,
                publishNationalHistory, publishSuperseded,
                waitForAuthoritativeReceiptFails, rollbackHistoryMutation,
                rollbackNationalHistory, rollback_staged, rollback_commit,
                recoverRolledBack, settlingCancelled, vars
  <2>3. QED
    BY <2>1, <2>2 DEF CommandInStep
<1>4. QED
  BY <1>1, <1>2, <1>3 DEF TransactionNext, ChainNext, EnvironmentNext

(* The command a preparation starts, and the time it has seen.              *)
LEMMA PrepareStarts ==
  ASSUME StoreInv, NEW k \in Kind, prepare(k)
  PROVE  \E work : running'[chain] = {work} /\ work.kind = k /\ SeenApart(work, retained)
<1>1. TypeOK /\ InOrder(retained)
  BY DEF StoreInv, HistoryInv, Kept
<1>2. ASSUME NEW token, NEW seen, Start(chain, Preparation(k, token, seen)),
             \A t \in seen : \A i \in 1 .. Len(retained) :
               /\ k = "predecessor" => t < retained[i].time
               /\ k = "newer" => retained[i].time <= t
      PROVE  \E work : running'[chain] = {work} /\ work.kind = k /\ SeenApart(work, retained)
  <2> DEFINE w == Preparation(k, token, seen)
  <2>1. running'[chain] = {w}
    BY <1>1, <1>2, ChainIsCommand, Starting
  <2>2. w.kind = k /\ w.seen = seen
    BY DEF Preparation
  <2> HIDE DEF w
  <2>3. SeenApart(w, retained)
    BY <1>2, <2>2 DEF SeenApart
  <2>4. QED
    BY <2>1, <2>2, <2>3
<1>3. CASE k = "current"
  <2>1. PICK token : Start(chain, Preparation(k, token, {}))
    BY <1>3 DEF prepare, prepare_current
  <2>2. QED
    BY <1>2, <2>1
<1>4. CASE k = "predecessor"
  <2>1. /\ retained # <<>> /\ Head(backfill_candidates) < Head(retained).time
        /\ \E token \in live :
             Start(chain, Preparation(k, token, {Head(backfill_candidates)}))
        /\ backfill_candidates # <<>>
    BY <1>4 DEF prepare, prepare_predecessor
  <2>2. \A i \in 1 .. Len(retained) : Head(backfill_candidates) < retained[i].time
    <3> SUFFICES ASSUME NEW i \in 1 .. Len(retained)
                 PROVE  Head(backfill_candidates) < retained[i].time
      OBVIOUS
    <3>1. 1 \in 1 .. Len(retained) /\ Head(retained) = retained[1]
      BY <1>1, <2>1, RetainedFrames, Ends
    <3>2. i = 1 \/ retained[1].time < retained[i].time
      BY <1>1, <3>1, RetainedFrames DEF InOrder
    <3>3. Head(backfill_candidates) \in Int
      <4>1. backfill_candidates \in Seq(Time)
        BY <1>1 DEF TypeOK
      <4>2. Head(backfill_candidates) \in Time
        BY <2>1, <4>1
      <4>3. QED
        BY <4>2 DEF Time
    <3>4. retained[1].time \in Int /\ retained[i].time \in Int
      BY <1>1, <3>1, RetainedFrames
    <3>5. QED
      BY <2>1, <3>1, <3>2, <3>3, <3>4
  <2>3. QED
    BY <1>2, <1>4, <2>1, <2>2
<1>5. CASE k = "newer"
  <2>1. /\ retained # <<>>
        /\ \E token \in live : Start(chain, Preparation(k, token, {Last(retained).time}))
    BY <1>5 DEF prepare, prepare_newer
  <2>2. \A i \in 1 .. Len(retained) : retained[i].time <= Last(retained).time
    <3> SUFFICES ASSUME NEW i \in 1 .. Len(retained)
                 PROVE  retained[i].time <= Last(retained).time
      OBVIOUS
    <3>1. Len(retained) \in 1 .. Len(retained) /\ Last(retained) = retained[Len(retained)]
      BY <1>1, <2>1, RetainedFrames, Ends
    <3>2. i = Len(retained) \/ retained[i].time < retained[Len(retained)].time
      BY <1>1, <3>1, RetainedFrames DEF InOrder
    <3>3. retained[Len(retained)].time \in Int /\ retained[i].time \in Int
      BY <1>1, <3>1, RetainedFrames
    <3>4. QED
      BY <3>1, <3>2, <3>3
  <2>3. QED
    BY <1>2, <1>5, <2>1, <2>2
<1>6. QED
  BY <1>3, <1>4, <1>5 DEF Kind

LEMMA CommitStarts ==
  ASSUME StoreInv, commit
  PROVE  \E work : running'[chain] = {work} /\ work.kind = "commit"
<1>1. PICK f, token :
         Start(chain, [kind |-> "commit", token |-> token, seen |-> {}, frame |-> {f},
                       backfill_candidates |-> <<>>])
  BY DEF commit, commit_national_history_frame
<1>2. QED
  BY <1>1, ChainIsCommand, Starting DEF StoreInv, HistoryInv

LEMMA CommandStaysInStep ==
  ASSUME StoreInv, CommandInStep, [TransactionNext]_txVars
  PROVE  CommandInStep'
<1>1. TypeOK
  BY DEF StoreInv, HistoryInv
<1>2. CASE running'[chain] = {}
  BY <1>2 DEF CommandInStep
<1>3. CASE running' = running /\ UNCHANGED <<pc, kind>>
  BY <1>3 DEF CommandInStep
<1>4. ASSUME NEW k \in Kind, prepare(k)
      PROVE  CommandInStep'
  <2>1. pc' = "preparing" /\ kind' = k
    BY <1>4 DEF prepare
  <2>2. \A work \in running'[chain] : work.kind = k
    BY <1>4, PrepareStarts
  <2>3. QED
    BY <2>1, <2>2 DEF CommandInStep
<1>5. CASE prepareAcquires
  <2>1. pc = "preparing" /\ UNCHANGED <<pc, kind>> /\ acquire_overview(chain)
    BY <1>5 DEF prepareAcquires, mutation
  <2>2. PICK work \in running[chain], acquired \in Work :
           running'[chain] = {acquired} /\ acquired.kind = work.kind
    BY <1>1, <2>1, ChainIsCommand, AcquireStep
  <2>3. QED
    BY <2>1, <2>2 DEF CommandInStep
<1>6. CASE commit
  <2>1. pc' = "committing"
    BY <1>6 DEF commit
  <2>2. \A work \in running'[chain] : work.kind = "commit"
    BY <1>6, CommitStarts
  <2>3. QED
    BY <2>1, <2>2 DEF CommandInStep
<1>7. QED
  BY <1>1, <1>2, <1>3, <1>4, <1>5, <1>6, CommandSteps

(* What a step of the transaction does to the retained and staged ones.     *)
LEMMA HistorySteps ==
  ASSUME StoreInv, CommandInStep, [TransactionNext]_txVars
  PROVE  \/ UNCHANGED <<retained, staged>>
         \/ staged' = {} /\ (retained' = retained \/ running'[chain] = {})
         \/ stage_current(chain)
         \/ stage(chain)
<1>1. TypeOK /\ \A f \in candidate : f \in Frame
  BY DEF StoreInv, HistoryInv, TransactionTypeOK
<1>2. CASE (\E k \in Kind : prepare(k)) \/ prepareAcquires \/ prepareFails \/ commit
  <2>1. StoreUntouched
    BY <1>1, <1>2, ChainIsCommand, OutsideTheStore
       DEF prepare, prepareAcquires, prepareFails, commit
  <2>2. QED
    BY <2>1 DEF StoreUntouched
<1>3. CASE prepareAnswered \/ prepareLost
  BY <1>3 DEF prepareAnswered, prepareLost
<1>4. CASE commitAnswered \/ commitFails
  <2>1. CASE commit_staged(chain)
    <3>1. staged' = {} /\ running' = [running EXCEPT ![chain] = {}]
      BY <2>1 DEF commit_staged
    <3>2. QED
      BY <1>1, <3>1, ChainIsCommand DEF TypeOK
  <2>2. CASE command_fails(chain)
    BY <2>2 DEF command_fails, store
  <2>3. QED
    BY <1>4, <2>1, <2>2 DEF commitAnswered, commitFails
<1>5. CASE finalizeNationalHistory
  BY <1>5 DEF finalizeNationalHistory, finalize_commit
<1>6. CASE rollbackNationalHistory
  <2>1. pc = "rollingBack" /\ \E f : rollback_staged(f) \/ rollback_commit(f)
    BY <1>6 DEF rollbackNationalHistory
  <2>2. running[chain] = {}
    BY <2>1 DEF CommandInStep
  <2>3. QED
    BY <2>1, <2>2 DEF rollback_staged, rollback_commit
<1>7. CASE beginExclusiveLane \/ cancelLane \/ observationPublished
  BY <1>7 DEF beginExclusiveLane, begin, cancelLane, cancel, observationPublished, publish,
              store
<1>8. CASE \/ \E k \in Kind : retryableStagedPreparation(k) \/ prepareRefused(k)
           \/ nextStep \/ backfillCompletes \/ chainStops
           \/ commitStagedResidency \/ commitStagedResidencyThrows
           \/ uploadFails \/ commitRefused
           \/ finalizeHistoryMutation \/ finalizeRefused \/ recoverFinalized
           \/ publishNationalHistory \/ publishSuperseded
           \/ waitForAuthoritativeReceiptFails \/ rollbackHistoryMutation
           \/ recoverRolledBack \/ settlingCancelled
           \/ beginRecovery \/ supersede \/ teardown \/ UNCHANGED txVars
  BY <1>8 DEF nextStep, backfillCompletes, chainStops, commitStagedResidency,
              commitStagedResidencyThrows, retryableStagedPreparation, prepareRefused, uploadFails, commitRefused,
              finalizeHistoryMutation, finalizeRefused, recoverFinalized,
              publishNationalHistory, publishSuperseded, waitForAuthoritativeReceiptFails,
              rollbackHistoryMutation, recoverRolledBack, settlingCancelled, beginRecovery,
              supersede, teardown, txVars, vars, store
<1>9. QED
  BY <1>2, <1>3, <1>4, <1>5, <1>6, <1>7, <1>8
     DEF TransactionNext, ChainNext, EnvironmentNext

(* What is staged by the command of the chain is none of those retained.    *)
LEMMA StagingApart ==
  ASSUME StoreInv, WorkApart, stage_current(chain) \/ stage(chain)
  PROVE  StagedApart' /\ WorkApart'
<1>1. TypeOK /\ WorkSound /\ SeriesInv
  BY DEF StoreInv, HistoryInv, DocumentInv
<1>2. running'[chain] = {}
  BY <1>1, ChainIsCommand DEF stage_current, stage, TypeOK
<1>3. WorkApart'
  BY <1>2 DEF WorkApart
<1>4. CASE stage_current(chain)
  <2>1. retained' = <<>>
    BY <1>4 DEF stage_current
  <2>2. QED
    BY <1>3, <2>1 DEF StagedApart
<1>5. CASE stage(chain)
  <2>1. PICK work \in running[chain] : \E f \in work.frame :
           /\ work.kind \in {"predecessor", "newer"} /\ generation = f.generation
           /\ staged' = {[kind |-> work.kind, frame |-> f]} /\ retained' = retained
    BY <1>5 DEF stage
  <2>2. PICK f \in work.frame :
           generation = f.generation /\ staged' = {[kind |-> work.kind, frame |-> f]}
    BY <2>1
  <2>3. Sound(work) /\ work \in Work
    BY <1>1, ChainIsCommand DEF WorkSound, TypeOK
  <2>4. Mine(work)
    BY <2>1, <2>2, <2>3 DEF Sound, Mine, Kind
  <2>5. work.seen # {} /\ work.seen \subseteq Int /\ f.time \in Int
    BY <1>1, <2>3, <2>4, ChainIsCommand
       DEF SeriesInv, WorkMeetsNoExact, Work, Time, Frame
  <2>6. ASSUME NEW i \in 1 .. Len(retained)
        PROVE  retained[i] # f
    <3>1. retained[i].time \in Int
      BY <1>1, RetainedFrames
    <3>2. CASE work.kind = "predecessor"
      BY <2>3, <2>5, <2>6, <3>1, <3>2 DEF Sound, WorkApart, SeenApart
    <3>3. CASE work.kind = "newer"
      BY <2>3, <2>5, <2>6, <3>1, <3>3 DEF Sound, WorkApart, SeenApart
    <3>4. QED
      BY <2>1, <3>2, <3>3
  <2>7. \A s \in staged' : s.frame = f
    BY <2>2
  <2>8. QED
    BY <1>3, <2>1, <2>6, <2>7 DEF StagedApart
<1>6. QED
  BY <1>3, <1>4, <1>5

LEMMA StaysApart ==
  ASSUME StoreInv, CommandInStep, StagedApart, WorkApart, [TransactionNext]_txVars
  PROVE  StagedApart' /\ WorkApart'
<1>1. TypeOK
  BY DEF StoreInv, HistoryInv
<1>2. CASE stage_current(chain) \/ stage(chain)
  BY <1>2, StagingApart
<1>3. CASE ~(stage_current(chain) \/ stage(chain))
  <2>1. \/ UNCHANGED <<retained, staged>>
        \/ staged' = {} /\ (retained' = retained \/ running'[chain] = {})
    BY <1>3, HistorySteps
  <2>2. StagedApart'
    BY <2>1 DEF StagedApart
  <2>3. CASE running'[chain] = {}
    BY <2>2, <2>3 DEF WorkApart
  <2>4. CASE running'[chain] # {}
    <3>1. retained' = retained
      BY <2>1, <2>4
    <3>2. \A work \in running'[chain] : SeenApart(work, retained)
      <4>1. CASE running' = running
        BY <4>1 DEF WorkApart
      <4>2. ASSUME NEW k \in Kind, prepare(k)
            PROVE  \A work \in running'[chain] : SeenApart(work, retained)
        BY <4>2, PrepareStarts
      <4>3. CASE prepareAcquires
        <5>1. PICK work \in running[chain], acquired \in Work :
                 /\ running'[chain] = {acquired}
                 /\ acquired.kind = work.kind /\ acquired.seen = work.seen
          BY <1>1, <4>3, ChainIsCommand, AcquireStep DEF prepareAcquires
        <5>2. SeenApart(acquired, retained)
          BY <5>1 DEF WorkApart, SeenApart
        <5>3. QED
          BY <5>1, <5>2
      <4>4. CASE commit
        <5>1. \A work \in running'[chain] : work.kind = "commit"
          BY <4>4, CommitStarts
        <5>2. QED
          BY <5>1 DEF SeenApart
      <4>5. QED
        BY <1>1, <2>4, <4>1, <4>2, <4>3, <4>4, CommandSteps
    <3>3. QED
      BY <2>2, <3>1, <3>2 DEF WorkApart
  <2>5. QED
    BY <2>3, <2>4
<1>4. QED
  BY <1>2, <1>3

LEMMA FirstStaysFresh ==
  ASSUME StoreInv, CommandInStep, FirstIsFresh, [TransactionNext]_txVars
  PROVE  FirstIsFresh'
<1>1. ASSUME mode' \notin {"closed", "current"}
      PROVE  FirstIsFresh'
  BY <1>1 DEF FirstIsFresh
<1>2. CASE \/ \E k \in Kind : prepareRefused(k)
           \/ prepareLost \/ prepareFails \/ waitForAuthoritativeReceiptFails
           \/ recoverRolledBack
  <2>1. \E k : Failed(k)
    BY <1>2 DEF prepareRefused, prepareLost, prepareFails, waitForAuthoritativeReceiptFails,
                recoverRolledBack
  <2>2. QED
    BY <1>1, <2>1, FailedEnds
<1>3. CASE publishNationalHistory
  BY <1>1, <1>3, SucceededEnds DEF publishNationalHistory
<1>4. CASE publishSuperseded \/ settlingCancelled \/ chainStops
  BY <1>1, <1>4 DEF publishSuperseded, settlingCancelled, chainStops, Superseded
<1>5. CASE backfillCompletes
  BY <1>1, <1>5 DEF backfillCompletes
<1>6. CASE \/ nextStep \/ supersede \/ teardown \/ cancelLane \/ observationPublished
           \/ beginRecovery \/ UNCHANGED txVars
  <2>1. UNCHANGED <<mode, pc, staged>>
    BY <1>6 DEF nextStep, supersede, teardown, cancelLane, cancel, observationPublished,
                publish, beginRecovery, txVars, vars, store, loops, mutation
  <2>2. QED
    BY <2>1 DEF FirstIsFresh
<1>7. CASE beginExclusiveLane
  <2>1. mode = "closed" /\ mode' = "current" /\ UNCHANGED <<pc, staged>>
    BY <1>7 DEF beginExclusiveLane, begin, store, mutation
  <2>2. QED
    BY <2>1 DEF FirstIsFresh
<1>8. ASSUME NEW k \in Kind, prepare(k) \/ retryableStagedPreparation(k)
      PROVE  FirstIsFresh'
  <2>1. pc = "idle" /\ mode' = mode /\ mode # "closed"
    BY <1>8 DEF prepare, retryableStagedPreparation, Wanted, loops
  <2>2. staged' = staged
    <3>1. CASE prepare(k)
      BY <3>1, ChainIsCommand, OutsideTheStore DEF prepare, StoreUntouched
    <3>2. CASE retryableStagedPreparation(k)
      BY <3>2 DEF retryableStagedPreparation, vars, store
    <3>3. QED
      BY <1>8, <3>1, <3>2
  <2>3. QED
    BY <2>1, <2>2 DEF FirstIsFresh
<1>9. CASE prepareAcquires
  <2>1. UNCHANGED <<mode, pc>> /\ acquire_overview(chain)
    BY <1>9 DEF prepareAcquires, loops, mutation
  <2>2. staged' = staged
    BY <2>1, ChainIsCommand, OutsideTheStore DEF StoreUntouched
  <2>3. QED
    BY <2>1, <2>2 DEF FirstIsFresh
<1>10. CASE \/ prepareAnswered \/ commitStagedResidency \/ commitStagedResidencyThrows
            \/ uploadFails \/ commit
            \/ commitRefused \/ commitAnswered \/ commitFails \/ finalizeHistoryMutation
            \/ finalizeRefused \/ finalizeNationalHistory \/ recoverFinalized
            \/ rollbackHistoryMutation
  <2>1. pc # "idle" /\ pc' \notin {"idle", "preparing"} /\ mode' = mode
    BY <1>10 DEF prepareAnswered, commitStagedResidency, commitStagedResidencyThrows,
                 uploadFails, commit, commitRefused,
                 commitAnswered, commitFails, finalizeHistoryMutation, finalizeRefused,
                 finalizeNationalHistory, recoverFinalized, rollbackHistoryMutation, loops
  <2>2. QED
    BY <2>1 DEF FirstIsFresh
<1>11. CASE rollbackNationalHistory
  <2>1. CASE Failed(kind)
    BY <1>1, <2>1, FailedEnds
  <2>2. CASE UNCHANGED <<loops, mutation, nationalObservations>>
    <3>1. pc = "rollingBack" /\ pc' = pc /\ mode' = mode
      BY <1>11, <2>2 DEF rollbackNationalHistory, loops, mutation
    <3>2. QED
      BY <3>1 DEF FirstIsFresh
  <2>3. QED
    BY <1>11, <2>1, <2>2 DEF rollbackNationalHistory
<1>12. QED
  BY <1>2, <1>3, <1>4, <1>5, <1>6, <1>7, <1>8, <1>9, <1>10, <1>11
     DEF TransactionNext, ChainNext, EnvironmentNext

LEMMA AnswersInvInit == TransactionInit => AnswersInv
<1> SUFFICES ASSUME TransactionInit PROVE AnswersInv
  OBVIOUS
<1>1. Init /\ mode = "closed" /\ pc = "idle"
  BY DEF TransactionInit
<1>2. CandidatesShort /\ StagedApart /\ FirstIsFresh
  BY <1>1, LimitAssumption DEF Init, CandidatesShort, StagedApart, FirstIsFresh
<1>3. CommandInStep /\ WorkApart
  BY <1>1, ChainIsCommand DEF Init, CommandInStep, WorkApart
<1>4. QED
  BY <1>2, <1>3 DEF AnswersInv

LEMMA AnswersInvStep ==
  ASSUME StoreInv, AnswersInv, [TransactionNext]_txVars
  PROVE  AnswersInv'
<1>1. TypeOK /\ TransactionTypeOK /\ WorkSound
  BY DEF StoreInv, HistoryInv, DocumentInv
<1>2. /\ CandidatesShort /\ CommandInStep /\ StagedApart /\ WorkApart /\ FirstIsFresh
  BY DEF AnswersInv
<1>3. CandidatesShort'
  BY <1>1, <1>2, StepOfStore, CandidatesShortStep
<1>4. CommandInStep' /\ StagedApart' /\ WorkApart' /\ FirstIsFresh'
  BY <1>2, CommandStaysInStep, StaysApart, FirstStaysFresh
<1>5. QED
  BY <1>3, <1>4 DEF AnswersInv

LEMMA AnswersInvariant == TransactionSpec => [](StoreInv /\ AnswersInv)
BY StoreInvInit, StoreInvStep, AnswersInvInit, AnswersInvStep, PTL DEF TransactionSpec

LEMMA SnapshotHolds ==
  ASSUME StoreInv, AnswersInv
  PROVE  assertNationalHistorySnapshot
<1>1. /\ TypeOK /\ InOrder(retained) /\ Len(retained) <= HISTORY_LIMIT
      /\ total_bytes <= BACKEND_TARGET /\ CandidatesShort /\ StagedApart
  BY DEF StoreInv, HistoryInv, DocumentInv, Kept, AnswersInv
<1>2. \A s \in staged : \A f \in ToSet(retained) : ~sameNationalHistoryIdentity(f, s.frame)
  BY <1>1 DEF StagedApart, ToSet, sameNationalHistoryIdentity
<1>3. QED
  BY <1>1, <1>2 DEF assertNationalHistorySnapshot, InOrder, CandidatesShort

LEMMA AnswersStep ==
  ASSUME StoreInv, AnswersInv, StoreInv', AnswersInv', [TransactionNext]_txVars
  PROVE  AnswersMatch
<1>1. assertNationalHistorySnapshot'
  BY SnapshotHolds, PTL
<1>2. ASSUME prepareAnswered
      PROVE  invokeNationalHistoryPreparation(FALSE)'
  <2>1. /\ pc = "preparing" /\ kind' = kind /\ candidate' = {s.frame : s \in staged'}
        /\ stage_current(chain) \/ stage(chain)
    BY <1>2 DEF prepareAnswered
  <2>2. PICK work \in running[chain] : \E f \in work.frame :
           staged' = {[kind |-> work.kind, frame |-> f]}
    BY <2>1 DEF stage_current, stage
  <2>3. work.kind = kind
    BY <2>1 DEF AnswersInv, CommandInStep
  <2>4. PICK s \in staged' : s.kind = kind' /\ \A f \in candidate' : s.frame = f
    BY <2>1, <2>2, <2>3
  <2>5. QED
    BY <1>1, <2>4 DEF invokeNationalHistoryPreparation, sameNationalHistoryIdentity
<1>3. ASSUME NEW k \in Kind, retryableStagedPreparation(k)
      PROVE  invokeNationalHistoryPreparation(TRUE)'
  <2>1. PICK s \in staged : s.kind = k /\ candidate' = {s.frame}
    BY <1>3 DEF retryableStagedPreparation
  <2>2. kind' = k /\ staged' = staged /\ pc = "idle" /\ Wanted(k)
    BY <1>3 DEF retryableStagedPreparation, vars, store
  <2>3. k # "current"
    BY <2>1, <2>2 DEF Wanted, AnswersInv, FirstIsFresh
  <2>4. QED
    BY <1>1, <2>1, <2>2, <2>3
       DEF invokeNationalHistoryPreparation, sameNationalHistoryIdentity
<1>4. ASSUME commitAnswered
      PROVE  commitNationalHistoryFrame'
  BY <1>1, <1>4 DEF commitAnswered, commit_staged, commitNationalHistoryFrame
<1>5. ASSUME finalizeNationalHistory
      PROVE  finalizeNationalHistoryFrame'
  BY <1>1, <1>5 DEF finalizeNationalHistory, finalize_commit, finalizeNationalHistoryFrame,
                    StoreInv, HistoryInv
<1>6. ASSUME rollbackNationalHistory
      PROVE  rollbackNationalHistoryFrame'
  BY <1>1, <1>6 DEF rollbackNationalHistory, rollback_staged, rollback_commit,
                    rollbackNationalHistoryFrame, StoreInv, HistoryInv
<1>7. QED
  BY <1>1, <1>2, <1>3, <1>4, <1>5, <1>6 DEF AnswersMatch

(* Every answer of the store, to whatever command of the chain and however  *)
(* often it is asked again, passes what the client asserts of it before     *)
(* anything is done with it (assertNationalHistorySnapshot and its callers  *)
(* in src/packed-sweep/transferClient.ts), also after a mutation that was   *)
(* disowned: no answer is refused and taken for a failed call.              *)
THEOREM AnswersHold == TransactionSpec => AnswersAreAccepted
<1>1. /\ StoreInv /\ AnswersInv /\ (StoreInv /\ AnswersInv)' /\ [TransactionNext]_txVars
        => [AnswersMatch]_txVars
  BY AnswersStep
<1>2. QED
  BY <1>1, AnswersInvariant, PTL DEF TransactionSpec, AnswersAreAccepted

-----------------------------------------------------------------------------
(* Settling a mutation.  Where its observation is at each await: staged,    *)
(* committed and not yet sealed, sealed, or gone from the store.            *)

CandidateStaged == candidate = {s.frame : s \in staged} /\ staged # {}

CandidateCommitted == staged = {} /\ \E r \in reversible_commit : candidate = {r.observation}

CandidateSealed ==
  reversible_commit = {} /\ candidate # {} /\ candidate \subseteq last_finalized_commit

CandidateGone ==
  staged = {} /\ reversible_commit = {} /\ \A f \in candidate : f \notin ToSet(retained)

MutationInStep ==
  /\ pc \in {"prepared", "painted", "committing"} => CandidateStaged
  /\ pc = "committed" => CandidateCommitted
  /\ pc = "sealing" => CandidateCommitted \/ CandidateSealed
  /\ pc \in {"failing", "rollingBack"} =>
       CandidateStaged \/ CandidateCommitted \/ CandidateGone

(* What is staged or committed is of the generation, and a commit was of    *)
(* none of those it may have to restore.                                    *)
OfGeneration ==
  /\ \A s \in staged : s.frame.generation = generation
  /\ \A r \in reversible_commit :
       r.observation.generation = generation /\ r.observation \notin ToSet(r.retained)

MutationInv == MutationInStep /\ OfGeneration

(* A seal or a rollback that is called for, and called again, always either *)
(* takes effect or is done: a repeated seal says so, or a snapshot proves it. *)
SettlingCanEnd ==
  /\ pc = "sealing" =>
       \/ \E f \in candidate : /\ generation = f.generation
                               /\ \E r \in reversible_commit : r.observation = f
       \/ reversible_commit = {} /\ candidate \cap last_finalized_commit # {}
  /\ pc = "rollingBack" =>
       \/ \E f \in candidate : /\ generation = f.generation
                               /\ \/ \E s \in staged : s.frame = f
                                  \/ staged = {} /\ \E r \in reversible_commit :
                                                      r.observation = f
       \/ CandidateGone

LEMMA OfGenerationStep ==
  ASSUME TypeOK, WorkSound, OfGeneration, [Next]_vars
  PROVE  OfGeneration'
<1>1. CASE StoreUntouched
  BY <1>1 DEF OfGeneration, StoreUntouched
<1>2. ASSUME NEW c \in Command, stage_current(c)
      PROVE  OfGeneration'
  <2>1. PICK work \in running[c] : \E f \in work.frame :
           /\ work.kind = "current" /\ generation' = work.token.generation
           /\ staged' = {[kind |-> "current", frame |-> f]} /\ reversible_commit' = {}
    BY <1>2 DEF stage_current
  <2>2. \A f \in work.frame : f.generation = work.token.generation
    BY <2>1 DEF WorkSound, Sound, Kind
  <2>3. QED
    BY <2>1, <2>2 DEF OfGeneration
<1>3. ASSUME NEW c \in Command, stage(c)
      PROVE  OfGeneration'
  <2>1. PICK work \in running[c] : \E f \in work.frame :
           /\ generation = f.generation /\ generation' = generation
           /\ staged' = {[kind |-> work.kind, frame |-> f]}
           /\ reversible_commit' = reversible_commit
    BY <1>3 DEF stage
  <2>2. \A s \in staged' : s.frame.generation = generation'
    BY <2>1
  <2>3. QED
    BY <2>1, <2>2 DEF OfGeneration
<1>4. ASSUME NEW c \in Command, commit_staged(c)
      PROVE  OfGeneration'
  <2>1. PICK s \in staged :
           /\ \A i \in 1 .. Len(retained) : retained[i].time # s.frame.time
           /\ reversible_commit' = {[observation |-> s.frame, retained |-> retained,
                                     backfill_candidates |-> backfill_candidates,
                                     detail |-> detail]}
           /\ staged' = {} /\ generation' = generation
    BY <1>4 DEF commit_staged
  <2>2. s.frame \notin ToSet(retained)
    BY <2>1, RetainedFrames DEF ToSet
  <2>3. s.frame.generation = generation
    BY DEF OfGeneration
  <2>4. \A r \in reversible_commit' : r.observation = s.frame /\ r.retained = retained
    BY <2>1
  <2>5. QED
    <3>1. \A r \in reversible_commit' : /\ r.observation.generation = generation'
                                       /\ r.observation \notin ToSet(r.retained)
      BY <2>1, <2>2, <2>3, <2>4
    <3>2. QED
      BY <2>1, <3>1 DEF OfGeneration
<1>5. ASSUME NEW c \in Command, cache_presentation(c)
      PROVE  OfGeneration'
  BY <1>5 DEF cache_presentation, OfGeneration
<1>6. ASSUME NEW f \in Frame, finalize_commit(f) \/ rollback_staged(f) \/ rollback_commit(f)
      PROVE  OfGeneration'
  BY <1>6 DEF finalize_commit, rollback_staged, rollback_commit, OfGeneration
<1>7. QED
  BY <1>1, <1>2, <1>3, <1>4, <1>5, <1>6, StoreSteps

(* Nothing of it changes, or the mutation is over or has not begun.         *)
LEMMA MutationUntouched ==
  ASSUME MutationInStep,
         \/ UNCHANGED <<pc, candidate, retained, staged, reversible_commit,
                        last_finalized_commit>>
         \/ pc' \in {"idle", "preparing", "sealed"}
  PROVE  MutationInStep'
BY DEF MutationInStep, CandidateStaged, CandidateCommitted, CandidateSealed, CandidateGone

LEMMA CommitCarries ==
  ASSUME StoreInv, CandidateStaged, commit_staged(chain), candidate' = candidate
  PROVE  CandidateCommitted'
<1>1. PICK s \in staged : staged' = {} /\ \E r : reversible_commit' = {r} /\ r.observation = s.frame
  BY CommitTakes
<1>2. candidate = {s.frame}
  BY DEF CandidateStaged, StoreInv, HistoryInv, AtMostOne
<1>3. QED
  BY <1>1, <1>2 DEF CandidateCommitted

LEMMA RollbackLeavesNothing ==
  ASSUME StoreInv, StagedApart, OfGeneration,
         CandidateStaged \/ CandidateCommitted \/ CandidateGone,
         NEW f \in candidate, rollback_staged(f) \/ rollback_commit(f),
         candidate' = candidate
  PROVE  CandidateGone'
<1>1. /\ AtMostOne(staged) /\ AtMostOne(reversible_commit)
      /\ staged # {} => reversible_commit = {}
  BY DEF StoreInv, HistoryInv
<1>2. CASE rollback_staged(f)
  <2>1. PICK s \in staged : s.frame = f
    BY <1>2 DEF rollback_staged
  <2>2. staged' = {} /\ UNCHANGED <<retained, reversible_commit>>
    BY <1>2 DEF rollback_staged
  <2>3. candidate = {f} /\ reversible_commit = {}
    BY <1>1, <2>1 DEF CandidateStaged, CandidateCommitted, CandidateGone, AtMostOne
  <2>4. f \notin ToSet(retained)
    BY <2>1 DEF StagedApart, ToSet
  <2>5. QED
    BY <2>2, <2>3, <2>4 DEF CandidateGone, ToSet
<1>3. CASE rollback_commit(f)
  <2>1. PICK r \in reversible_commit : r.observation = f /\ retained' = r.retained
    BY <1>3 DEF rollback_commit
  <2>2. staged = {} /\ staged' = {} /\ reversible_commit' = {}
    BY <1>3 DEF rollback_commit
  <2>3. candidate = {f}
    BY <1>1, <2>1, <2>2 DEF CandidateStaged, CandidateCommitted, CandidateGone, AtMostOne
  <2>4. f \notin ToSet(r.retained)
    BY <2>1 DEF OfGeneration
  <2>5. QED
    BY <2>1, <2>2, <2>3, <2>4 DEF CandidateGone, ToSet
<1>4. QED
  BY <1>2, <1>3

LEMMA MutationStaysInStep ==
  ASSUME StoreInv, AnswersInv, MutationInv, [TransactionNext]_txVars
  PROVE  MutationInStep'
<1>1. MutationInStep /\ OfGeneration /\ StagedApart
  BY DEF MutationInv, AnswersInv
<1>2. CASE \/ nextStep \/ beginExclusiveLane \/ backfillCompletes \/ chainStops
           \/ supersede \/ teardown \/ cancelLane \/ observationPublished \/ beginRecovery
           \/ UNCHANGED txVars
  <2>1. UNCHANGED <<pc, candidate, retained, staged, reversible_commit, last_finalized_commit>>
    BY <1>2 DEF nextStep, beginExclusiveLane, begin, backfillCompletes, chainStops, supersede,
                teardown, cancelLane, cancel, observationPublished, publish, beginRecovery,
                txVars, vars, store, mutation
  <2>2. QED
    BY <1>1, <2>1, MutationUntouched
<1>3. CASE prepareAcquires
  <2>1. UNCHANGED <<pc, candidate>> /\ acquire_overview(chain)
    BY <1>3 DEF prepareAcquires, mutation
  <2>2. StoreUntouched
    BY <2>1, ChainIsCommand, OutsideTheStore
  <2>3. QED
    BY <1>1, <2>1, <2>2, MutationUntouched DEF StoreUntouched
<1>4. CASE \/ \E k \in Kind : prepare(k) \/ prepareRefused(k)
           \/ prepareLost \/ prepareFails \/ recoverFinalized
           \/ publishNationalHistory \/ publishSuperseded
           \/ waitForAuthoritativeReceiptFails \/ recoverRolledBack \/ settlingCancelled
  <2>1. pc' \in {"idle", "preparing", "sealed"}
    BY <1>4, FailedEnds, SucceededEnds
       DEF prepare, prepareRefused, prepareLost, prepareFails, recoverFinalized,
           publishNationalHistory, publishSuperseded, Superseded,
           waitForAuthoritativeReceiptFails, recoverRolledBack, settlingCancelled
  <2>2. QED
    BY <1>1, <2>1, MutationUntouched
<1>5. CASE prepareAnswered
  <2>1. pc' = "prepared" /\ candidate' = {s.frame : s \in staged'} /\ staged' # {}
    BY <1>5 DEF prepareAnswered, stage_current, stage
  <2>2. QED
    BY <2>1 DEF MutationInStep, CandidateStaged
<1>6. ASSUME NEW k \in Kind, retryableStagedPreparation(k)
      PROVE  MutationInStep'
  <2>1. PICK s \in staged : candidate' = {s.frame}
    BY <1>6 DEF retryableStagedPreparation
  <2>2. pc' = "prepared" /\ staged' = staged
    BY <1>6 DEF retryableStagedPreparation, vars, store
  <2>3. \A q \in staged : q = s
    BY DEF StoreInv, HistoryInv, AtMostOne
  <2>4. QED
    BY <2>1, <2>2, <2>3 DEF MutationInStep, CandidateStaged
<1>7. CASE \/ commitStagedResidency \/ commitStagedResidencyThrows
           \/ uploadFails \/ commit \/ commitRefused
  <2>1. /\ pc \in {"prepared", "painted"} /\ pc' \in {"painted", "committing", "failing"}
        /\ candidate' = candidate
    BY <1>7 DEF commitStagedResidency, commitStagedResidencyThrows, uploadFails, commit,
                commitRefused
  <2>2. staged' = staged
    <3>1. CASE commit
      <4>1. \E f \in Frame : commit_national_history_frame(chain, f)
        BY <3>1 DEF commit, StoreInv, TransactionTypeOK
      <4>2. QED
        BY <4>1, ChainIsCommand, OutsideTheStore DEF StoreUntouched
    <3>2. CASE \/ commitStagedResidency \/ commitStagedResidencyThrows
               \/ uploadFails \/ commitRefused
      BY <3>2 DEF commitStagedResidency, commitStagedResidencyThrows, uploadFails,
                  commitRefused, vars, store
    <3>3. QED
      BY <1>7, <3>1, <3>2
  <2>3. CandidateStaged'
    BY <1>1, <2>1, <2>2 DEF MutationInStep, CandidateStaged
  <2>4. QED
    BY <2>1, <2>3 DEF MutationInStep
<1>8. CASE commitAnswered \/ commitFails
  <2>1. /\ pc = "committing" /\ candidate' = candidate
        /\ \/ pc' \in {"committed", "failing"} /\ commit_staged(chain)
           \/ pc' = "failing" /\ command_fails(chain)
    BY <1>8 DEF commitAnswered, commitFails
  <2>2. CandidateStaged
    BY <1>1, <2>1 DEF MutationInStep
  <2>3. CASE commit_staged(chain)
    <3>1. CandidateCommitted'
      BY <2>1, <2>2, <2>3, CommitCarries
    <3>2. QED
      BY <2>1, <3>1 DEF MutationInStep
  <2>4. CASE pc' = "failing" /\ command_fails(chain)
    <3>1. staged' = staged
      BY <2>4 DEF command_fails, store
    <3>2. CandidateStaged'
      BY <2>1, <2>2, <3>1 DEF CandidateStaged
    <3>3. QED
      BY <2>4, <3>2 DEF MutationInStep
  <2>5. QED
    BY <2>1, <2>3, <2>4
<1>9. CASE finalizeHistoryMutation \/ finalizeRefused \/ rollbackHistoryMutation
  <2>1. /\ \/ pc = "committed" /\ pc' \in {"sealing", "failing"}
           \/ pc = "failing" /\ pc' = "rollingBack"
        /\ UNCHANGED <<candidate, retained, staged, reversible_commit>>
    BY <1>9 DEF finalizeHistoryMutation, finalizeRefused, rollbackHistoryMutation, vars, store
  <2>2. /\ CandidateStaged' = CandidateStaged /\ CandidateCommitted' = CandidateCommitted
        /\ CandidateGone' = CandidateGone
    BY <2>1 DEF CandidateStaged, CandidateCommitted, CandidateGone, ToSet
  <2>3. QED
    BY <1>1, <2>1, <2>2 DEF MutationInStep
<1>10. CASE finalizeNationalHistory
  <2>1. PICK f \in candidate :
           /\ \E r \in reversible_commit : r.observation = f
           /\ reversible_commit' = {} /\ last_finalized_commit' = {f}
    BY <1>10 DEF finalizeNationalHistory, finalize_commit
  <2>2. pc = "sealing" /\ pc' \in {"sealing", "sealed"} /\ candidate' = candidate
    BY <1>10 DEF finalizeNationalHistory
  <2>3. candidate = {f}
    BY <1>1, <2>1, <2>2
       DEF MutationInStep, CandidateCommitted, CandidateSealed
  <2>4. CandidateSealed'
    BY <2>1, <2>2, <2>3 DEF CandidateSealed
  <2>5. QED
    BY <2>2, <2>4 DEF MutationInStep
<1>11. CASE rollbackNationalHistory
  <2>1. pc = "rollingBack" /\ \E f \in candidate : rollback_staged(f) \/ rollback_commit(f)
    BY <1>11 DEF rollbackNationalHistory
  <2>2. CASE Failed(kind)
    BY <1>1, <2>2, FailedEnds, MutationUntouched
  <2>3. CASE UNCHANGED <<loops, mutation, nationalObservations>>
    <3>1. pc' = pc /\ candidate' = candidate
      BY <2>3 DEF mutation
    <3>2. CandidateStaged \/ CandidateCommitted \/ CandidateGone
      BY <1>1, <2>1 DEF MutationInStep
    <3>3. CandidateGone'
      BY <1>1, <2>1, <3>1, <3>2, RollbackLeavesNothing
    <3>4. QED
      BY <2>1, <3>1, <3>3 DEF MutationInStep
  <2>4. QED
    BY <1>11, <2>2, <2>3 DEF rollbackNationalHistory
<1>12. QED
  BY <1>2, <1>3, <1>4, <1>5, <1>6, <1>7, <1>8, <1>9, <1>10, <1>11
     DEF TransactionNext, ChainNext, EnvironmentNext

LEMMA MutationInvariant == TransactionSpec => [](StoreInv /\ AnswersInv /\ MutationInv)
<1>1. TransactionInit => MutationInv
  BY DEF TransactionInit, Init, MutationInv, MutationInStep, OfGeneration
<1>2. StoreInv /\ AnswersInv /\ MutationInv /\ [TransactionNext]_txVars => MutationInv'
  <2> SUFFICES ASSUME StoreInv, AnswersInv, MutationInv, [TransactionNext]_txVars
               PROVE  MutationInv'
    OBVIOUS
  <2>1. TypeOK /\ TransactionTypeOK /\ WorkSound /\ OfGeneration
    BY DEF StoreInv, HistoryInv, DocumentInv, MutationInv
  <2>2. OfGeneration'
    BY <2>1, StepOfStore, OfGenerationStep
  <2>3. QED
    BY <2>2, MutationStaysInStep DEF MutationInv
<1>3. QED
  BY <1>1, <1>2, AnswersInvariant, PTL DEF TransactionSpec

(* A seal and a rollback are called for again and again until an answer     *)
(* arrives (NationalFinalizeLoop.ts and NationalRollbackLoop.ts), whatever  *)
(* became of the earlier calls, and also when the mutation before was       *)
(* disowned.  As long as the chain asks, the store still has what it is     *)
(* asked to settle, of the generation it is in, or that is settled, as the  *)
(* answer to a repeated seal or a snapshot of the store says.  A snapshot   *)
(* is had while the lane is active; of a cancelled lane, a rollback done    *)
(* whose answer was lost is asked for until the next generation.            *)
THEOREM SettlingNeverHangs == TransactionSpec => []SettlingCanEnd
<1>1. StoreInv /\ AnswersInv /\ MutationInv => SettlingCanEnd
  <2> SUFFICES ASSUME MutationInStep, OfGeneration
               PROVE  SettlingCanEnd
    BY DEF MutationInv
  <2>1. ASSUME pc = "sealing"
        PROVE  \/ \E f \in candidate : /\ generation = f.generation
                                       /\ \E r \in reversible_commit : r.observation = f
               \/ reversible_commit = {} /\ candidate \cap last_finalized_commit # {}
    BY <2>1 DEF MutationInStep, OfGeneration, CandidateCommitted, CandidateSealed
  <2>2. ASSUME pc = "rollingBack"
        PROVE  \/ \E f \in candidate : /\ generation = f.generation
                                       /\ \/ \E s \in staged : s.frame = f
                                          \/ staged = {} /\ \E r \in reversible_commit :
                                                              r.observation = f
               \/ CandidateGone
    BY <2>2 DEF MutationInStep, OfGeneration, CandidateStaged, CandidateCommitted
  <2>3. QED
    BY <2>1, <2>2 DEF SettlingCanEnd
<1>2. QED
  BY <1>1, MutationInvariant, PTL

-----------------------------------------------------------------------------
(* The renderer, as the chain of operations relies on it: the contract that *)
(* NationalGridLayer is proved to keep in NationalPlaybackProofs.           *)

ProvisionalTimelines == IF awaitingExternalCommit = {} THEN {} ELSE {ToSet(timeline)}

TimelinesThatFit == {S \in SUBSET Time : IsFiniteSet(S) /\ Cardinality(S) <= HISTORY_LIMIT}

Resident == INSTANCE ReversibleLoop WITH
  Observation <- Time,
  Loops       <- TimelinesThatFit,
  settled     <- ToSet(SettledTimeline),
  provisional <- ProvisionalTimelines

ResidentStep == [Resident!Next]_<<ToSet(SettledTimeline), ProvisionalTimelines>>

OneAwaits == AtMostOne(awaitingExternalCommit)

LEMMA ElementsFit ==
  ASSUME NEW times \in Seq(Time), Len(times) <= HISTORY_LIMIT
  PROVE  ToSet(times) \in TimelinesThatFit
<1>1. Len(times) \in Nat /\ times \in [1 .. Len(times) -> Time]
  OBVIOUS
<1>2. ToSet(times) = {times[i] : i \in 1 .. Len(times)} /\ ToSet(times) \subseteq Time
  BY <1>1 DEF ToSet
<1>3. [i \in 1 .. Len(times) |-> times[i]] \in Surjection(1 .. Len(times), ToSet(times))
  BY <1>2 DEF Surjection
<1>4. IsFiniteSet(1 .. Len(times)) /\ Cardinality(1 .. Len(times)) = Len(times)
  <2>1. Cardinality(1 .. Len(times)) = IF 1 > Len(times) THEN 0 ELSE Len(times) - 1 + 1
    BY <1>1, FS_Interval
  <2>2. QED
    BY <1>1, <2>1, FS_Interval
<1>5. IsFiniteSet(ToSet(times)) /\ Cardinality(ToSet(times)) <= Len(times)
  BY <1>3, <1>4, FS_Surjection
<1>6. Cardinality(ToSet(times)) \in Nat
  BY <1>5, FS_CardinalityType
<1>7. QED
  BY <1>1, <1>2, <1>5, <1>6, LimitAssumption DEF TimelinesThatFit

(* What a mutation proposes contains its own observation.                   *)
LEMMA ProposesItsOwn ==
  ASSUME NEW t \in Time, nationalObservations \in Seq(Time)
  PROVE  proposed(t) \in Seq(Time) /\ t \in ToSet(proposed(t))
<1>1. CASE kind = "predecessor"
  <2>1. <<t>> \o nationalObservations \in Seq(Time)
        /\ Len(<<t>> \o nationalObservations) >= 1
        /\ (<<t>> \o nationalObservations)[1] = t
    OBVIOUS
  <2>2. QED
    BY <1>1, <2>1 DEF proposed, ToSet
<1>2. CASE kind # "predecessor"
  <2> DEFINE times == Append(nationalObservations, t)
  <2>1. /\ times \in Seq(Time) /\ Len(times) \in Nat \ {0} /\ times[Len(times)] = t
    BY AppendProperties
  <2>2. proposed(t) = newestOf(times)
    BY <1>2 DEF proposed
  <2> HIDE DEF times
  <2>3. CASE Len(times) > HISTORY_LIMIT
    <3> DEFINE m == Len(times) - HISTORY_LIMIT + 1
    <3>1. m \in Int /\ Len(times) \in Int /\ m <= Len(times) /\ 1 <= m
          /\ Len(times) - m + 1 = HISTORY_LIMIT /\ HISTORY_LIMIT \in Nat \ {0}
          /\ m + HISTORY_LIMIT - 1 = Len(times)
      BY <2>1, <2>3, LimitAssumption
    <3>2. newestOf(times) = SubSeq(times, m, Len(times))
      BY <2>3 DEF newestOf
    <3> HIDE DEF m
    <3>3. \A i \in m .. Len(times) : times[i] \in Time
      BY <2>1, <3>1
    <3>4. /\ SubSeq(times, m, Len(times)) \in Seq(Time)
          /\ Len(SubSeq(times, m, Len(times))) = HISTORY_LIMIT
          /\ SubSeq(times, m, Len(times))[HISTORY_LIMIT] = t
      BY <2>1, <3>1, <3>3, SubSeqProperties
    <3> DEFINE newest == SubSeq(times, m, Len(times))
    <3>5. newest \in Seq(Time) /\ Len(newest) = HISTORY_LIMIT /\ newest[HISTORY_LIMIT] = t
      BY <3>4
    <3>6. proposed(t) = newest
      BY <2>2, <3>2
    <3> HIDE DEF newest
    <3>7. DOMAIN newest = 1 .. HISTORY_LIMIT /\ HISTORY_LIMIT \in 1 .. HISTORY_LIMIT
      BY <3>1, <3>5
    <3>8. t \in ToSet(newest)
      BY <3>5, <3>7 DEF ToSet
    <3>9. QED
      BY <3>5, <3>6, <3>8
  <2>4. CASE ~(Len(times) > HISTORY_LIMIT)
    <3>1. newestOf(times) = times
      BY <2>4 DEF newestOf
    <3>2. QED
      BY <2>1, <2>2, <3>1 DEF ToSet
  <2>5. QED
    BY <2>3, <2>4
<1>3. QED
  BY <1>1, <1>2

(* The mutation is painted.                                                 *)
LEMMA PaintProposes ==
  ASSUME TransactionTypeOK, commitStagedResidency
  PROVE  ResidentStep /\ OneAwaits'
<1>1. /\ awaitingExternalCommit = {} /\ awaitingExternalCommit' = {timeline}
  BY DEF commitStagedResidency
<1>2. PICK f \in candidate :
        /\ timeline' = IF kind = "current" THEN <<f.time>> ELSE proposed(f.time)
        /\ Len(timeline') <= HISTORY_LIMIT
        /\ ToSet(timeline') \subseteq ToSet(timeline) \cup {f.time}
  BY DEF commitStagedResidency, validateResidentTimeline
<1>3. f.time \in Time /\ nationalObservations \in Seq(Time)
  BY DEF TransactionTypeOK, Frame
<1>4. timeline' \in Seq(Time) /\ f.time \in ToSet(timeline')
  <2>1. CASE kind = "current"
    <3>1. timeline' = <<f.time>>
      BY <1>2, <2>1
    <3>2. <<f.time>> \in Seq(Time) /\ Len(<<f.time>>) = 1 /\ <<f.time>>[1] = f.time
      BY <1>3
    <3>3. QED
      BY <3>1, <3>2 DEF ToSet
  <2>2. CASE kind # "current"
    BY <1>2, <1>3, <2>2, ProposesItsOwn
  <2>3. QED
    BY <2>1, <2>2
<1>5. SettledTimeline = timeline /\ SettledTimeline' = timeline
  BY <1>1, SettledTimelineIs DEF SettledTimeline
<1>6. ToSet(SettledTimeline)' = ToSet(SettledTimeline)
  BY <1>5
<1>7. ProvisionalTimelines = {} /\ ProvisionalTimelines' = {ToSet(timeline')}
  BY <1>1 DEF ProvisionalTimelines
<1> DEFINE kept == ToSet(timeline') \cap ToSet(timeline)
<1>8. ToSet(timeline') = kept \cup {f.time} /\ kept \in SUBSET ToSet(timeline)
  BY <1>2, <1>4
<1>9. ToSet(timeline') \in TimelinesThatFit
  BY <1>2, <1>4, ElementsFit
<1> HIDE DEF kept
<1>10. Resident!Propose(f.time)
  BY <1>5, <1>6, <1>7, <1>8, <1>9 DEF Resident!Propose
<1>11. OneAwaits'
  BY <1>1 DEF OneAwaits, AtMostOne
<1>12. QED
  BY <1>3, <1>10, <1>11 DEF ResidentStep, Resident!Next

(* The commit throws with the timeline assigned.                            *)
LEMMA ThrowSlips ==
  ASSUME TransactionTypeOK, commitStagedResidencyThrows
  PROVE  ResidentStep /\ OneAwaits'
<1>1. awaitingExternalCommit = {} /\ awaitingExternalCommit' = {} /\ kind # "current"
  BY DEF commitStagedResidencyThrows
<1>2. PICK f \in candidate :
        /\ timeline' = proposed(f.time)
        /\ Len(timeline') <= HISTORY_LIMIT
        /\ ToSet(timeline') \subseteq ToSet(timeline) \cup {f.time}
  BY DEF commitStagedResidencyThrows, validateResidentTimeline
<1>3. f.time \in Time /\ nationalObservations \in Seq(Time)
  BY DEF TransactionTypeOK, Frame
<1>4. timeline' \in Seq(Time) /\ f.time \in ToSet(timeline')
  BY <1>2, <1>3, ProposesItsOwn
<1>5. SettledTimeline = timeline /\ SettledTimeline' = timeline'
  BY <1>1, SettledTimelineIs DEF SettledTimeline
<1>6. ToSet(SettledTimeline) = ToSet(timeline) /\ ToSet(SettledTimeline)' = ToSet(timeline')
  BY <1>5
<1>7. ProvisionalTimelines = {} /\ ProvisionalTimelines' = {}
  BY <1>1 DEF ProvisionalTimelines
<1> DEFINE kept == ToSet(timeline') \cap ToSet(timeline)
<1>8. ToSet(timeline') = kept \cup {f.time} /\ kept \in SUBSET ToSet(timeline)
  BY <1>2, <1>4
<1>9. ToSet(timeline') \in TimelinesThatFit
  BY <1>2, <1>4, ElementsFit
<1> HIDE DEF kept
<1>10. Resident!Slip(f.time)
  BY <1>6, <1>7, <1>8, <1>9 DEF Resident!Slip
<1>11. OneAwaits'
  BY <1>1 DEF OneAwaits, AtMostOne
<1>12. QED
  BY <1>3, <1>10, <1>11 DEF ResidentStep, Resident!Next

(* A lost context, or the chain, takes the mutation back.                   *)
LEMMA TakenBackIsResidentStep ==
  ASSUME OneAwaits, beginRecovery \/ rollbackHistoryMutation
  PROVE  ResidentStep /\ OneAwaits'
<1>1. awaitingExternalCommit' = {} /\ OneAwaits'
  BY DEF beginRecovery, rollbackHistoryMutation, OneAwaits, AtMostOne
<1>2. CASE awaitingExternalCommit = {}
  <2>1. timeline' = timeline
    BY <1>2 DEF beginRecovery, rollbackHistoryMutation
  <2>2. SettledTimeline' = SettledTimeline /\ ProvisionalTimelines' = ProvisionalTimelines
    BY <1>1, <1>2, <2>1 DEF SettledTimeline, ProvisionalTimelines
  <2>3. QED
    BY <1>1, <2>2 DEF ResidentStep
<1>3. CASE awaitingExternalCommit # {}
  <2>1. PICK times : awaitingExternalCommit = {times}
    BY <1>3 DEF OneAwaits, AtMostOne
  <2>2. timeline' = times
    <3>1. (CHOOSE q \in {times} : TRUE) = times
      OBVIOUS
    <3>2. QED
      BY <2>1, <3>1 DEF beginRecovery, rollbackHistoryMutation
  <2>3. SettledTimeline = times /\ SettledTimeline' = times
    BY <1>1, <2>1, <2>2, SettledTimelineIs DEF SettledTimeline
  <2>4. ToSet(SettledTimeline)' = ToSet(SettledTimeline)
    BY <2>3
  <2>5. ProvisionalTimelines # {} /\ ProvisionalTimelines' = {}
    BY <1>1, <1>3 DEF ProvisionalTimelines
  <2>6. Resident!TakeBack
    BY <2>4, <2>5 DEF Resident!TakeBack
  <2>7. QED
    BY <1>1, <2>6 DEF ResidentStep, Resident!Next
<1>4. QED
  BY <1>2, <1>3

(* The mutation is final in the renderer.                                   *)
LEMMA FinalizeSettles ==
  ASSUME finalizeHistoryMutation
  PROVE  ResidentStep /\ OneAwaits'
<1>1. /\ awaitingExternalCommit # {} /\ awaitingExternalCommit' = {}
      /\ timeline' = timeline
  BY DEF finalizeHistoryMutation
<1>2. SettledTimeline' = timeline
  BY <1>1 DEF SettledTimeline
<1>3. ToSet(SettledTimeline)' = ToSet(timeline)
  BY <1>2
<1>4. ProvisionalTimelines = {ToSet(timeline)} /\ ProvisionalTimelines' = {}
  BY <1>1 DEF ProvisionalTimelines
<1>5. Resident!Settle
  BY <1>3, <1>4 DEF Resident!Settle
<1>6. QED
  BY <1>1, <1>5 DEF ResidentStep, Resident!Next, OneAwaits, AtMostOne

LEMMA StepOfResident ==
  ASSUME TransactionTypeOK, OneAwaits, [TransactionNext]_txVars
  PROVE  ResidentStep /\ OneAwaits'
<1>1. CASE UNCHANGED layer
  BY <1>1 DEF layer, ResidentStep, ProvisionalTimelines, SettledTimeline, OneAwaits
<1>2. CASE \/ beginExclusiveLane \/ nextStep \/ backfillCompletes \/ chainStops
           \/ \E k \in Kind : prepare(k) \/ retryableStagedPreparation(k) \/ prepareRefused(k)
           \/ prepareAcquires \/ prepareAnswered \/ prepareLost \/ prepareFails
           \/ uploadFails \/ commit \/ commitRefused \/ commitAnswered \/ commitFails
           \/ UNCHANGED txVars
  <2>1. UNCHANGED layer
    BY <1>2 DEF beginExclusiveLane, nextStep, backfillCompletes, chainStops, prepare,
                retryableStagedPreparation, prepareRefused, prepareAcquires, prepareAnswered,
                prepareLost, prepareFails, uploadFails, commit, commitRefused, commitAnswered,
                commitFails, txVars
  <2>2. QED
    BY <1>1, <2>1
<1>3. CASE \/ finalizeRefused \/ finalizeNationalHistory \/ recoverFinalized
           \/ publishNationalHistory \/ publishSuperseded \/ waitForAuthoritativeReceiptFails
           \/ rollbackNationalHistory \/ recoverRolledBack \/ settlingCancelled
           \/ supersede \/ cancelLane \/ teardown \/ observationPublished
  <2>1. UNCHANGED layer
    BY <1>3 DEF finalizeRefused, finalizeNationalHistory, recoverFinalized,
                publishNationalHistory, publishSuperseded, waitForAuthoritativeReceiptFails,
                rollbackNationalHistory, recoverRolledBack, settlingCancelled, supersede,
                cancelLane, teardown, observationPublished
  <2>2. QED
    BY <1>1, <2>1
<1>4. CASE commitStagedResidency
  BY <1>4, PaintProposes
<1>5. CASE beginRecovery \/ rollbackHistoryMutation
  BY <1>5, TakenBackIsResidentStep
<1>6. CASE finalizeHistoryMutation
  BY <1>6, FinalizeSettles
<1>7. CASE commitStagedResidencyThrows
  BY <1>7, ThrowSlips
<1>8. QED
  BY <1>2, <1>3, <1>4, <1>5, <1>6, <1>7 DEF TransactionNext, ChainNext, EnvironmentNext

(* The chain of operations sees the renderer as a resident loop that gains  *)
(* one observation at a time, fits the limit and can be taken back until it *)
(* is final, but for a commit that throws after a lost context, which slips *)
(* into the loop at once: the contract NationalGridLayer itself keeps, so   *)
(* what is shown of the two sides belongs together (acquireAndPaint in      *)
(* src/App.tsx with src/national-radar/NationalGridLayer.ts).               *)
THEOREM ChainSeesALoop == TransactionSpec => Resident!Spec
<1>1. TransactionInit => Resident!Init /\ OneAwaits
  <2> SUFFICES ASSUME TransactionInit PROVE Resident!Init /\ OneAwaits
    OBVIOUS
  <2>1. timeline = <<>> /\ awaitingExternalCommit = {}
    BY DEF TransactionInit
  <2>2. SettledTimeline = <<>> /\ ProvisionalTimelines = {}
    BY <2>1 DEF SettledTimeline, ProvisionalTimelines
  <2>3. ToSet(<<>>) = {}
    BY DEF ToSet
  <2>4. MaxTime \in Time
    BY BoundAssumption DEF Time
  <2>5. QED
    BY <2>1, <2>2, <2>3, <2>4 DEF Resident!Init, OneAwaits, AtMostOne
<1>2. StoreInv /\ OneAwaits /\ [TransactionNext]_txVars => ResidentStep /\ OneAwaits'
  BY StepOfResident DEF StoreInv
<1>3. QED
  BY <1>1, <1>2, StoreInvariant, PTL
     DEF TransactionSpec, Resident!Spec, ResidentStep, Resident!loop
=============================================================================
