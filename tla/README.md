# Mistr: TLA+ models, checks and proofs

Mistr is a desktop weather-radar application: a Rust backend
(`src-tauri/src`) downloads and decodes NEXRAD Level II and MRMS data, a
TypeScript frontend (`src`) uploads the packed results to the GPU and shows
them on a map. The two talk over the Tauri IPC. This directory holds the
models of the parts whose correctness depends on the order in which things
happen, the TLC runs that check them and the proofs of what holds for every
size.

Paths below are relative to the repository.

## The system

| Component | State | Operations | Interacts with | Hard behaviour | What makes it correct |
|---|---|---|---|---|---|
| Transfer broker, `src-tauri/src/phase2_ipc.rs` | document epoch, session, one generation per lane (Site, National), credits in flight and held, replayed releases, live-sweep evidence | page load, `open`, `begin`, `cancel`, `acquire`, completion of a native task, `release` | transfer client over IPC; every command of the history store asks it for a token | tasks outlive the generation, the document and the request that started them | each lane's limit, credits that can always be given back, charged work |
| Transfer client, `src/packed-sweep/transferClient.ts` | session, lanes, leases, queued release acknowledgements | `open`, `begin`, `cancel`, requests, leases | broker over an IPC whose calls are not ordered | answers that come late or never | client and broker agree on lanes and credits |
| National history store, `src-tauri/src/national_history.rs` | retained frames, staged frame, backfill candidates, rollback journal, detail, exact pyramids | prepare (current, predecessor, newer), commit, rollback, finalize, presentation | broker tokens, MRMS object store, frontend | state read, lock dropped for a download, lock taken again | ordered, no hole, within the byte target, rollback restores |
| National transaction, `src/App.tsx` and the loops in `src/national-radar` | mode of the chain, mutation under way, shown observations | acquire, backfill, poll, commit, roll back | store over IPC, renderer | lost answers, lost WebGL context, supersession at every await | renderer, application and store agree once settled |
| National renderer, `src/national-radar/NationalGridLayer.ts` | resident observations, timeline, provisional mutation, visibility, paint fence and receipts, context epoch | stage, commit, finalize, roll back, select, hide, reveal, recover | transaction, National playback, WebGL | paints are asynchronous, the context may go, a hidden layer has no paint | what is retained is resident, a receipt claims only what is painted, every mutation is settled |
| Packed transfer and upload, `src/packed-grid`, the uploader of `NationalGridLayer.ts` | batches under way, leases, staged chunks, slices, the frame budget and its fences | fetch two batches ahead, upload a slice, yield, release, fail, give up | broker's credits, WebGL, recovery upload of the same layer | answers out of order, a GPU that lags, a context that goes | nothing measured is left out, payloads go back, fences are those of the context |
| Live sweep pipeline, `src-tauri/src/live_pipeline.rs`, `chunk_assembly.rs` | active volume, chunks, safe sweep published | list, download, ingest, decode, publish | S3 listing, generation token | chunks out of order, gaps, a failing download inside a window | only a contiguous prefix is decoded, the earliest safe one published once |
| Radar session, `src/radar-session` and the switching code of `src/App.tsx` | transition, painted source, automatic switch, pick, scan fetched ahead, poll, resident National history | evaluate the camera, start a Site, acquire or reveal National, fade, accept, fail, give up | both lanes, renderers, MapLibre | switches, picks, flights and polls meet at every await | what is painted is on the screen and keeps updating, what was given up leaves nothing behind, the latest intent wins |
| Site prefetch, `phase2_ipc.rs` | owner, window of tasks | claim, take, schedule | live sweep requests | tasks used by a later request | a prefetch is used only for the cursor it satisfies |
| Site playback, `src/playback/ResidentPlaybackController.ts` | frames, selection under way, playing, timer, intent, queue of updates | play, pause, scrub, advance, update the history and roll it back | Site renderer, Site live history, operator | an update, a scrub and a step each await the others' paints | one loop everywhere, nobody waits for nothing, the operator's request holds |
| National playback, `src/playback/NationalPlaybackController.ts` | observations, selection, playing, dwell, mutation to resume from | play, pause, scrub, advance, accept a history, resume | National renderer, transaction, source switch | the loop is paused for a commit and hidden behind a Site | it plays what is retained, and rests while it is hidden |
| Site renderer, `src/radar-renderer/RadarCustomLayer.ts` | models, resident frames, selection and its number, replacement, fences, waiters, recovery | select, replace, update, commit, roll back, draw, recover | Site playback, WebGL, MapLibre | numbers of selections are given out again after a rollback or a lost context | receipts are true, textures are freed, waits end |
| Site live history, `src/live` and the live sessions of `App.tsx` | history, polling session, display state, carried playhead | backfill, poll, append, prepend, start another session | Site playback, transfer client | two sessions overlap, updates queue | what the page shows is what the controller plays |
| Point inspection, `App.tsx`, `LatestOnlyAsyncQueue.ts` | marked point, latest request, readout, queue | click, look up again after a paint, answer, fail, clear | both renderers, the store's point lookup | answers that come after a click, a paint or a switch | a value shown is that of the point in what is painted |
| Acquisition, `src-tauri/src/acquisition.rs`, `mrms.rs` | none | ring search, discovery, retry delay | S3 | a ring of slots that is rewritten while it is searched | the newest volume is found |
| Decoders and formats, `src-tauri/src/radar`, `packed_*.rs`, `src/packed-*` | none | decode, encode, parse | | sequential | round trip |
| User interface, `src/ui` | | | | display only | |

## Modules

| Module | Models | State and actions in terms of the code |
|---|---|---|
| `TransferBroker` | `TransferBroker` of `phase2_ipc.rs` | one variable per field of the broker; one action per critical section of its mutex. The two maps of `u8` counters are kept in unary, as sets of tickets; `work` is the native tasks, which are the futures and workers of the requests. |
| `TransferProtocol` | `PackedSweepTransferClient` of `transferClient.ts` over the IPC | extends the broker with the client's fields and one set per kind of call or answer under way, so that any of them may arrive in any order. Repeating a release is the release call staying in `release_calls` while its acknowledgement is pending. |
| `CreditLedger` | what the two promise together | payloads, each charged to one lane, given back once. Refined by `TransferProtocol`. |
| `NationalHistory` | `national_history.rs` | the fields of the store behind its mutex; a command that downloads is three steps (read under the lock, acquire without it, stage under it), so that several commands interleave. An observation is its time. |
| `ReversibleHistory` | what the store promises | an ordered, bounded history that changes by one observation and can be taken back until it is settled. Refined by `NationalHistory`. |
| `NationalTransaction` | `commitNationalHistoryMutation`, `runNationalBackfill`, `runNationalPolling` and `acquireAndPaint` of `App.tsx`, the loops of `src/national-radar`, and the part of `NationalGridLayer.ts` they change | extends the store. `pc` is where the awaiting chain stands; the renderer is its timeline and the timeline it would restore. `halfApplied` is a history variable: a commit threw with its timeline assigned and none has become final since. |
| `ChunkAssembly` | `ChunkAssembler` of `chunk_assembly.rs` | the active volume, its chunks, its end, the volumes published; `ingest` with each of its refusals. |
| `LiveSweep` | `LiveSweepSession` of `live_pipeline.rs` | extends the assembler. `phase` is the await at which the session's future is suspended; a decode is a task that ends by itself. |
| `AutoSourcePolicy` | `autoSourcePolicy.ts` | pure operators with the source's names. Zooms in tenths, distances in kilometres. |
| `SourceSwitch` | `RadarSessionCoordinator.ts`, `SiteLevel2Session.ts`, `NationalMrmsSession.ts`, `fade.ts` and the switching code of `App.tsx` | the page runs one callback at a time, so its state is one record, a function of the code is an operator on it, and an action is what runs between two awaits. `op` holds the calls of the two sessions' `start` that have not returned, `prefetch` the scans fetched ahead. |
| `NationalAnswers` | what `transferClient.ts` asserts of the answers of the history commands | extends the transaction; one operator per assertion, over the state in which the store answers. |
| `SiteRenderer` | `RadarCustomLayer` | the layer is one record and a method is an operator on it, since methods are called several in a row within a callback. `told` is what a promise settles with; `gpu` is what is allocated on the GPU. A scan is the number of its measurement, a loop is a set of them. |
| `SitePlayback` | `ResidentPlaybackController` | extends the renderer. A call that awaits is a `task` with the await it stands at; an action is the code from an await to the next. |
| `SiteHistory` | the live sessions of `App.tsx`, `src/live`, the scrub queue and the carried playhead of a Site | extends the playback. A session is a slot, used again; everything outside waits until no continuation of a promise is left to run. |
| `NationalRenderer` | the residency of `NationalGridLayer` and its history working set | the same form as `SiteRenderer`. The recovery upload is the observation it is at and those listed for it (`uploading`, `uploads`); `emptied` are the residents without chunks and `strays`, a history variable, the observations let go of without being freed. |
| `ReversibleLoop` | what National's renderer promises its updates | a bounded loop that changes by one observation and can be taken back until it is settled, or slips into the loop at once by a commit that throws. Refined by `NationalPlayback`, and by `NationalTransaction` with the few variables in which it has the renderer. |
| `NationalPlayback` | `NationalPlaybackController`, `commitNationalHistoryMutation` and what of `App.tsx` hides, reveals, scrubs and plays National | extends the renderer; the backend is its answers, whose side of an update is in `NationalTransaction`. |
| `GridStaging` | `packedGrid.ts`, `transferPipeline.ts`, `chunkBatch.ts`, `coverage.ts`, the working set controller and the uploader of `NationalGridLayer.ts` | one observation: its chunks and halos, two batches under way, slices within a frame's budget. `owned` and `lost` are what its checks ask. |
| `Inspection` | the inspected point in `App.tsx`, `LatestOnlyAsyncQueue.ts` | one action per callback; a request is its number, its scan and its point. |
| `TransferProtocolProofs`, `NationalTransactionProofs` (of the store too), `LiveSweepProofs` (of the assembler too), `SourceSwitchProofs` (of the policy too), `InspectionProofs`, `GridStagingProofs`, `SiteHistoryProofs`, `NationalPlaybackProofs` | | the theorems |
| `MC*` | | instances for TLC |

Definitions whose name ends in what is wrong with them (`begin_off_by_one`)
and whose comment says "Mutant" are plausible faults of the definition that
follows them. No specification uses them; they are there to show that the
property they are written for would notice.

## Runs

Distinct states and times are of one machine with two cores.

| Run | States | What it checks |
|---|---|---|
| `MCTransferBroker` | 53 501, 25 s | The broker alone with unconstrained callers: any session, generation and release id at any moment. Each lane stays within its limit, in-flight credits are exactly the unfinished tasks, held credits can still be released and by one lane only, and the credits of earlier sessions drain. |
| `MCTransferProtocol` | 203 543, 40 s | Client and broker: an active lane of the client is active at the broker; the two implement `CreditLedger`; every credit comes back. |
| `MCNationalHistory` | 714 543, 75 s | Two commands interleaved over a history of two with eviction, detail and rollback, supersession and a page load: within the byte target, and an implementation of `ReversibleHistory`. |
| `MCNationalTransaction` | 55 289, 50 s | One generation of the chain with lost answers, a lost context and a receipt that times out: application and store agree on what a rollback leaves, and the renderer with them unless a commit of it threw after the lost context; a commit keeps the observation it adds; backfill leaves no hole; the journal is always settled; where nothing is lost the newest scan arrives; the client refuses no answer the store gives. |
| `MCNationalTransaction_orphan` | violated | see Findings |
| `MCLiveSweep` | 195 760, 40 s | A session over a slot with a remnant of an older volume and an end chunk out of place, objects appearing in any order, failures, supersession, a dropped request: decoding in groups publishes exactly what trying each prefix in turn would, nothing safe is missed, a failing chunk does not cost a safe sweep, and a safe sweep that is uploaded is published. |
| `MCSourceSwitch` | 299 866, 170 s | Two moves and picks over two Sites with two failures anywhere: the painted source is on the screen, opaque and alone, its polling or its chain of acquisitions goes on, downloads given up stop, no Site is loaded while another is painted, and the source the camera calls for is reached. |
| `MCSourceSwitch_startup` | violated | see Findings |
| `MCSiteHistory` | 1 030 056, 70 s | Two polling sessions extend a Site's loop while it plays, with two requests of the operator or of another source and one draw, fence, upload, wait or context that fails, at any point (the waits for a lost context besides): receipts are those of the selected scan, the renderer, the controller, the session and the page have one loop, textures are owned, no wait is forgotten, and the loop does not play against the operator. |
| `MCNationalPlayback` | 714 695, 45 s | The National loop plays, is scrubbed, hidden and revealed while updates stage, paint, commit, fail and are taken back, with three requests and two failures: receipts are true, the GPU holds what can be freed, but for two leaks after a lost context; every mutation is settled; the loop is what the page and the store retain, and the renderer too unless a commit of it threw; a hidden loop rests, and who waits for a paint is drawn for. |
| `MCGridStaging` | 163 219, 40 s | One observation of three chunks fetched over two credits and uploaded in slices beside the recovery upload, with failures, a lost context and supersession at any point: what is committed has every chunk that shows something measured, fences are bounded and of the context, every payload goes back. |
| `MCInspection` | 14 368, 1 s | Clicks, paints, changes of the source and late, failed or waiting lookups: a value shown is that of the marked point in the painted observation. |

Deadlock is not checked: each of these systems may come to rest, by a bound
(requests used up, the last generation begun) or because nobody asks anything
of it.

### Bounds

- **Broker**: three requests, two per lane's limit, so a third is refused
  while a stale one still runs; two page loads and two sessions, so an old
  session outlives two documents; two generations, so one is superseded. One
  release id stands for a repeated one.
- **Protocol**: two requests over a limit of one, which compete for the lane's
  credit; two page loads and two sessions. The counters are bounded by guards
  of `PageLoad` and `beginFlush`: a session has one generation less than the
  one before, and a document that used all its generations is not replaced.
  The code lets any number of begins wait for their acknowledgements; here
  `MaxBegins` are two, one of which overtakes the other.
- **History**: a history of two evicts with the third observation; a target of
  five holds both with one exact pyramid, the staged one and a detail, so the
  sixth unit is refused. `begin` and `document_started` bound generations as
  above: two documents, the second with one generation, which carries the same
  number as the first of the document before.
- **Transaction**: history of three with five observations, so backfill fills
  it and newer ones evict; two attempts per predecessor; a lost
  answer, a lost context and a receipt that times out may each happen any
  number of times. One generation: the next one starts with an empty store.
- **Live sweep**: four chunks of a volume that may hold four bytes, windows of
  three, a decode budget of three, so that a window spans several groups.
- **Site history**: two sessions (slots) so that one is superseded while its
  update is under way; a history of two frames of four scans, so that it
  evicts and that a backfill comes to its end; one step of the loop at a time,
  a scrub and a carried scrub; three numbers of selections, given out again by
  a rollback and a lost context; one failure, as a second one only repeats
  the recovery.
- **National playback**: a loop of two of three observations, so that a commit
  evicts the frame that may be shown; three requests hide, reveal and hide
  National again, or scrub and play around one; two failures, such as a lost
  context and a failed upload after it.
- **Grid staging**: three chunks, the last smaller than the others, in batches
  of one, so that two are under way and the third is asked for when the first
  is released; one field is measured on both edges of the middle chunk and not
  in it; two resident observations; one lost context.
- **Inspection**: two scans of each source and two points; at most three
  numbers of requests are in use at once, so four names are enough.
- **Source switch**: `MaxRequests` moves and picks, `MaxFailures` failing
  calls, paints or renderers; three `Op` slots (a pick is refused a slot when
  only one is left, so that the automatic switch that follows finds one) and
  two `Prefetch` slots, used again when a call has returned; twelve names of
  generations, which a generation gives back when nothing holds it any more,
  as generations are only compared for equality. Between them the runs reach
  every disjunct of every action.

### Fairness

- `FairSpec` of the broker: each session's native tasks end; they run under
  their own time limits and poll their token.
- `ProtocolFairSpec`: the same, a payload that arrives is taken or dropped
  (the promise of `invoke` settles), leases are released when their upload
  ends (`finally`), and a release that is sent again and again gets through.
  Begins, cancels and requests need not happen.
- `TransactionFairSpec`: the chain goes on; a snapshot or rollback that is
  repeated without end gets through; a preparation, upload or commit that is
  attempted again and again does not fail every time (strong fairness, since
  each failure disables the next step). Supersession, teardown and faults are
  never required.
- `FairSpec` of `GridStaging`: animation frames, answers and the transfer's own
  continuations come; cancelling, failing and losing the context need not.
- `LiveSweepSpec`: the session's steps end, and the provider uploads what it
  promised. Uploads are only enabled between polls in the model (they are seen
  by the listing), hence strong fairness.
- `SwitchFairSpec`: calls, paints and frames come to an end and the timer runs
  out. A flight lands even if it is enabled only now and then: deciding and
  picking, which return at once, come first in the model and interrupt it
  (strong fairness). The operator may rest.

## Findings

1. `MCNationalTransaction_orphan`: the answer of the last allowed attempt at a
   predecessor is lost after Rust has staged it. The backfill loop gives up,
   the predecessor stays staged, and every later preparation is refused as
   busy: no fresh scan arrives in this generation
   (`NationalBackfillLoop.ts:70` promises the opposite).
2. `MCSourceSwitch_startup`: after a launch whose acquisition failed, choosing
   National clears the notice that said to choose it, and loads nothing:
   `evaluateAutoSource` returns as long as nothing is painted.

Noticed while modelling and not made into runs. The properties leave these
cases out, each at the place its comment says.

*The chain and the source switch*

- A mutation that is final in the renderer and sealed in Rust is counted as
  failed when its receipt times out (`NationalGridLayer.ts:826`); the next
  publication drops the sealed observation from the renderer, not from the
  store (`docs/03_GPU_RENDERER.md:148`). `disowned` in `NationalTransaction`.
- A commit of the renderer throws with its residents and its timeline assigned
  when the frame to follow the one it drops is not uploaded again yet after a
  lost context (`NationalGridLayer.ts:1245-1251`, `1777`). Nothing is noted to
  restore, so the caller's `rollbackStaging`
  (`NationalHistoryWorkingSetController.ts:309`) deletes the chunks of a
  resident, and the dropped presentation is neither resident nor retired. The
  renderer stays ahead of application and store until the next update is
  painted, and the dropped textures are never freed. `halfApplied` in
  `NationalTransaction`, `emptied` and `strays` in `NationalRenderer`.
- A snapshot is refused once the lane is cancelled (`transferClient.ts:774`). A
  rollback that was done, and whose answer was lost before that, is then called
  again every second until a new generation answers that it is stale
  (`NationalRollbackLoop.ts:24`).
- A switch given up while the scan it waits for is still beginning its lane
  waits for that scan's download, and the newer intent with it
  (`App.tsx:1329`, `docs/32_SEAMLESS_RADAR_HANDOFF.md:81`).

*The loop of a Site*

- An update that ends before it has changed the loop, because a selection it
  waits for fails, leaves a playing loop paused
  (`ResidentPlaybackController.ts:37` says that an update restores its state).
- `queueScrub` keeps an index. An update that ends before it is taken changes
  which scan the index names; so does a change of the source while an earlier
  scrub is awaited (`docs/23_ALPHA_UI_AND_SITE_HARDENING.md:63`).
- `select` and the updates wait for the recovery of the context before they
  claim `operation`, so two selections can be under way, of which the second
  fails; a scrub that awaits the same operation as that of a carried playhead
  is refused in the same way.
- A step of the loop that fails sets `playing` to false and leaves a timer
  armed by a later `play`. Play pressed while a scrub waits for a step, or in
  an update that is rolled back, leaves `playing` true without a timer.
- A layer removed while its context is lost keeps its listeners and comes back
  with the next style (`docs/32_SEAMLESS_RADAR_HANDOFF.md:79`).
- Paint waiters have no timeout while a context is lost. After an error in
  `onAdd` the phase of the recovery stays `painting_visible_frame`.
- The playhead is stale after a paint that comes later than the two seconds it
  is waited for.

*The loop of National*

- `acceptRevealedNational` takes the receipt the reveal had before its fade,
  which a step or an update may have replaced (`App.tsx:2503`,
  `docs/32_SEAMLESS_RADAR_HANDOFF.md`).
- A second reveal of a layer that is visible and painted waits for its timeout.
- A recovery upload that fails in a commit leaves a mutation nobody settles,
  and removing the layer then leaks the retired presentation
  (`recoveryFailed`).
- Play pressed in a commit passes the wait for residency between the
  renderer's finalization and the publication. Play pressed on a paused loop
  during staging waits for the commit, contrary to the comment on `play`. Play
  then pause during a slow seal makes the wait for the receipt time out.
- A scrub resolves its index after its awaits, and a predecessor prepended
  meanwhile shifts it (`docs/23_ALPHA_UI_AND_SITE_HARDENING.md:63`).
- A step of the loop while the context is lost stops playback. A staging that
  is rolled back while the layer is hidden sets its status to "painted". A
  draw error behind a painted fence leaves a receipt beside the error.

*The upload*

- The error flag of a context is shared. The end of a recovery upload reads it
  (`NationalGridLayer.ts:1432`), and the start of one and uploads of the Site's
  layer (`RadarCustomLayer.ts:1933`) clear it, so that an observation with a
  failed upload commits (`NationalGridLayer.ts:521` says that such errors are
  attributed to it when it commits; `docs/03_GPU_RENDERER.md:146`).
- Retiring a presentation while the recovery uploads one of its chunks leaks
  that texture (`NationalGridLayer.ts:1424`; `strays` in `NationalRenderer`).
- A lost context takes the handles of the residents only. A selected frame that
  is not resident, as after a commit that threw, keeps those of the lost
  context and is taken for uploaded.

*The inspected point*

- The handler of a failed lookup compares only the latest request
  (`App.tsx:2015`), which neither a change from National to a Site nor a click
  on a Site resets: a late failure shows "unavailable" over an idle readout or
  over a Site's value (`docs/01_ARCHITECTURE.md:125`, "Late or cross-source
  replies are ignored.").
- A lookup answered while the receipt is cleared is dropped, and the next paint
  of the same scan does not ask again: the readout stays pending
  (`docs/20_ALPHA_CURRENT_STATE.md:162`).
- While a Site is loaded over National the readout takes the value of the Site
  that is staged (`App.tsx:453` speaks of the scan actually painted).

*Documents*

- Two documents may hold credits of both lanes at once while a task of the old
  one is running; the limit of `phase2_ipc.rs:612` is per lane, while
  `docs/14` line 163 and `docs/01_ARCHITECTURE.md:284` speak of two credits.
- A pick during an earlier flight calls `evaluateAfterNextMove` before the map
  is told to fly; the map then ends the earlier flight, and that event, not the
  landing, is evaluated. This relies on the order of events in MapLibre, which
  is not part of this repository; `LatestIntentWins` leaves such landings out.
- `docs/01_ARCHITECTURE.md:292` says that the source never switches by zoom,
  and line 298 that the old source releases its loop after the switch; the
  policy switches by zoom and keeps National resident.
- `App.tsx:3831` says that a fresh profile starts with a Site;
  `restoreStartupSource` starts it with National.

## Proofs

All of these hold for every value of the constants.

**Broker** (`TransferProtocolProofs`). Type correctness, `LaneInvariant` (a
lane's generation is one that was begun, and no two lanes share one),
`CreditsAreReachable`, `ReleaseIsUnambiguous`, `EvidenceFollowsGeneration`,
`CreditLimitHolds` and `WorkIsCharged`. None of the last five is inductive by
itself. That a release finds its lane needs that a held credit's generation
was begun on that lane and that generations grow over both lanes. The limit
counts two finite sets, so finiteness is part of the invariant, as is that
tickets in flight are those of running tasks, which is what makes the counters
equal to the work. From the assumptions that the limit and the bounds are
naturals.

**Client and broker** (`TransferProtocolProofs`). `ClientUsesBroker`: every
behaviour of the two is one of the broker with unconstrained callers, so
the broker's theorems hold of it. `LanesAgree`: a lane the client takes for
active is active at the broker. A begin or cancel under way is what separates
the two sides, so the invariant (`AgreeInv`) says of each call and answer in
transit which generation it carries and what the other side may hold by then,
and that a document without a session has begun nothing. `KeepsTheLedger`: the
refinement of `CreditLedger`, by step simulation. The client releases a
buffer and the broker gives back a credit, and nothing in the code says
that these are the same payload. They are the same in number: a request is at
one place at a time, from asking to release (`RequestsAreUnique`), and the
credits held are those the client still owes, generation by generation and
lane by lane (`OwedIsHeld`); the abstract credits are named by the
client's side. Assumed is that a release has the name of its request and that
`"begin"` is not the name of a request, both true of the client's counters.

**National history** (`NationalTransactionProofs`). `IsReversible`: the store
implements `ReversibleHistory` whatever commands interleave and however often
the page is replaced. It rests on `HistoryInv`: the history is ordered, of
one generation and within its limit, now and in the journal, and a stage and
a journal exclude each other. `StaysWithinMemory` and `LeavesNoHole` hold
while the first document is loaded (see "Not modelled" for the second).
Neither is inductive, and both come from what a preparation knew when it read
the store and acts on after a download: there is one current preparation for
a generation (`TokensInv`); candidates are consecutive and adjoin the
history, or the history is full; and an exact pyramid is cached, or being
downloaded, for nothing that a commit is to remove (`SeriesInv`). All of it
is stated of the present and of what the journal would restore, since a
rollback makes that the present.

**National transaction** (`NationalTransactionProofs`). `ChainUsesStore`: a
behaviour of the chain is one of the store, and of a single document, so
`BackfillIsWhole` holds without condition. `HistoriesFallBackTogether`: at
each await, application and store agree on what a rollback leaves, and the
renderer with them, but from a commit that threw after a lost context to the
next mutation that becomes final (`halfApplied`).
The invariant (`InStep`) says for each value of `pc` what the renderer's
timeline and the store's stage or journal are: the candidate on the screen is
the one the store has staged, and the timeline with it is what the store will
retain when it commits. `CommitKeeps` needs the same invariant: the store
itself would trim a predecessor it adds to a full history, and only the
renderer's earlier check of its limit keeps one from getting there. Two cases
are not claimed, as in the properties themselves: an application that is torn
down stops between two steps, and a sealed mutation that was counted as
failed (see Findings) leaves the parties apart for good. Two results hold even
then. `AnswersHold`: the store's answers, first, repeated or replayed, pass what
the client asserts of them. An answer that lists the observation twice would be
refused, so the invariant (`AnswersInv`) is about what keeps it single:
candidates leave room for the current observation, in the present and in what a
rollback restores; the command under way is that of the mutation; what is
staged, or will be by what a preparation under way has seen, is none of the
retained; and the current observation is asked for with nothing staged.
`SettlingNeverHangs`: as long as the chain calls for a seal or a rollback, the
call takes effect when the store runs it, or it is done already, which the
answer to a repeated seal says, or a snapshot of the store while the lane is
active (see Findings for a cancelled one). The invariant (`MutationInv`) says where the observation of the mutation
is at each await, staged, committed, sealed or gone, and that stage and
journal are of the store's generation. This is the part of `JournalIsSettled`
that does not need fairness. `ChainSeesALoop`: the timeline the chain works
with is a `ReversibleLoop`, in which the commit that throws is the step that
nothing takes back (see National's loop).

**Chunk assembler** (`LiveSweepProofs`). Whatever is ingested in whatever
order: the chunks belong to one volume, begin with its start chunk and fit
(`AssemblesOneVolume`); nothing follows the end (`EndIsTheEnd`); chunks are
only added (`GrowthOnly`); a complete volume changes no more
(`CompletionIsFinal`); a volume is published once (`PublicationIsOnce`). The
inductive invariant ties the end noted to an end chunk that was accepted and
every stored sequence to the side of it on which it lies.

**Live sweep** (`LiveSweepProofs`). `SessionUsesAssembler`: a behaviour of a
session is one of its assembler, and a session's candidates are of the volume
it selected, so the assembler never rolls over under it. From there the
assembler's invariant is at hand in every state of the session. For any
objects, in whatever order they are listed, fetched, refused or superseded: a
group of prefixes decoded side by side publishes what trying each of them in
turn would (`TriesInTurn`); a session sleeps with no safe sweep left to try
(`SleepsWithNothingLeft`); and a chunk that fails does not cost a sweep that
was safe before it (`FailureCostsNothing`). The invariant (`SweepInv`) says
that the prefixes tried, then those decoding, then those waiting are all that
the assembler has reached; that the tried ones were all incomplete; that the
last prefix captured is the one the assembler has contiguous; and that
prefixes pend only while a window is open. What a session lists is sorted; the
model has it be any list in that order, so that no sorted list has to be shown
to exist.

**Policy** (`SourceSwitchProofs`). `SettlesInTwo`: for any Sites, at any
distance, and any camera, what `decideAutoSource` answers, given its own
answers, is fixed after two switches, so a camera at rest is never answered
by switching to and fro. A Site that is entered is within the range and above
the zoom for keeping it, since entering asks more of both; it is the pick if
the pick still holds, so it is not given up for the pick; and a spent pick
changes nothing. That a nearest Site exists comes from the well-foundedness
of the naturals.

**Source switch** (`SourceSwitchProofs`). For any Sites and cameras, any number
of calls, prefetches, picks and failures, in whatever order their awaits end:
what is painted is on the screen and nothing else is once every switch has
ended (`ScreenIsTrue`); a painted Site polls on and National keeps its lane and
its chain (`UpdatesGoOn`); a switch given up never downloads again
(`DownloadsStop`); and Sites follow each other only over National
(`SitesMeetOverNational`). None is inductive. `SwitchesFitTogether` states the
invariant (`SwitchInv`). Of the calls: the switch that is current is the
automatic one, unless nothing is painted yet, and that one leads from National
to a Site or from a Site to National; so while it runs the screen changes by it
alone. Of the generations: no two calls or prefetches hold the same one, and
only the current or automatic switch holds the newest, so what compares
generations tells calls apart, and a lane begun again is nobody's whose
download was stopped. Of National: a lane and a chain belong to whoever is
painted or resident, an acquisition that is current has replaced both, and a
layer drawn without being painted is revealed or staged by a call whose end
undoes it. Of the Site: the one layer on the map is the painted Site's or that
of the one call about to paint; polling that has stopped was stopped by the
automatic switch's acquisition, with the generations by which its end resumes
it. The functions of the code are each shown to keep the invariant for
the calls they are made for, and the actions are put together from them.
Assumed is that calls, prefetches and generations are finite sets of numbers,
with two calls at least and more generations than can be in use, so that a new
one is always new (`NamesSuffice`).

**Inspected point** (`InspectionProofs`). `ReadoutFollowsPaint`: for any scans
and points, a value that is shown or awaited is that of the marked point, in
the painted observation or in the Site that is being loaded. It is not
inductive: an answer is accepted by the number of its request, so the invariant
says that the latest request, queued or running, is of the marked point and of
the scan the readout stands for; that a new number differs from the three in
use; and which paint each source has. Assumed is that scans of the two sources
have different names.

**Uploads** (`GridStagingProofs`). `UploadsStayInReach`: for any grid, batch
size and patience, any number of frames in flight and of uploads a lost context
leaves behind, there are never more fences than the frames allowed and one for
each upload that waits, and none is of a context that is gone. The invariant is
the property with types: an upload adds its fence in the step in which it
begins to wait, and polls the surplus away in the step in which it goes on, so
the number of those that wait, a finite set's, carries the bound; between a
loss of the context and the next one all fences are dropped. `NothingMeasuredIsLeftOut`: for any grid and any measured
cells, what is committed has every chunk that shows one of them
(`CommittedIsComplete`). The list of chunks to transfer leaves none out
(`InOrderListsAll`), since each has its own number of smaller ones; the commit
compares it with what is staged, and once nothing is being staged any more,
neither a late upload nor a superseded owner or a lost context takes a chunk
away (`CommitInv`). Assumed is that width, height and chunk size are positive,
and that the frames allowed and the bound on losses are naturals.

**Site's loop** (`SiteHistoryProofs`). For any scans, whatever the promises of
playback and of the live sessions are settled with and in whatever order their
continuations run: every texture on the GPU is owned by a chunk of the layer
and every one owned is there while the layer is added (`NoTextureIsLost`); the
receipt of a paint is of what is on the screen (`ReceiptsAreTrue`); and a loop
plays only while it is wanted (`PlaysAsAsked`). The invariant (`SiteInv`) has
three parts. Of the layer: a presentation's number is given again only after
the receipt that named it is cleared, a pending replacement has a number that
was given and a selection that is resident, what is on the GPU is what is
owned as soon as the layer is added, and without a context or a style it is
not added. Of the player: it plays only if it is wanted and not disposed. Of
the calls that await: an update resumes a loop it has not yet acted on only if
playing was wanted, and a loop begun anew is of one scan. Two
more of its results are about the order in which promises are settled and
continuations run. `NobodyIsForgotten`: a call that waits for a paint, a
recovery or its turn in the queue of updates is known to who will settle it. Its
invariant (`CallsInv`) says that a call that waits is known to the renderer
until it is told (`WaitsInv`), that an operation that is awaited is under way
(`OperationInv`), and that updates queue once each and only the first of them is
at work (`QueueInv`). `HistoriesStayTogether`: whenever no continuation is left
to run, controller and renderer have the same loop, and without an update under
way the history of the sessions is that loop too. While continuations are left
to run this is false, so the invariant (`HistoryInv`) says which of two loops
each party has: while an update is painting or done, renderer and controller
each have the old one or the new one, by where the update is, and otherwise
the timeline of the sessions (`FramesInv`, `WindowInv`); the history is that
timeline or not yet there, and the models are that timeline and the scans
live sessions have staged, which are none of it (`StoredInv`); and an update
that is done is that of the generation of today (`OwnerInv`). What a step does to the calls
that do not take it is stated once and proved of each of the code's functions.
Assumed is that the tasks differ from each other and from null, and that null
is not a scan.

**National's loop** (`NationalPlaybackProofs`). For any observations, any limit
of the history, any number of requests and of failures: a receipt is never
older than the selected frame, the context and whether the layer is shown
(`ReceiptsAreTrue`); what is allocated can be freed by the layer, but for the
two leaks named under Findings, and there are none before a context is lost
(`NoTextureIsLost`); a change of the residents has the update that will commit
it or take it back (`ChangesHaveTheirUpdate`); however an update ends, loop,
application and backend have the same history, and the renderer too as long as
no resident is emptied (`PlaysWhatIsRetained`); the loop rests behind a Site (`RestsBehindASite`); and
who waits for a paint waits for a drawing that has been asked for
(`WaitersAreDrawnFor`). None is inductive. The invariant (`NationalInv`) says of
the layer what a change is taken back to and that its addition, its removals
and the residents make up what there was (`ChangesInv`), what is on the GPU
(`ResidencyInv`), what a layer off the map has given up (`OffMapInv`) and who
may have a receipt or wait for one (`PaintsInv`, `WaiterInv`). Of the rest: who
is told of a paint is at the await that asked for it (`PromisesInv`); an update
behind a Site has nothing to resume (`SourceInv`), although the Site may be
accepted while the update holds the loop; what is proposed has the observation
that is added (`HistoryInv`), for which the newest of a finite set must be
shown to exist and to be kept; and the residents once every change is taken
back are the history, through every paint, loss of the context and timeout
(`LoopInv`). After a commit that threw the selected frame need not be resident,
so the invariant also says which frame may be drawn (`ResidencyInv`), and what
has been let go of without being freed only grows until the next loss. What a paint, a loss or a failure may do to a change is stated
once (`Progress`) and proved of each of the renderer's methods. Assumed is that
the four calls that wait differ from each other and from null, that null is not
an observation, and that the limit is not 0 (it is 60).

National's renderer is modelled twice: whole in `NationalRenderer`, and in
`NationalTransaction` as the timeline and the timeline it would restore. That
the second assumes no more than the first gives is shown by one contract,
`ReversibleLoop`: `settled` is what the loop goes back to, `provisional` the
proposed one. `RendererIsReversible` and `ChainSeesALoop` say that
`NationalPlayback` and `NationalTransaction` refine it. That the newest of any
history fit the limit (`NewestFits`) is part of the first; that a timeline cut to
the limit still has the observation it adds (`ProposesItsOwn`) of the second.
`FallbackIsKept`: what the renderer goes back to is changed by the finalization
once the backend has committed, by a Site being accepted, which may remove
the layer, and by a commit that throws (`Slip` of the contract); no paint,
timeout, lost context or hiding changes it. The contract is
about safety alone and says nothing of which observations are given up. These
three are stated as theorems and no run checks them.

**Only checked by TLC**: liveness under fairness (`OrphanedWorkDrains`,
`CreditsReturn`, `JournalIsSettled`, `FreshScansArrive`, `SafeSweepArrives`,
`LatestIntentWins`, `LeasesReturn`). Every invariant and
every action property of a passing run is a theorem. Liveness under fairness
and `ENABLED` are not within reach of the proof system used, nor is induction
over recursively defined data.

## Not modelled, and why

- **In the source switch**: notices held
  back while National is hidden; the live session of a Site started while the
  bundled archive scan of that Site is painted, which this version ships no
  scan for; diagnostics. An exception out of `onPaintAccepted` after the paint
  was accepted. Waiting a minute after a Site's failure is a flag that ends at
  any time; five minutes of age of a fetched scan likewise. A layer removed
  while its paint is awaited rejects the waiter, so the switch fails in the
  same step. Since a scan, once its renderer is created, paints or fails
  within seconds, uploads are one step.
- **In the history store**: point lookup, the cache of encoded
  chunks, predecessors fetched ahead. With a second document
  `TotalWithinTarget` and `BackfillLeavesNoHole` are not claimed: a task of the
  replaced document whose generation has the same number may still stage its
  candidate, which the code tolerates.
- **In the chain**: status texts, delays. `NationalAnswers` lets an answer to a
  cancelled lane arrive where the client throws `stale_response`.
- **In the loop of a Site**: counts of transitions and cycles; which frame a
  scrub by index ends at; `step` and `runTransitions`, which only diagnostics
  call; shaders, geometry and the fade of the layer.
- **In the loop of National**: detail levels, their prefetch, refinement and
  the quality lock, which have no caller in this version; the memory ceiling.
  One reveal and one scrub are under way at a time; a start that a later one
  supersedes is dropped; a carried playhead is the frame the reveal selects and
  whether it plays; readiness for playback is a loop of more than one frame;
  a torn-down National ends the run; a predecessor's preparation is not shown
  as an acquisition; and the painted source the coordinator keeps is left to
  `SourceSwitch`.
- **In the upload**: a second staging, which repeats the first with other
  names; the bytes. Whether a slice fits the frame and how far the GPU is are
  open, a chunk takes two slices.
- **In the inspected point**: the last lookup kept for diagnostics, the
  marker, and that the store computes the value.
- **In the live sweep**: discovery of the slot (`start`), clocks and counts of
  the evidence, the content of a decode. A poll lists and selects in one step.
  A chunk in front of a volume's start chunk ends the session as
  `StartChunkRequired`. A session selects one volume, so the roll over to a
  newer one is reached by the assembler alone. An end chunk too large for the
  volume is noted as its end without being stored; the error ends the session.
- **In the protocol**: the fields of single-scan reports; commands that only
  report.
- **Everything listed as `not_modelled`** in the component list of
  `PROJECT.json`, with its reason: either planned below or sequential code
  whose result does not depend on an order of events (packed formats, Level II
  and Level III decoders, static map data, the user interface).

## Plan

Done: `TransferBroker` and `TransferProtocol`, which refines `CreditLedger`,
`NationalHistory`, which refines `ReversibleHistory`, and
`NationalTransaction` with `NationalAnswers`, all with proofs; `ChunkAssembly` and
`LiveSweep` with proofs; `AutoSourcePolicy` and `SourceSwitch` with proofs;
`SiteRenderer`, `SitePlayback` and `SiteHistory`,
`NationalRenderer` and `NationalPlayback`, with proofs; `ReversibleLoop`, which
`NationalPlayback` and `NationalTransaction` refine; `GridStaging` and
`Inspection` with a proof each.

To come, in this order:

1. The Site request: newest complete sweep with the fallback to the previous
   volume under nested time limits, the window of predecessor prefetches and
   their cursors (`phase2_ipc.rs`). Properties: a prefetch is used only for the
   cursor it satisfies, a superseded task publishes nothing.
2. Predecessors fetched ahead in `NationalHistory`.
3. What `SourceSwitch` assumes of the two renderers, as abstract specifications
   that `NationalPlayback` and `SiteHistory` refine, as `ReversibleLoop` is one for
   `NationalTransaction`.
4. Pure algorithms against a reference definition: the search of the rotated
   ring of slots in `acquisition.rs`, the strongest valid reduction and the
   poll delay of `mrms.rs`.
