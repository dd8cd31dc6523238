----------------------- MODULE NationalPlaybackProofs -----------------------
(***************************************************************************)
(* What the renderer of National shows and owns, what an update leaves of  *)
(* the loop, and when the loop rests.                                      *)
(***************************************************************************)
EXTENDS NationalPlayback, FiniteSetTheorems, WellFoundedInduction, TLAPS

LayerFields ==
  {"residents", "emptied", "active", "textures", "staging", "pendingPaint", "mutation",
   "awaitingExternalCommit", "paintWaiter", "visibility", "status", "recovering",
   "contextEpoch", "contextLost", "uploading", "uploads", "strays", "added", "repaint",
   "residentReceipt", "paintReceipt", "told"}

(* An update is to be committed or taken back.                              *)
Changing(l) == l.mutation.defers \/ l.awaitingExternalCommit # NoMutation

(* A change can be taken back, and what it adds or gives up is known.       *)
Reverts(m, l) ==
  m # NoMutation =>
    /\ m.active \in m.residents \cup l.strays /\ m.residents \subseteq Nat
    /\ m.retires \subseteq m.residents
    /\ l.residents \subseteq m.residents \cup {m.added}
    /\ m.residents \subseteq l.residents \cup m.retires
    /\ ~m.defers => m.retires = {} /\ m.residents = l.residents /\ m.emptied = l.emptied

ChangesInv(l) ==
  /\ Reverts(l.mutation, l)
  /\ Reverts(l.awaitingExternalCommit, l)
  /\ l.mutation = NoMutation \/ l.awaitingExternalCommit = NoMutation
  /\ l.awaitingExternalCommit # NoMutation => l.awaitingExternalCommit.defers
  /\ l.pendingPaint # NoPaint =>
       /\ l.pendingPaint.mutation \in {NoMutation, l.mutation}
       /\ l.mutation.defers => l.pendingPaint.mutation = l.mutation

(* What may have a texture: what can be freed, and what has been let go of. *)
Known(l) == Referenced(l) \cup ({l.staging} \ {None}) \cup l.strays

(* The frame that is drawn, or that taking back a painted change selects.   *)
IsSelectable(l, o) ==
  o = l.active \/ (l.awaitingExternalCommit # NoMutation /\ o = l.awaitingExternalCommit.active)

ResidencyInv(l) ==
  /\ l.residents \subseteq Nat /\ None \notin l.strays
  /\ l.status # "removed" => l.active \in l.residents \cup l.strays
  /\ Changing(l) => l.active \in l.residents /\ l.staging = None /\ ~l.recovering
  /\ l.added => l.textures \cup l.uploads \cup ({l.uploading} \ {None}) \subseteq Known(l)
  /\ l.added /\ l.pendingPaint # NoPaint /\ IsSelectable(l, l.pendingPaint.observation)
     => l.pendingPaint.observation \in l.textures

OffMapInv(l) ==
  /\ l.contextLost => ~l.added
  /\ l.uploading # None => l.added
  /\ l.recovering => l.staging = None
  /\ ~l.added =>
       /\ l.staging = None /\ l.pendingPaint = NoPaint
       /\ l.status # "removed" => l.textures \subseteq l.strays
  /\ l.status = "removed" =>
       /\ ~l.added /\ ~l.contextLost /\ l.residents = {} /\ l.mutation = NoMutation
       /\ l.awaitingExternalCommit = NoMutation

(* As long as the first context lives every resident has its textures.      *)
FreshInv(l) ==
  /\ l.contextEpoch \in Nat \ {0}
  /\ l.contextEpoch = 1 =>
       /\ l.uploading = None /\ l.strays = {} /\ l.emptied = {} /\ l.residents \subseteq l.textures
       /\ ~l.recovering /\ ~l.contextLost
       /\ \A m \in {l.mutation, l.awaitingExternalCommit} :
            m # NoMutation => m.emptied = {} /\ m.residents \subseteq l.textures

PaintsInv(l) ==
  l.status # "removed" =>
    /\ l.paintReceipt # NoReceipt =>
         /\ l.visibility = "visible" /\ l.paintReceipt.presented
         /\ l.paintReceipt.observation = l.active
         /\ l.paintReceipt.epoch = l.contextEpoch
         /\ l.active \in l.textures /\ ~l.recovering
    /\ l.residentReceipt # NoReceipt =>
         l.visibility = "resident" /\ l.residentReceipt.observation = l.active

WaiterInv(l) ==
  l.paintWaiter # NoWaiter =>
    /\ l.paintReceipt = NoReceipt /\ l.residentReceipt = NoReceipt
    /\ l.paintWaiter.requirePresented => l.visibility = "visible"

IsScheduled(l) == l.paintWaiter # NoWaiter /\ l.added => l.repaint

(* Within a callback the drawing need not have been asked for yet.          *)
LayerIsSound(l) ==
  /\ DOMAIN l = LayerFields
  /\ ChangesInv(l) /\ ResidencyInv(l) /\ OffMapInv(l) /\ FreshInv(l) /\ PaintsInv(l)
  /\ WaiterInv(l)

LayerInv(l) == LayerIsSound(l) /\ IsScheduled(l)

LEMMA Nulls ==
  /\ NoMutation.residents = {} /\ NoMutation.retires = {} /\ NoMutation.active = None
  /\ NoMutation.emptied = {}
  /\ NoMutation.added = None /\ NoMutation.defers = FALSE
  /\ NoPaint.mutation = NoMutation /\ NoPaint.observation = None
  /\ NoWaiter.task = None /\ NoWaiter.requirePresented = FALSE
  /\ NoReceipt = Nothing /\ Failed # Nothing
BY DEF NoMutation, NoPaint, NoWaiter, NoReceipt, Nothing, Failed

LEMMA PaintedLayerInv == LayerInv(PaintedLayer(First))
<1> DEFINE l == PaintedLayer(First)
<1>1. DOMAIN l = LayerFields
  BY DEF PaintedLayer, LayerFields
<1>2. First \in Nat
  BY BoundsAreNumbers
<1>3. /\ l.residents = {First} /\ l.active = First /\ l.textures = {First} /\ l.staging = None
      /\ l.mutation = NoMutation /\ l.awaitingExternalCommit = NoMutation
      /\ l.pendingPaint = NoPaint /\ l.paintWaiter = NoWaiter
      /\ l.status = "painted" /\ ~l.recovering /\ ~l.contextLost /\ l.added
      /\ l.uploading = None /\ l.uploads = {} /\ l.strays = {} /\ l.emptied = {}
      /\ l.residentReceipt = NoReceipt /\ l.visibility = "visible" /\ l.contextEpoch = 1
      /\ l.paintReceipt = [what |-> "painted", observation |-> First, epoch |-> 1,
                           presented |-> TRUE]
  BY DEF PaintedLayer
<1> HIDE DEF l
<1>4. ChangesInv(l) /\ ResidencyInv(l) /\ OffMapInv(l)
  BY <1>2, <1>3, Nulls
     DEF ChangesInv, ResidencyInv, OffMapInv, Reverts, Known, Referenced, Changing
<1>5. PaintsInv(l) /\ WaiterInv(l) /\ IsScheduled(l) /\ FreshInv(l)
  BY <1>3 DEF PaintsInv, WaiterInv, IsScheduled, FreshInv
<1>6. QED
  BY <1>1, <1>4, <1>5 DEF LayerInv, LayerIsSound, l

(* The two differ in nothing but in who is told of a paint.                 *)
LooksLike(m, l) ==
  /\ DOMAIN m = LayerFields
  /\ m.residents = l.residents /\ m.active = l.active /\ m.textures = l.textures
  /\ m.staging = l.staging /\ m.pendingPaint = l.pendingPaint /\ m.mutation = l.mutation
  /\ m.awaitingExternalCommit = l.awaitingExternalCommit
  /\ m.paintWaiter \in {l.paintWaiter, NoWaiter} /\ m.visibility = l.visibility
  /\ m.status = "removed" <=> l.status = "removed"
  /\ m.recovering = l.recovering /\ m.contextEpoch = l.contextEpoch
  /\ m.contextLost = l.contextLost /\ m.added = l.added
  /\ m.uploading \in {l.uploading, None} /\ m.uploads \in {l.uploads, {}}
  /\ m.strays = l.strays /\ m.emptied = l.emptied
  /\ m.residentReceipt = l.residentReceipt /\ m.paintReceipt = l.paintReceipt

LEMMA Alike ==
  ASSUME NEW l, NEW m, LayerIsSound(l), LooksLike(m, l)
  PROVE  LayerIsSound(m)
<1>1. ChangesInv(m)
  BY DEF LooksLike, LayerIsSound, ChangesInv, Reverts
<1>2. ResidencyInv(m)
  BY DEF LooksLike, LayerIsSound, ResidencyInv, Known, Referenced, Changing, IsSelectable
<1>3. OffMapInv(m) /\ FreshInv(m)
  BY DEF LooksLike, LayerIsSound, OffMapInv, FreshInv
<1>4. PaintsInv(m)
  BY DEF LooksLike, LayerIsSound, PaintsInv
<1>5. WaiterInv(m)
  BY DEF LooksLike, LayerIsSound, WaiterInv
<1>6. QED
  BY <1>1, <1>2, <1>3, <1>4, <1>5 DEF LooksLike, LayerIsSound

LEMMA Rejecting ==
  ASSUME NEW l, DOMAIN l = LayerFields
  PROVE  /\ LooksLike(rejectPaintWaiter(l), l)
         /\ rejectPaintWaiter(l).paintWaiter = NoWaiter
         /\ rejectPaintWaiter(l).status = l.status /\ rejectPaintWaiter(l).repaint = l.repaint
         /\ l.status # "removed" => LooksLike(fail(l), l)
         /\ fail(l).paintWaiter = NoWaiter /\ fail(l).repaint = l.repaint
<1> DEFINE m == [l EXCEPT !.status = "error"]
<1>1. \A k : DOMAIN k = LayerFields =>
        /\ LooksLike(rejectPaintWaiter(k), k)
        /\ rejectPaintWaiter(k).paintWaiter = NoWaiter
        /\ rejectPaintWaiter(k).status = k.status /\ rejectPaintWaiter(k).repaint = k.repaint
  BY DEF rejectPaintWaiter, LooksLike, LayerFields
<1>2. DOMAIN m = LayerFields /\ m.repaint = l.repaint
      /\ (l.status # "removed" => LooksLike(m, l))
  BY DEF LooksLike, LayerFields
<1>3. LooksLike(rejectPaintWaiter(m), m)
  BY <1>1, <1>2
<1>4. l.status # "removed" => LooksLike(rejectPaintWaiter(m), l)
  BY <1>2, <1>3 DEF LooksLike
<1>5. fail(l) = rejectPaintWaiter(m)
  BY DEF fail
<1>6. QED
  BY <1>1, <1>2, <1>4, <1>5

LEMMA Clearing ==
  ASSUME NEW l, LayerIsSound(l)
  PROVE  LayerIsSound(clearReceipts(l)) /\ clearReceipts(l).paintReceipt = NoReceipt
         /\ clearReceipts(l).residentReceipt = NoReceipt
<1> DEFINE m == clearReceipts(l)
<1>1. /\ DOMAIN m = LayerFields /\ m.residents = l.residents /\ m.active = l.active
      /\ m.textures = l.textures /\ m.staging = l.staging
      /\ m.pendingPaint = l.pendingPaint /\ m.mutation = l.mutation
      /\ m.awaitingExternalCommit = l.awaitingExternalCommit /\ m.paintWaiter = l.paintWaiter
      /\ m.visibility = l.visibility /\ m.status = l.status /\ m.recovering = l.recovering
      /\ m.contextEpoch = l.contextEpoch /\ m.contextLost = l.contextLost
      /\ m.uploading = l.uploading /\ m.uploads = l.uploads
      /\ m.strays = l.strays /\ m.emptied = l.emptied /\ m.added = l.added
      /\ m.paintReceipt = NoReceipt /\ m.residentReceipt = NoReceipt
  BY DEF clearReceipts, LayerIsSound, LayerFields
<1> HIDE DEF m
<1>2. ChangesInv(m) /\ OffMapInv(m) /\ FreshInv(m)
  BY <1>1 DEF LayerIsSound, ChangesInv, Reverts, OffMapInv, FreshInv
<1>3. ResidencyInv(m)
  BY <1>1 DEF LayerIsSound, ResidencyInv, Known, Referenced, Changing, IsSelectable
<1>4. PaintsInv(m) /\ WaiterInv(m)
  BY <1>1 DEF LayerIsSound, PaintsInv, WaiterInv
<1>5. QED
  BY <1>1, <1>2, <1>3, <1>4 DEF m, LayerIsSound

-----------------------------------------------------------------------------
(* Taking a change back.                                                    *)

(* Whatever else goes on, the residents, their textures and the selection   *)
(* are what they were before the change.                                    *)
LEMMA Restored ==
  ASSUME NEW l, LayerIsSound(l), NEW m \in {l.mutation, l.awaitingExternalCommit},
         m # NoMutation, NEW n, DOMAIN n = LayerFields,
         n.residents = m.residents, n.emptied = m.emptied, n.active = m.active,
         n.textures = l.textures \ ({m.added} \ Filled(m)),
         n.uploads = l.uploads \ ({m.added} \ Filled(m)), n.uploading = l.uploading,
         n.strays = l.strays \cup ({l.uploading} \cap (({m.added} \ Filled(m)) \ {None})),
         n.staging = l.staging,
         n.pendingPaint \in {NoPaint, l.pendingPaint},
         m = l.mutation => n.pendingPaint = NoPaint,
         n.mutation = NoMutation, n.awaitingExternalCommit = NoMutation,
         n.paintReceipt = NoReceipt, n.residentReceipt = NoReceipt,
         n.paintWaiter \in {l.paintWaiter, NoWaiter} \/ ~n.paintWaiter.requirePresented,
         n.visibility = l.visibility, n.status # "removed",
         n.recovering = l.recovering, n.contextLost = l.contextLost, n.added = l.added,
         n.contextEpoch = l.contextEpoch
  PROVE  LayerIsSound(n)
<1>1. /\ Reverts(m, l) /\ l.status # "removed"
      /\ Referenced(l) = l.residents \cup m.retires
  BY Nulls DEF LayerIsSound, ChangesInv, OffMapInv, Referenced
<1>2. ChangesInv(n)
  <2>1. n.pendingPaint # NoPaint => n.pendingPaint.mutation = NoMutation
    BY DEF LayerIsSound, ChangesInv
  <2>2. QED
    BY <2>1, Nulls DEF ChangesInv, Reverts
<1>3. ResidencyInv(n)
  <2>1. None \notin n.strays /\ l.strays \subseteq n.strays
    BY DEF LayerIsSound, ResidencyInv
  <2>2. Known(n) = m.residents \cup ({l.staging} \ {None}) \cup n.strays
    BY Nulls DEF Known, Referenced
  <2>3. Known(l) \ ({m.added} \ Filled(m)) \subseteq Known(n)
    BY <1>1, <2>1, <2>2 DEF Reverts, Known, Filled
  <2>4. n.added => n.textures \cup n.uploads \cup ({n.uploading} \ {None}) \subseteq Known(n)
    <3> DEFINE gone == {m.added} \ Filled(m)
    <3>1. l.added => /\ l.textures \subseteq Known(l) /\ l.uploads \subseteq Known(l)
                     /\ {l.uploading} \ {None} \subseteq Known(l)
      BY DEF LayerIsSound, ResidencyInv
    <3>2. Known(l) \ gone \subseteq Known(n) /\ n.strays \subseteq Known(n)
      BY <2>2, <2>3
    <3>3. /\ n.textures = l.textures \ gone /\ n.uploads = l.uploads \ gone
          /\ n.strays = l.strays \cup ({l.uploading} \cap (gone \ {None}))
      OBVIOUS
    <3> HIDE DEF gone
    <3>4. QED
      BY <3>1, <3>2, <3>3
  <2>5. n.added /\ n.pendingPaint # NoPaint /\ n.pendingPaint.observation = n.active
        => n.pendingPaint.observation \in n.textures
    BY DEF LayerIsSound, ResidencyInv, IsSelectable, Filled
  <2>6. m.residents \subseteq Nat /\ m.active \in m.residents \cup n.strays
    BY <1>1, <2>1 DEF Reverts
  <2>7. QED
    BY <2>1, <2>4, <2>5, <2>6, Nulls DEF ResidencyInv, IsSelectable, Changing
<1>4. OffMapInv(n)
  BY <1>1 DEF LayerIsSound, OffMapInv
<1>5. FreshInv(n)
  BY Nulls DEF LayerIsSound, FreshInv, Filled
<1>6. PaintsInv(n)
  BY DEF PaintsInv
<1>7. WaiterInv(n)
  BY DEF LayerIsSound, WaiterInv
<1>8. QED
  BY <1>2, <1>3, <1>4, <1>5, <1>6, <1>7 DEF LayerIsSound

(* Only what is deleted differs.                                            *)
Deletes(d, l, retired) ==
  /\ DOMAIN d = LayerFields /\ d.residents = l.residents /\ d.emptied = l.emptied
  /\ d.active = l.active /\ d.textures = l.textures \ retired
  /\ d.uploading = l.uploading /\ d.uploads = l.uploads \ retired
  /\ d.strays = l.strays \cup ({l.uploading} \cap (retired \ {None}))
  /\ d.staging = l.staging /\ d.pendingPaint = l.pendingPaint /\ d.mutation = l.mutation
  /\ d.awaitingExternalCommit = l.awaitingExternalCommit /\ d.paintWaiter = l.paintWaiter
  /\ d.visibility = l.visibility /\ d.status = l.status /\ d.recovering = l.recovering
  /\ d.contextLost = l.contextLost /\ d.added = l.added /\ d.repaint = l.repaint
  /\ d.contextEpoch = l.contextEpoch /\ d.told = l.told
  /\ d.residentReceipt = l.residentReceipt /\ d.paintReceipt = l.paintReceipt

LEMMA DeletionGives ==
  ASSUME NEW l, DOMAIN l = LayerFields, NEW retired
  PROVE  Deletes(deletePresentation(l, retired), l, retired)
BY DEF deletePresentation, Deletes, LayerFields

(* Only what a change takes back differs.                                   *)
TakesBack(r, l, m) ==
  /\ DOMAIN r = LayerFields /\ r.residents = m.residents /\ r.emptied = m.emptied
  /\ r.active = m.active /\ r.textures = l.textures \ ({m.added} \ Filled(m))
  /\ r.uploading = l.uploading /\ r.uploads = l.uploads \ ({m.added} \ Filled(m))
  /\ r.strays = l.strays \cup ({l.uploading} \cap (({m.added} \ Filled(m)) \ {None}))
  /\ r.staging = l.staging
  /\ r.pendingPaint = l.pendingPaint /\ r.mutation = l.mutation
  /\ r.awaitingExternalCommit = l.awaitingExternalCommit /\ r.paintWaiter = l.paintWaiter
  /\ r.visibility = l.visibility /\ r.status = l.status /\ r.recovering = l.recovering
  /\ r.contextLost = l.contextLost /\ r.added = l.added
  /\ r.contextEpoch = l.contextEpoch /\ r.told = l.told

LEMMA RestoreGives ==
  ASSUME NEW l, DOMAIN l = LayerFields, NEW m
  PROVE  TakesBack(restoreResidencyState(l, m), l, m)
<1> DEFINE d == deletePresentation(l, {m.added} \ Filled(m))
<1>1. Deletes(d, l, {m.added} \ Filled(m))
  BY DeletionGives
<1>2. restoreResidencyState(l, m)
        = [d EXCEPT !.residents = m.residents, !.emptied = m.emptied, !.active = m.active]
  BY DEF restoreResidencyState
<1> HIDE DEF d
<1>3. QED
  BY <1>1, <1>2 DEF Deletes, TakesBack, LayerFields

LEMMA RestoreClears ==
  ASSUME NEW l, DOMAIN l = LayerFields, NEW m
  PROVE  LET r == clearReceipts(restoreResidencyState(l, m))
         IN  TakesBack(r, l, m) /\ r.paintReceipt = NoReceipt /\ r.residentReceipt = NoReceipt
<1> DEFINE d == restoreResidencyState(l, m)
<1>1. TakesBack(d, l, m)
  BY RestoreGives
<1> HIDE DEF d
<1>2. LET r == clearReceipts(d)
      IN  TakesBack(r, l, m) /\ r.paintReceipt = NoReceipt /\ r.residentReceipt = NoReceipt
  BY <1>1 DEF TakesBack, LayerFields, clearReceipts
<1>3. QED
  BY <1>2 DEF d

LEMMA RollbackInv ==
  ASSUME NEW l, LayerIsSound(l), l.pendingPaint = NoPaint,
         NEW m \in {NoMutation, l.mutation}, m = NoMutation => ~l.mutation.defers
  PROVE  LET n == rollbackResidencyMutation(l, m)
         IN  /\ LayerIsSound(n) /\ n.paintWaiter = NoWaiter /\ n.pendingPaint = NoPaint
             /\ n.repaint /\ n.status = l.status /\ n.mutation = NoMutation
<1> DEFINE n == rollbackResidencyMutation(l, m)
           c == clearReceipts(IF m = NoMutation THEN l ELSE restoreResidencyState(l, m))
           d == rejectPaintWaiter(c)
<1>0. DOMAIN l = LayerFields
  BY DEF LayerIsSound
<1>1. n = [d EXCEPT !.mutation = NoMutation, !.repaint = TRUE]
  BY DEF rollbackResidencyMutation
<1>2. DOMAIN c = LayerFields /\ c.status = l.status
  <2>1. DOMAIN clearReceipts(l) = LayerFields /\ clearReceipts(l).status = l.status
    BY <1>0 DEF clearReceipts, LayerFields
  <2>2. QED
    BY <1>0, <2>1, RestoreClears DEF TakesBack
<1>3. LooksLike(d, c) /\ d.paintWaiter = NoWaiter /\ d.status = l.status
  BY <1>2, Rejecting
<1>4. d.uploading = c.uploading /\ d.uploads = c.uploads
  BY <1>2 DEF rejectPaintWaiter, LayerFields
<1> HIDE DEF d
<1>5. /\ DOMAIN n = LayerFields /\ n.paintWaiter = NoWaiter /\ n.repaint /\ n.status = l.status
      /\ n.mutation = NoMutation /\ n.residents = c.residents /\ n.active = c.active
      /\ n.textures = c.textures /\ n.staging = c.staging /\ n.pendingPaint = c.pendingPaint
      /\ n.awaitingExternalCommit = c.awaitingExternalCommit /\ n.visibility = c.visibility
      /\ n.recovering = c.recovering /\ n.contextLost = c.contextLost /\ n.added = c.added
      /\ n.contextEpoch = c.contextEpoch
      /\ n.uploading = c.uploading /\ n.uploads = c.uploads
      /\ n.strays = c.strays /\ n.emptied = c.emptied
      /\ n.paintReceipt = c.paintReceipt /\ n.residentReceipt = c.residentReceipt
  BY <1>1, <1>3, <1>4 DEF LooksLike, LayerFields
<1>6. CASE m # NoMutation
  <2>1. TakesBack(c, l, m) /\ c.paintReceipt = NoReceipt /\ c.residentReceipt = NoReceipt
    BY <1>0, <1>6, RestoreClears
  <2>2. l.awaitingExternalCommit = NoMutation /\ l.status # "removed"
    BY <1>6 DEF LayerIsSound, ChangesInv, OffMapInv
  <2> HIDE DEF n, c
  <2>3. LayerIsSound(n)
    BY <1>5, <1>6, <2>1, <2>2, Restored DEF TakesBack
  <2>4. QED
    BY <1>5, <2>1, <2>3 DEF n, TakesBack
<1>7. CASE m = NoMutation
  <2>1. c = clearReceipts(l)
    BY <1>7
  <2>2. LayerIsSound(c)
    BY <2>1, Clearing
  <2>3. LayerIsSound(d)
    BY <1>3, <2>2, Alike
  <2>4. ~d.mutation.defers /\ d.pendingPaint = NoPaint
    BY <1>0, <1>3, <1>7, <2>1 DEF clearReceipts, LayerFields, LooksLike
  <2> HIDE DEF n, c
  <2>5. LayerIsSound([d EXCEPT !.mutation = NoMutation, !.repaint = TRUE])
    <3> DEFINE e == [d EXCEPT !.mutation = NoMutation, !.repaint = TRUE]
    <3>1. /\ DOMAIN e = LayerFields /\ e.residents = d.residents /\ e.active = d.active
          /\ e.textures = d.textures /\ e.staging = d.staging
          /\ e.pendingPaint = NoPaint /\ e.mutation = NoMutation
          /\ e.awaitingExternalCommit = d.awaitingExternalCommit
          /\ e.paintWaiter = d.paintWaiter
          /\ e.visibility = d.visibility /\ e.status = d.status /\ e.recovering = d.recovering
          /\ e.contextEpoch = d.contextEpoch /\ e.contextLost = d.contextLost
          /\ e.uploading = d.uploading /\ e.uploads = d.uploads
          /\ e.strays = d.strays /\ e.emptied = d.emptied /\ e.added = d.added
          /\ e.paintReceipt = d.paintReceipt /\ e.residentReceipt = d.residentReceipt
      BY <2>3, <2>4 DEF LayerIsSound, LayerFields
    <3> HIDE DEF e
    <3>2. ChangesInv(e) /\ OffMapInv(e) /\ FreshInv(e)
      BY <2>3, <3>1, Nulls DEF LayerIsSound, ChangesInv, OffMapInv, Reverts, FreshInv
    <3>3. PaintsInv(e) /\ WaiterInv(e)
      BY <2>3, <3>1 DEF LayerIsSound, PaintsInv, WaiterInv
    <3>4. d.mutation.retires = {}
      BY <2>3, <2>4, Nulls DEF LayerIsSound, ChangesInv, Reverts
    <3>5. ResidencyInv(e)
      BY <2>3, <3>1, <3>4, Nulls DEF LayerIsSound, ResidencyInv, Known, Referenced, Changing
    <3>6. QED
      BY <3>1, <3>2, <3>3, <3>5 DEF e, LayerIsSound
  <2>6. QED
    BY <1>1, <1>3, <1>5, <2>4, <2>5 DEF n, LooksLike, LayerFields
<1>8. QED
  BY <1>6, <1>7

(* A paint that is waited for no more.                                      *)
LEMMA PaintDropped ==
  ASSUME NEW l, LayerIsSound(l), NEW n, n.pendingPaint = NoPaint,
         \E x : n = [l EXCEPT !.pendingPaint = x]
  PROVE  /\ LayerIsSound(n) /\ n.status = l.status /\ n.mutation = l.mutation
         /\ n.visibility = l.visibility /\ n.told = l.told /\ n.paintWaiter = l.paintWaiter
         /\ n.residents = l.residents /\ n.emptied = l.emptied
         /\ n.awaitingExternalCommit = l.awaitingExternalCommit /\ n.added = l.added
<1>1. /\ DOMAIN n = LayerFields /\ n.residents = l.residents /\ n.active = l.active
      /\ n.textures = l.textures /\ n.staging = l.staging /\ n.mutation = l.mutation
      /\ n.awaitingExternalCommit = l.awaitingExternalCommit /\ n.paintWaiter = l.paintWaiter
      /\ n.visibility = l.visibility /\ n.status = l.status /\ n.recovering = l.recovering
      /\ n.contextEpoch = l.contextEpoch /\ n.contextLost = l.contextLost
      /\ n.uploading = l.uploading /\ n.uploads = l.uploads
      /\ n.strays = l.strays /\ n.emptied = l.emptied /\ n.added = l.added
      /\ n.paintReceipt = l.paintReceipt /\ n.residentReceipt = l.residentReceipt
      /\ n.told = l.told
  BY DEF LayerIsSound, LayerFields
<1>2. ChangesInv(n) /\ OffMapInv(n) /\ FreshInv(n)
  BY <1>1 DEF LayerIsSound, ChangesInv, Reverts, OffMapInv, FreshInv
<1>3. ResidencyInv(n)
  BY <1>1 DEF LayerIsSound, ResidencyInv, Known, Referenced, Changing
<1>4. PaintsInv(n) /\ WaiterInv(n)
  BY <1>1 DEF LayerIsSound, PaintsInv, WaiterInv
<1>5. QED
  BY <1>1, <1>2, <1>3, <1>4 DEF LayerIsSound

LEMMA ExpiresInv ==
  ASSUME NEW l, LayerInv(l)
  PROVE  LayerInv(paintWaiterExpires(l))
<1> DEFINE m == [l EXCEPT !.pendingPaint = IF l.added THEN NoPaint ELSE @]
<1>1. m.pendingPaint = NoPaint /\ m.mutation = l.mutation
  BY DEF LayerInv, LayerIsSound, LayerFields, OffMapInv
<1>2. LayerIsSound(m)
  BY <1>1, PaintDropped DEF LayerInv
<1>3. paintWaiterExpires(l) = rollbackResidencyMutation(m, m.mutation)
  BY <1>1 DEF paintWaiterExpires
<1>4. m.mutation = NoMutation => ~m.mutation.defers
  BY Nulls
<1> HIDE DEF m
<1>5. QED
  BY <1>1, <1>2, <1>3, <1>4, RollbackInv DEF LayerInv, IsScheduled

-----------------------------------------------------------------------------
(* Staging an observation and committing it.                                *)

(* What is awaited, shown and can be taken back stands as it did.           *)
Stands(n, l) ==
  /\ n.told = l.told /\ n.paintWaiter = l.paintWaiter /\ n.visibility = l.visibility
  /\ n.status = "removed" <=> l.status = "removed"
  /\ n.mutation = l.mutation /\ n.awaitingExternalCommit = l.awaitingExternalCommit
  /\ n.residents = l.residents /\ n.emptied = l.emptied

LEMMA StagingInv ==
  ASSUME NEW l, LayerInv(l), MayStage(l), l.status # "removed", NEW o
  PROVE  LayerInv(beginStaging(l, o)) /\ Stands(beginStaging(l, o), l)
<1> DEFINE n == beginStaging(l, o)
<1>1. /\ DOMAIN l = LayerFields /\ l.added /\ ~l.recovering /\ l.staging = None
      /\ l.mutation = NoMutation /\ l.awaitingExternalCommit = NoMutation
  BY DEF LayerInv, LayerIsSound, MayStage, OwnsPaint, IsCommitting
<1>2. /\ DOMAIN n = LayerFields /\ n.residents = l.residents /\ n.active = l.active
      /\ n.textures = l.textures /\ n.staging = o /\ n.pendingPaint = l.pendingPaint
      /\ n.mutation = l.mutation /\ n.awaitingExternalCommit = l.awaitingExternalCommit
      /\ n.paintWaiter = l.paintWaiter /\ n.visibility = l.visibility
      /\ n.status = "staging" /\ n.recovering = l.recovering
      /\ n.contextEpoch = l.contextEpoch /\ n.contextLost = l.contextLost
      /\ n.uploading = l.uploading /\ n.uploads = l.uploads /\ n.strays = l.strays
      /\ n.emptied = l.emptied /\ n.added = l.added /\ n.repaint = l.repaint
      /\ n.residentReceipt = l.residentReceipt /\ n.paintReceipt = l.paintReceipt
      /\ n.told = l.told
  BY <1>1 DEF beginStaging, LayerFields
<1> HIDE DEF n
<1>3. ChangesInv(n) /\ WaiterInv(n) /\ IsScheduled(n) /\ OffMapInv(n) /\ FreshInv(n)
  BY <1>1, <1>2 DEF LayerInv, LayerIsSound, ChangesInv, Reverts, WaiterInv, IsScheduled,
     OffMapInv, FreshInv
<1>4. ResidencyInv(n)
  <2>1. Known(l) \subseteq Known(n) /\ ~Changing(n)
    BY <1>1, <1>2, Nulls DEF Known, Referenced, Changing
  <2>2. QED
    BY <1>1, <1>2, <2>1 DEF LayerInv, LayerIsSound, ResidencyInv, IsSelectable
<1>5. PaintsInv(n)
  BY <1>2 DEF LayerInv, LayerIsSound, PaintsInv
<1>6. Stands(n, l)
  BY <1>2 DEF Stands
<1>7. QED
  BY <1>2, <1>3, <1>4, <1>5, <1>6 DEF n, LayerInv, LayerIsSound

LEMMA UploadedInv ==
  ASSUME NEW l, LayerInv(l), l.staging # None
  PROVE  LayerInv(uploadStagedChunks(l)) /\ Stands(uploadStagedChunks(l), l)
<1> DEFINE n == uploadStagedChunks(l)
<1>1. /\ DOMAIN n = LayerFields /\ n.residents = l.residents /\ n.active = l.active
      /\ n.textures = l.textures \cup {l.staging} /\ n.staging = l.staging
      /\ n.pendingPaint = l.pendingPaint /\ n.mutation = l.mutation
      /\ n.awaitingExternalCommit = l.awaitingExternalCommit /\ n.paintWaiter = l.paintWaiter
      /\ n.visibility = l.visibility /\ n.status = l.status /\ n.recovering = l.recovering
      /\ n.contextEpoch = l.contextEpoch /\ n.contextLost = l.contextLost
      /\ n.uploading = l.uploading /\ n.uploads = l.uploads /\ n.strays = l.strays
      /\ n.emptied = l.emptied /\ n.added = l.added /\ n.repaint = l.repaint
      /\ n.residentReceipt = l.residentReceipt /\ n.paintReceipt = l.paintReceipt
      /\ n.told = l.told
  BY DEF uploadStagedChunks, LayerInv, LayerIsSound, LayerFields
<1> HIDE DEF n
<1>2. ChangesInv(n) /\ WaiterInv(n) /\ IsScheduled(n) /\ OffMapInv(n) /\ FreshInv(n)
  BY <1>1 DEF LayerInv, LayerIsSound, ChangesInv, Reverts, WaiterInv, IsScheduled,
     OffMapInv, FreshInv
<1>3. ResidencyInv(n)
  <2>1. Known(n) = Known(l) /\ l.staging \in Known(l)
    BY <1>1 DEF Known, Referenced
  <2>2. QED
    BY <1>1, <2>1 DEF LayerInv, LayerIsSound, ResidencyInv, IsSelectable, Changing
<1>4. PaintsInv(n)
  BY <1>1 DEF LayerInv, LayerIsSound, PaintsInv
<1>5. Stands(n, l)
  BY <1>1 DEF Stands
<1>6. QED
  BY <1>1, <1>2, <1>3, <1>4, <1>5 DEF n, LayerInv, LayerIsSound

LEMMA NoneIsUnknown ==
  ASSUME NEW l, LayerIsSound(l)
  PROVE  None \notin Known(l)
<1>1. l.mutation.retires \subseteq Nat /\ l.awaitingExternalCommit.retires \subseteq Nat
  BY Nulls DEF LayerIsSound, ChangesInv, Reverts
<1>2. QED
  BY <1>1, BoundsAreNumbers DEF LayerIsSound, ResidencyInv, Known, Referenced

LEMMA UnstagedInv ==
  ASSUME NEW l, LayerIsSound(l)
  PROVE  LET n == rollbackStaging(l)
         IN  LayerIsSound(n) /\ Stands(n, l) /\ n.repaint = l.repaint /\ n.added = l.added
<1> DEFINE n == rollbackStaging(l)
           gone == {l.staging} \ Filled(l)
           d == deletePresentation(l, gone)
<1>0. Deletes(d, l, gone)
  BY DeletionGives DEF LayerIsSound
<1>1. n = [d EXCEPT !.staging = None, !.status = IF @ = "staging" THEN "painted" ELSE @]
  BY DEF rollbackStaging
<1> HIDE DEF d, n, gone
<1>2. /\ DOMAIN n = LayerFields /\ n.residents = l.residents /\ n.active = l.active
      /\ n.textures = l.textures \ gone /\ n.staging = None
      /\ n.pendingPaint = l.pendingPaint /\ n.mutation = l.mutation
      /\ n.awaitingExternalCommit = l.awaitingExternalCommit /\ n.paintWaiter = l.paintWaiter
      /\ n.visibility = l.visibility /\ (n.status = "removed" <=> l.status = "removed")
      /\ n.recovering = l.recovering /\ n.contextEpoch = l.contextEpoch
      /\ n.contextLost = l.contextLost /\ n.uploading = l.uploading
      /\ n.uploads = l.uploads \ gone
      /\ n.strays = l.strays \cup ({l.uploading} \cap (gone \ {None}))
      /\ n.emptied = l.emptied /\ n.added = l.added
      /\ n.repaint = l.repaint /\ n.residentReceipt = l.residentReceipt
      /\ n.paintReceipt = l.paintReceipt /\ n.told = l.told
  BY <1>0, <1>1 DEF Deletes, LayerFields
<1>3. /\ l.active \notin gone /\ l.residents \ l.emptied \subseteq l.residents \ gone
      /\ gone \subseteq {l.staging} /\ (l.staging = None => gone \subseteq {None})
  BY DEF gone, Filled
<1>4. ChangesInv(n) /\ OffMapInv(n) /\ WaiterInv(n)
  BY <1>2 DEF LayerIsSound, ChangesInv, Reverts, OffMapInv, WaiterInv
<1>5. ResidencyInv(n)
  <2>1. l.status # "removed" => Known(l) \ gone \subseteq Known(n)
    BY <1>2 DEF Known, Referenced, gone, Filled, LayerIsSound, ResidencyInv
  <2>2. n.strays \subseteq Known(n)
    BY DEF Known
  <2>3. n.added => n.textures \cup n.uploads \cup ({n.uploading} \ {None}) \subseteq Known(n)
    <3>1. l.added => /\ l.textures \subseteq Known(l) /\ l.uploads \subseteq Known(l)
                     /\ {l.uploading} \ {None} \subseteq Known(l)
                     /\ l.status # "removed"
      BY DEF LayerIsSound, ResidencyInv, OffMapInv
    <3>2. QED
      BY <1>2, <2>1, <2>2, <3>1
  <2>4. n.added /\ n.pendingPaint # NoPaint /\ IsSelectable(n, n.pendingPaint.observation)
        => n.pendingPaint.observation \in n.textures
    <3>1. ASSUME n.added, n.pendingPaint # NoPaint,
                 IsSelectable(n, n.pendingPaint.observation)
          PROVE  n.pendingPaint.observation \in n.textures
      <4>1. n.pendingPaint.observation \in l.textures /\ l.textures \subseteq Known(l)
        BY <1>2, <3>1 DEF LayerIsSound, ResidencyInv, IsSelectable
      <4>2. CASE l.awaitingExternalCommit # NoMutation
        <5>1. l.staging = None
          BY <4>2 DEF LayerIsSound, ResidencyInv, Changing
        <5>2. QED
          BY <1>2, <1>3, <4>1, <5>1, NoneIsUnknown
      <4>3. CASE l.awaitingExternalCommit = NoMutation
        BY <1>2, <1>3, <3>1, <4>1, <4>3 DEF IsSelectable
      <4>4. QED
        BY <4>2, <4>3
    <3>2. QED
      BY <3>1
  <2>5. QED
    BY <1>2, <2>3, <2>4 DEF LayerIsSound, ResidencyInv, Changing
<1>6. FreshInv(n)
  <2>1. ASSUME l.contextEpoch = 1,
               NEW m \in {l.mutation, l.awaitingExternalCommit}, m # NoMutation
        PROVE  m.residents \subseteq n.textures
    <3>1. Reverts(m, l) /\ m.residents \subseteq l.textures /\ l.emptied = {}
      BY <2>1 DEF LayerIsSound, ChangesInv, FreshInv
    <3>2. CASE m.defers
      <4>1. l.staging = None
        BY <2>1, <3>2 DEF LayerIsSound, ResidencyInv, Changing
      <4>2. None \notin m.residents
        BY <2>1, <3>1, BoundsAreNumbers DEF Reverts
      <4>3. QED
        BY <1>2, <1>3, <3>1, <4>1, <4>2
    <3>3. CASE ~m.defers
      BY <1>2, <1>3, <2>1, <3>1, <3>3 DEF Reverts
    <3>4. QED
      BY <3>2, <3>3
  <2>2. QED
    BY <1>2, <1>3, <2>1 DEF LayerIsSound, FreshInv
<1>7. PaintsInv(n)
  BY <1>2, <1>3 DEF LayerIsSound, PaintsInv
<1>8. QED
  BY <1>2, <1>4, <1>5, <1>6, <1>7 DEF n, LayerIsSound, Stands

LEMMA MayCommitGives ==
  ASSUME NEW l, LayerInv(l), NEW o \in Nat, NEW timeline, MayCommit(l, o, timeline),
         l.status # "removed"
  PROVE  /\ DOMAIN l = LayerFields /\ l.staging = o /\ o \in l.textures /\ o # None
         /\ l.paintWaiter = NoWaiter /\ l.pendingPaint = NoPaint /\ l.mutation = NoMutation
         /\ l.awaitingExternalCommit = NoMutation /\ timeline \subseteq l.residents \cup {o}
         /\ l.residents \subseteq Nat /\ l.active \in l.residents \cup l.strays
         /\ ~l.recovering /\ l.added /\ None \notin l.strays
         /\ Known(l) = l.residents \cup {o} \cup l.strays
         /\ l.textures \cup l.uploads \cup ({l.uploading} \ {None}) \subseteq Known(l)
<1>1. /\ DOMAIN l = LayerFields /\ l.staging = o /\ o \in l.textures /\ o # None
      /\ l.paintWaiter = NoWaiter /\ l.pendingPaint = NoPaint /\ l.mutation = NoMutation
      /\ l.awaitingExternalCommit = NoMutation /\ timeline \subseteq l.residents \cup {o}
  BY BoundsAreNumbers DEF LayerInv, LayerIsSound, MayCommit, OwnsPaint, IsCommitting
<1>2. ~l.recovering /\ l.added
  BY <1>1 DEF LayerInv, LayerIsSound, OffMapInv
<1>3. /\ l.residents \subseteq Nat /\ l.active \in l.residents \cup l.strays
      /\ None \notin l.strays
      /\ l.textures \cup l.uploads \cup ({l.uploading} \ {None}) \subseteq Known(l)
  BY <1>2 DEF LayerInv, LayerIsSound, ResidencyInv
<1>4. Known(l) = l.residents \cup {o} \cup l.strays
  BY <1>1, Nulls DEF Known, Referenced
<1>5. QED
  BY <1>1, <1>2, <1>3, <1>4

(* What was added is part of the timeline, or its texture would be lost.    *)
LEMMA CommitInv ==
  ASSUME NEW l, LayerInv(l), NEW t, NEW o \in Nat, NEW timeline, NEW selected \in timeline,
         MayCommit(l, o, timeline), o \in timeline, l.status # "removed"
  PROVE  LET n == commitHistoryStaging(l, t, timeline, selected)
         IN  /\ LayerInv(n) /\ n.told = l.told /\ n.visibility = l.visibility
             /\ n.paintWaiter = [task |-> t, requirePresented |-> FALSE]
             /\ n.status = "ready" /\ n.residents = timeline
             /\ n.mutation.defers /\ n.mutation.residents = l.residents
             /\ n.mutation.emptied = l.emptied
             /\ n.awaitingExternalCommit = NoMutation
             /\ l.mutation = NoMutation /\ l.awaitingExternalCommit = NoMutation
             /\ l.paintWaiter = NoWaiter
<1> DEFINE n == commitHistoryStaging(l, t, timeline, selected)
<1>0. /\ DOMAIN l = LayerFields /\ l.staging = o /\ o \in l.textures
      /\ l.paintWaiter = NoWaiter /\ l.pendingPaint = NoPaint /\ l.mutation = NoMutation
      /\ l.awaitingExternalCommit = NoMutation /\ timeline \subseteq l.residents \cup {o}
      /\ l.residents \subseteq Nat /\ l.active \in l.residents \cup l.strays
      /\ ~l.recovering /\ l.added /\ None \notin l.strays
      /\ Known(l) = l.residents \cup {o} \cup l.strays
      /\ l.textures \cup l.uploads \cup ({l.uploading} \ {None}) \subseteq Known(l)
  BY MayCommitGives
<1>1. /\ DOMAIN n = LayerFields /\ n.residents = timeline /\ n.active = selected
      /\ n.textures = l.textures /\ n.staging = None /\ n.pendingPaint = NoPaint
      /\ n.mutation = [residents |-> l.residents, emptied |-> l.emptied, active |-> l.active,
                       added |-> o, retires |-> l.residents \ timeline, defers |-> TRUE]
      /\ n.awaitingExternalCommit = NoMutation
      /\ n.paintWaiter = [task |-> t, requirePresented |-> FALSE]
      /\ n.visibility = l.visibility /\ n.status = "ready"
      /\ n.recovering = l.recovering /\ n.contextLost = l.contextLost
      /\ n.contextEpoch = l.contextEpoch
      /\ n.uploading = l.uploading /\ n.uploads = l.uploads /\ n.strays = l.strays
      /\ n.emptied = (l.emptied \cap timeline) \ {o} /\ n.added = l.added /\ n.repaint
      /\ n.residentReceipt = NoReceipt /\ n.paintReceipt = NoReceipt /\ n.told = l.told
  BY <1>0 DEF commitHistoryStaging, commitStagedResidency, waitForCommittedPaint, clearReceipts,
     residentsWithStaging, captureResidencyState, LayerFields, NoMutation
<1> HIDE DEF n
<1>2. ChangesInv(n)
  BY <1>0, <1>1, Nulls DEF ChangesInv, Reverts
<1>3. ResidencyInv(n)
  <2>1. Known(n) = timeline \cup l.residents \cup l.strays
    BY <1>1, Nulls DEF Known, Referenced
  <2>2. QED
    BY <1>0, <1>1, <2>1 DEF ResidencyInv
<1>4. OffMapInv(n)
  BY <1>0, <1>1 DEF LayerInv, LayerIsSound, OffMapInv
<1>5. PaintsInv(n) /\ WaiterInv(n) /\ IsScheduled(n)
  BY <1>1 DEF PaintsInv, WaiterInv, IsScheduled
<1>6. FreshInv(n)
  BY <1>0, <1>1, Nulls DEF LayerInv, LayerIsSound, FreshInv
<1>7. LayerInv(n)
  BY <1>1, <1>2, <1>3, <1>4, <1>5, <1>6 DEF LayerInv, LayerIsSound
<1>8. QED
  BY <1>0, <1>1, <1>7 DEF n

(* The commit that throws: nothing is changed that could be taken back. As  *)
(* long as the first context lives every selection can be drawn.            *)
LEMMA ThrownInv ==
  ASSUME NEW l, LayerInv(l), NEW o \in Nat, NEW timeline, NEW selected \in timeline,
         MayCommit(l, o, timeline), o \in timeline, l.status # "removed",
         ~CommitDraws(l, selected)
  PROVE  LET n == commitStagedResidencyThrows(l, timeline)
         IN  /\ LayerInv(n) /\ n.told = l.told /\ n.visibility = l.visibility
             /\ n.paintWaiter = NoWaiter /\ l.paintWaiter = NoWaiter
             /\ n.status # "removed" /\ n.residents = timeline /\ n.emptied # {}
             /\ n.mutation = NoMutation /\ n.awaitingExternalCommit = NoMutation
             /\ l.mutation = NoMutation /\ l.awaitingExternalCommit = NoMutation
<1> DEFINE i == [l EXCEPT !.residents = timeline,
                          !.emptied = (@ \cap timeline) \cup {l.staging},
                          !.strays = @ \cup (l.residents \ timeline)]
           n == commitStagedResidencyThrows(l, timeline)
<1>0. /\ DOMAIN l = LayerFields /\ l.staging = o /\ o \in l.textures
      /\ l.paintWaiter = NoWaiter /\ l.pendingPaint = NoPaint /\ l.mutation = NoMutation
      /\ l.awaitingExternalCommit = NoMutation /\ timeline \subseteq l.residents \cup {o}
      /\ l.residents \subseteq Nat /\ l.active \in l.residents \cup l.strays
      /\ ~l.recovering /\ l.added /\ None \notin l.strays
      /\ Known(l) = l.residents \cup {o} \cup l.strays
      /\ l.textures \cup l.uploads \cup ({l.uploading} \ {None}) \subseteq Known(l)
  BY MayCommitGives
<1>1. l.contextEpoch # 1
  BY <1>0 DEF LayerInv, LayerIsSound, FreshInv, CommitDraws, presentationIsResident
<1>2. /\ DOMAIN i = LayerFields /\ i.residents = timeline /\ i.active = l.active
      /\ i.textures = l.textures /\ i.staging = o /\ i.pendingPaint = NoPaint
      /\ i.mutation = NoMutation /\ i.awaitingExternalCommit = NoMutation
      /\ i.paintWaiter = NoWaiter /\ i.visibility = l.visibility /\ i.status = l.status
      /\ i.recovering = l.recovering /\ i.contextEpoch = l.contextEpoch
      /\ i.contextLost = l.contextLost /\ i.uploading = l.uploading /\ i.uploads = l.uploads
      /\ i.strays = l.strays \cup (l.residents \ timeline)
      /\ i.emptied = (l.emptied \cap timeline) \cup {o} /\ i.added = l.added
      /\ i.residentReceipt = l.residentReceipt /\ i.paintReceipt = l.paintReceipt
      /\ i.told = l.told
  BY <1>0 DEF LayerFields
<1>3. n = rollbackStaging(i)
  BY DEF commitStagedResidencyThrows
<1> HIDE DEF i, n
<1>4. ChangesInv(i) /\ WaiterInv(i)
  BY <1>2, Nulls DEF ChangesInv, Reverts, WaiterInv
<1>5. ResidencyInv(i)
  <2>1. Known(i) = l.residents \cup {o} \cup i.strays
    BY <1>0, <1>2, Nulls, BoundsAreNumbers DEF Known, Referenced
  <2>2. ~Changing(i) /\ i.active \in i.residents \cup i.strays
    BY <1>0, <1>2, Nulls DEF Changing
  <2>3. timeline \subseteq Nat /\ None \notin i.strays
    BY <1>0, <1>2, BoundsAreNumbers
  <2>4. QED
    BY <1>0, <1>2, <2>1, <2>2, <2>3 DEF ResidencyInv
<1>6. OffMapInv(i) /\ FreshInv(i) /\ PaintsInv(i)
  BY <1>0, <1>1, <1>2 DEF LayerInv, LayerIsSound, OffMapInv, FreshInv, PaintsInv
<1>7. LayerIsSound(n) /\ Stands(n, i)
  BY <1>2, <1>3, <1>4, <1>5, <1>6, UnstagedInv DEF LayerIsSound
<1>8. QED
  BY <1>0, <1>2, <1>7 DEF n, Stands, LayerInv, IsScheduled

LEMMA FinalInv ==
  ASSUME NEW l, LayerInv(l)
  PROVE  LET n == finalizeHistoryMutation(l)
         IN  /\ LayerInv(n)
             /\ Stands([n EXCEPT !.awaitingExternalCommit = l.awaitingExternalCommit], l)
             /\ n.awaitingExternalCommit = NoMutation
<1> DEFINE n == finalizeHistoryMutation(l)
           a == l.awaitingExternalCommit
           gone == a.retires \ l.residents
           d == deletePresentation(l, gone)
<1>0. Deletes(d, l, gone)
  BY DeletionGives DEF LayerInv, LayerIsSound
<1>1. n = [d EXCEPT !.awaitingExternalCommit = NoMutation]
  BY DEF finalizeHistoryMutation
<1> HIDE DEF d, n
<1>2. /\ DOMAIN n = LayerFields /\ n.residents = l.residents /\ n.active = l.active
      /\ n.textures = l.textures \ gone /\ n.staging = l.staging
      /\ n.pendingPaint = l.pendingPaint /\ n.mutation = l.mutation
      /\ n.awaitingExternalCommit = NoMutation /\ n.paintWaiter = l.paintWaiter
      /\ n.visibility = l.visibility /\ n.status = l.status
      /\ n.recovering = l.recovering /\ n.contextEpoch = l.contextEpoch
      /\ n.contextLost = l.contextLost /\ n.uploading = l.uploading
      /\ n.uploads = l.uploads \ gone
      /\ n.strays = l.strays \cup ({l.uploading} \cap (gone \ {None}))
      /\ n.emptied = l.emptied /\ n.added = l.added
      /\ n.repaint = l.repaint /\ n.residentReceipt = l.residentReceipt
      /\ n.paintReceipt = l.paintReceipt /\ n.told = l.told
  BY <1>0, <1>1 DEF Deletes, LayerFields
<1>3. /\ l.active \notin gone /\ (l.mutation # NoMutation => gone = {})
      /\ gone \cap l.residents = {}
  <2>1. CASE a = NoMutation
    BY <2>1, Nulls
  <2>2. CASE a # NoMutation
    BY <2>2 DEF LayerInv, LayerIsSound, ResidencyInv, Changing, ChangesInv
  <2>3. QED
    BY <2>1, <2>2
<1>4. Known(l) \ gone \subseteq Known(n) /\ n.strays \subseteq Known(n)
  BY <1>2, Nulls DEF Known, Referenced
<1> HIDE DEF gone
<1>5. ChangesInv(n) /\ OffMapInv(n) /\ WaiterInv(n) /\ IsScheduled(n)
  BY <1>2, Nulls DEF LayerInv, LayerIsSound, ChangesInv, OffMapInv, WaiterInv, IsScheduled,
     Reverts
<1>6. ResidencyInv(n)
  <2>1. n.added => n.textures \cup n.uploads \cup ({n.uploading} \ {None}) \subseteq Known(n)
    <3>1. l.added => /\ l.textures \subseteq Known(l) /\ l.uploads \subseteq Known(l)
                     /\ {l.uploading} \ {None} \subseteq Known(l)
      BY DEF LayerInv, LayerIsSound, ResidencyInv
    <3>2. QED
      BY <1>2, <1>4, <3>1
  <2>2. QED
    BY <1>2, <1>3, <2>1, Nulls
       DEF LayerInv, LayerIsSound, ResidencyInv, IsSelectable, Changing
<1>7. PaintsInv(n) /\ FreshInv(n)
  BY <1>2, <1>3 DEF LayerInv, LayerIsSound, PaintsInv, FreshInv
<1>8. LayerInv(n)
  BY <1>2, <1>5, <1>6, <1>7 DEF LayerInv, LayerIsSound
<1>9. QED
  BY <1>2, <1>8 DEF n, Stands, LayerFields

LEMMA TakenBackInv ==
  ASSUME NEW l, LayerInv(l), NEW t, l.awaitingExternalCommit # NoMutation
  PROVE  LET n == rollbackHistoryMutation(l, t)
         IN  /\ LayerInv(n) /\ n.told = l.told /\ n.visibility = l.visibility
             /\ n.paintWaiter = [task |-> t, requirePresented |-> FALSE]
             /\ n.status = "ready" /\ n.residents = l.awaitingExternalCommit.residents
             /\ n.emptied = l.awaitingExternalCommit.emptied
             /\ n.mutation = NoMutation /\ n.awaitingExternalCommit = NoMutation
             /\ l.mutation = NoMutation
<1> DEFINE n == rollbackHistoryMutation(l, t)
           m == l.awaitingExternalCommit
           r == clearReceipts(restoreResidencyState(l, m))
<1>0. DOMAIN l = LayerFields /\ l.mutation = NoMutation
  BY DEF LayerInv, LayerIsSound, ChangesInv
<1>1. TakesBack(r, l, m) /\ r.paintReceipt = NoReceipt /\ r.residentReceipt = NoReceipt
  BY <1>0, RestoreClears
<1>2. n = waitForCommittedPaint([r EXCEPT !.awaitingExternalCommit = NoMutation,
                                          !.status = "ready", !.repaint = TRUE], t, FALSE)
  BY DEF rollbackHistoryMutation
<1> HIDE DEF n, r
<1>3. /\ DOMAIN n = LayerFields /\ n.residents = m.residents /\ n.emptied = m.emptied
      /\ n.active = m.active /\ n.textures = l.textures \ ({m.added} \ Filled(m))
      /\ n.uploading = l.uploading /\ n.uploads = l.uploads \ ({m.added} \ Filled(m))
      /\ n.strays = l.strays \cup ({l.uploading} \cap (({m.added} \ Filled(m)) \ {None}))
      /\ n.staging = l.staging
      /\ n.pendingPaint = l.pendingPaint /\ n.mutation = NoMutation
      /\ n.awaitingExternalCommit = NoMutation
      /\ n.paintReceipt = NoReceipt /\ n.residentReceipt = NoReceipt
      /\ n.paintWaiter = [task |-> t, requirePresented |-> FALSE]
      /\ n.visibility = l.visibility /\ n.status = "ready"
      /\ n.recovering = l.recovering /\ n.contextLost = l.contextLost /\ n.added = l.added
      /\ n.contextEpoch = l.contextEpoch /\ n.repaint /\ n.told = l.told
  <2> HIDE DEF m
  <2> QED
    BY <1>0, <1>1, <1>2 DEF TakesBack, waitForCommittedPaint, LayerFields
<1>4. LayerIsSound(n)
  <2>1. LayerIsSound(l) /\ m \in {l.mutation, l.awaitingExternalCommit} /\ m # NoMutation
        /\ m # l.mutation /\ ~n.paintWaiter.requirePresented
    BY <1>0, <1>3 DEF LayerInv
  <2>2. QED
    BY <1>0, <1>3, <2>1, Restored
<1>5. LayerInv(n)
  BY <1>3, <1>4 DEF LayerInv, IsScheduled
<1>6. QED
  BY <1>0, <1>3, <1>5 DEF n

-----------------------------------------------------------------------------
(* Selecting, hiding and revealing.                                         *)

LEMMA VisibilityInv ==
  ASSUME NEW l, LayerInv(l), NEW v,
         l.paintWaiter # NoWaiter /\ l.paintWaiter.requirePresented => v = "visible"
  PROVE  LET n == setVisibility(l, v)
         IN  LayerInv(n) /\ n.visibility = v /\ Stands([n EXCEPT !.visibility = l.visibility], l)
<1> DEFINE n == setVisibility(l, v)
<1>0. DOMAIN l = LayerFields
  BY DEF LayerInv, LayerIsSound
<1>1. CASE v = l.visibility
  BY <1>0, <1>1 DEF setVisibility, Stands, LayerFields
<1>2. CASE v # l.visibility
  <2>1. /\ DOMAIN n = LayerFields /\ n.residents = l.residents /\ n.active = l.active
        /\ n.textures = l.textures /\ n.staging = l.staging
        /\ n.pendingPaint = l.pendingPaint /\ n.mutation = l.mutation
        /\ n.awaitingExternalCommit = l.awaitingExternalCommit /\ n.paintWaiter = l.paintWaiter
        /\ n.visibility = v /\ (n.status = "removed" <=> l.status = "removed")
        /\ n.recovering = l.recovering /\ n.contextEpoch = l.contextEpoch
        /\ n.contextLost = l.contextLost /\ n.uploading = l.uploading /\ n.uploads = l.uploads
        /\ n.strays = l.strays /\ n.emptied = l.emptied /\ n.added = l.added
        /\ n.repaint /\ n.residentReceipt = NoReceipt /\ n.paintReceipt = NoReceipt
        /\ n.told = l.told
    BY <1>0, <1>2 DEF setVisibility, clearReceipts, LayerFields
  <2> HIDE DEF n
  <2>2. ChangesInv(n) /\ OffMapInv(n) /\ FreshInv(n)
    BY <2>1 DEF LayerInv, LayerIsSound, ChangesInv, Reverts, OffMapInv, FreshInv
  <2>3. ResidencyInv(n)
    BY <2>1 DEF LayerInv, LayerIsSound, ResidencyInv, Known, Referenced, Changing, IsSelectable
  <2>4. PaintsInv(n) /\ WaiterInv(n) /\ IsScheduled(n)
    BY <2>1 DEF LayerInv, LayerIsSound, PaintsInv, WaiterInv, IsScheduled
  <2>5. QED
    BY <2>1, <2>2, <2>3, <2>4 DEF n, LayerInv, LayerIsSound, Stands, LayerFields
<1>3. QED
  BY <1>1, <1>2

(* What a selection changes, once it waits for its paint.                   *)
SelectsAnew(n, l, o) ==
  /\ DOMAIN n = LayerFields /\ n.residents = l.residents /\ n.active = o
  /\ n.textures = l.textures /\ n.staging = l.staging /\ n.pendingPaint = l.pendingPaint
  /\ n.mutation = [residents |-> l.residents, emptied |-> l.emptied, active |-> l.active,
                   added |-> None, retires |-> {}, defers |-> FALSE]
  /\ n.awaitingExternalCommit = l.awaitingExternalCommit
  /\ (n.status = "removed" <=> l.status = "removed")
  /\ n.recovering = l.recovering /\ n.contextEpoch = l.contextEpoch
  /\ n.contextLost = l.contextLost /\ n.uploading = l.uploading /\ n.uploads = l.uploads
  /\ n.strays = l.strays /\ n.emptied = l.emptied /\ n.added = l.added
  /\ n.repaint /\ n.residentReceipt = NoReceipt /\ n.paintReceipt = NoReceipt
  /\ n.paintWaiter.requirePresented => n.visibility = "visible"
  /\ n.told = l.told

LEMMA SelectsAnewInv ==
  ASSUME NEW l, LayerInv(l), ~IsCommitting(l), NEW o, presentationIsResident(l, o), NEW n,
         SelectsAnew(n, l, o)
  PROVE  LayerInv(n) /\ l.status # "removed"
<1>1. /\ l.mutation = NoMutation /\ l.awaitingExternalCommit = NoMutation
      /\ l.status # "removed" /\ l.active \in l.residents \cup l.strays
      /\ l.pendingPaint # NoPaint => l.pendingPaint.mutation = NoMutation
      /\ o \in l.residents /\ o \in l.textures
  BY DEF IsCommitting, LayerInv, LayerIsSound, OffMapInv, ResidencyInv, ChangesInv,
     presentationIsResident
<1>2. ChangesInv(n)
  BY <1>1, Nulls DEF SelectsAnew, LayerInv, LayerIsSound, ResidencyInv, ChangesInv, Reverts
<1>3. ResidencyInv(n)
  <2>1. Known(n) = Known(l) /\ ~Changing(n)
    BY <1>1, Nulls DEF SelectsAnew, Known, Referenced, Changing
  <2>2. QED
    BY <1>1, <2>1 DEF SelectsAnew, LayerInv, LayerIsSound, ResidencyInv, IsSelectable
<1>4. OffMapInv(n) /\ FreshInv(n)
  BY <1>1, Nulls DEF SelectsAnew, LayerInv, LayerIsSound, OffMapInv, FreshInv
<1>5. PaintsInv(n) /\ WaiterInv(n) /\ IsScheduled(n)
  BY DEF SelectsAnew, PaintsInv, WaiterInv, IsScheduled
<1>6. QED
  BY <1>1, <1>2, <1>3, <1>4, <1>5 DEF SelectsAnew, LayerInv, LayerIsSound

(* Another call may have been told, or waits now; nothing that an update is *)
(* to commit or to take back is touched.                                    *)
LeavesChanges(n, l) ==
  /\ n.status = "removed" <=> l.status = "removed"
  /\ n.mutation = l.mutation \/ (~n.mutation.defers /\ ~l.mutation.defers)
  /\ n.awaitingExternalCommit = l.awaitingExternalCommit /\ n.residents = l.residents
  /\ n.emptied = l.emptied

Asks(n, l, t, requirePresented) ==
  \/ /\ n.paintWaiter = l.paintWaiter
     /\ \E answer : answer # Nothing /\ n.told = [l.told EXCEPT ![t] = answer]
  \/ /\ l.paintWaiter = NoWaiter /\ n.told = l.told
     /\ n.paintWaiter = [task |-> t, requirePresented |-> requirePresented]

LEMMA SelectInv ==
  ASSUME NEW l, LayerInv(l), NEW t, NEW o
  PROVE  LET n == selectResidentAndWait(l, t, o)
         IN  /\ LayerInv(n) /\ n.visibility = l.visibility
             /\ LeavesChanges(n, l) /\ Asks(n, l, t, FALSE)
<1> DEFINE n == selectResidentAndWait(l, t, o)
<1>0. DOMAIN l = LayerFields
  BY DEF LayerInv, LayerIsSound
<1>1. ASSUME NEW answer, answer # Nothing, n = [l EXCEPT !.told[t] = answer]
      PROVE  LayerInv(n) /\ n.visibility = l.visibility
             /\ LeavesChanges(n, l) /\ Asks(n, l, t, FALSE)
  <2> HIDE DEF n
  <2>1. LooksLike(n, l) /\ n.repaint = l.repaint /\ n.paintWaiter = l.paintWaiter
    BY <1>0, <1>1 DEF LooksLike, LayerFields
  <2>2. LayerInv(n)
    BY <2>1, Alike DEF LayerInv, IsScheduled, LooksLike
  <2>3. n.told = [l.told EXCEPT ![t] = answer]
    BY <1>0, <1>1 DEF LayerFields
  <2>4. QED
    BY <1>1, <2>1, <2>2, <2>3 DEF LooksLike, LeavesChanges, Asks
<1>2. CASE ~MaySelect(l, o)
  BY <1>1, <1>2, Nulls DEF selectResidentAndWait
<1>3. CASE MaySelect(l, o) /\ o = l.active /\ l.paintReceipt # NoReceipt
  BY <1>1, <1>3, Nulls DEF selectResidentAndWait
<1>4. CASE MaySelect(l, o) /\ ~(o = l.active /\ l.paintReceipt # NoReceipt)
  <2>1. presentationIsResident(l, o) /\ ~IsCommitting(l) /\ l.paintWaiter = NoWaiter
        /\ l.mutation = NoMutation
    BY <1>4 DEF MaySelect, OwnsPaint, IsCommitting
  <2>2. l.status # "removed"
    BY <2>1 DEF LayerInv, LayerIsSound, OffMapInv, presentationIsResident
  <2>3. n = waitForCommittedPaint([clearReceipts(stageSelection(l, o)) EXCEPT
                                     !.status = "ready", !.repaint = TRUE], t, FALSE)
    BY <1>4 DEF selectResidentAndWait
  <2>4. /\ SelectsAnew(n, l, o) /\ n.visibility = l.visibility
        /\ n.paintWaiter = [task |-> t, requirePresented |-> FALSE]
    <3> DEFINE s == stageSelection(l, o)
               c == clearReceipts(s)
    <3>1. /\ DOMAIN s = LayerFields /\ s.residents = l.residents
          /\ s.active = o /\ s.textures = l.textures /\ s.staging = l.staging
          /\ s.pendingPaint = l.pendingPaint
          /\ s.mutation = [residents |-> l.residents, emptied |-> l.emptied,
                           active |-> l.active, added |-> None, retires |-> {},
                           defers |-> FALSE]
          /\ s.awaitingExternalCommit = l.awaitingExternalCommit
          /\ s.recovering = l.recovering /\ s.visibility = l.visibility
          /\ s.contextEpoch = l.contextEpoch /\ s.contextLost = l.contextLost
          /\ s.uploading = l.uploading /\ s.uploads = l.uploads
          /\ s.strays = l.strays /\ s.emptied = l.emptied /\ s.added = l.added /\ s.told = l.told
      BY <1>0 DEF stageSelection, captureResidencyState, NoMutation, LayerFields
    <3> HIDE DEF s
    <3>2. /\ DOMAIN c = LayerFields /\ c.residents = s.residents
          /\ c.active = s.active /\ c.textures = s.textures /\ c.staging = s.staging
          /\ c.pendingPaint = s.pendingPaint /\ c.mutation = s.mutation
          /\ c.awaitingExternalCommit = s.awaitingExternalCommit
          /\ c.recovering = s.recovering /\ c.visibility = s.visibility
          /\ c.contextEpoch = s.contextEpoch /\ c.contextLost = s.contextLost
          /\ c.uploading = s.uploading /\ c.uploads = s.uploads
          /\ c.strays = s.strays /\ c.emptied = s.emptied /\ c.added = s.added /\ c.told = s.told
          /\ c.paintReceipt = NoReceipt /\ c.residentReceipt = NoReceipt
      BY <3>1 DEF clearReceipts, LayerFields
    <3>3. n = waitForCommittedPaint([c EXCEPT !.status = "ready", !.repaint = TRUE], t, FALSE)
      BY <2>3 DEF s
    <3> HIDE DEF c, n
    <3>4. QED
      BY <2>2, <3>1, <3>2, <3>3 DEF SelectsAnew, waitForCommittedPaint, LayerFields
  <2> HIDE DEF n
  <2>5. LayerInv(n)
    BY <2>1, <2>4, SelectsAnewInv
  <2>6. QED
    BY <2>1, <2>2, <2>4, <2>5, Nulls DEF n, SelectsAnew, LeavesChanges, Asks
<1>5. QED
  BY <1>2, <1>3, <1>4

LEMMA RevealInv ==
  ASSUME NEW l, LayerInv(l), MayReveal(l), l.visibility = "resident", NEW t, NEW o
  PROVE  LET n == revealAndWait(l, t, o)
         IN  /\ LayerInv(n) /\ LeavesChanges(n, l) /\ Asks(n, l, t, TRUE)
             /\ n.visibility \in {"resident", "visible"}
<1> DEFINE n == revealAndWait(l, t, o)
<1>0. /\ DOMAIN l = LayerFields /\ ~IsCommitting(l) /\ l.paintWaiter = NoWaiter
      /\ l.mutation = NoMutation
  BY DEF LayerInv, LayerIsSound, MayReveal, IsCommitting
<1>1. CASE o \notin {None} /\ ~presentationIsResident(l, o)
  <2>1. n = [l EXCEPT !.told[t] = Failed]
    BY <1>1 DEF revealAndWait
  <2> HIDE DEF n
  <2>2. LooksLike(n, l) /\ n.repaint = l.repaint /\ n.paintWaiter = l.paintWaiter
        /\ n.told = [l.told EXCEPT ![t] = Failed]
    BY <1>0, <2>1 DEF LooksLike, LayerFields
  <2>3. LayerInv(n)
    BY <2>2, Alike DEF LayerInv, IsScheduled, LooksLike
  <2>4. QED
    BY <2>2, <2>3, Nulls DEF n, LooksLike, LeavesChanges, Asks
<1>2. CASE o \in {None, l.active}
             /\ ~(o \notin {None} /\ ~presentationIsResident(l, o))
  <2> DEFINE v == setVisibility(l, "visible")
  <2>1. n = waitForCommittedPaint(v, t, TRUE)
    BY <1>2 DEF revealAndWait
  <2>2. LayerInv(v) /\ v.visibility = "visible" /\ Stands([v EXCEPT !.visibility = l.visibility], l)
    BY VisibilityInv
  <2>3. v.paintReceipt = NoReceipt /\ v.residentReceipt = NoReceipt /\ v.repaint
        /\ DOMAIN v = LayerFields
    BY <1>0 DEF setVisibility, clearReceipts, LayerFields
  <2> HIDE DEF n, v
  <2>4. /\ DOMAIN n = LayerFields /\ n.residents = v.residents /\ n.active = v.active
        /\ n.textures = v.textures /\ n.staging = v.staging
        /\ n.pendingPaint = v.pendingPaint /\ n.mutation = v.mutation
        /\ n.awaitingExternalCommit = v.awaitingExternalCommit
        /\ n.paintWaiter = [task |-> t, requirePresented |-> TRUE]
        /\ n.visibility = v.visibility /\ n.status = v.status
        /\ n.recovering = v.recovering /\ n.contextEpoch = v.contextEpoch
        /\ n.contextLost = v.contextLost /\ n.uploading = v.uploading /\ n.uploads = v.uploads
        /\ n.strays = v.strays /\ n.emptied = v.emptied /\ n.added = v.added
        /\ n.repaint = v.repaint /\ n.residentReceipt = v.residentReceipt
        /\ n.paintReceipt = v.paintReceipt /\ n.told = v.told
    BY <2>1, <2>3 DEF waitForCommittedPaint, LayerFields
  <2>5. ChangesInv(n) /\ OffMapInv(n) /\ FreshInv(n)
    BY <2>2, <2>4 DEF LayerInv, LayerIsSound, ChangesInv, Reverts, OffMapInv, FreshInv
  <2>6. ResidencyInv(n) /\ PaintsInv(n)
    BY <2>2, <2>3, <2>4 DEF LayerInv, LayerIsSound, ResidencyInv, PaintsInv, Known, Referenced,
       Changing, IsSelectable
  <2>7. WaiterInv(n) /\ IsScheduled(n)
    BY <2>2, <2>3, <2>4 DEF WaiterInv, IsScheduled
  <2>8. LeavesChanges(n, l) /\ Asks(n, l, t, TRUE)
    BY <1>0, <2>2, <2>3, <2>4 DEF LeavesChanges, Asks, Stands, LayerFields
  <2>9. QED
    BY <2>2, <2>4, <2>5, <2>6, <2>7, <2>8 DEF n, LayerInv, LayerIsSound
<1>3. CASE o \notin {None, l.active} /\ presentationIsResident(l, o)
  <2>1. presentationIsResident(l, o) /\ l.status # "removed"
    BY <1>3 DEF presentationIsResident, LayerInv, LayerIsSound, OffMapInv
  <2>2. n = waitForCommittedPaint(setVisibility(stageSelection(l, o), "visible"), t, TRUE)
    BY <1>3 DEF revealAndWait
  <2> DEFINE s == stageSelection(l, o)
             v == setVisibility(s, "visible")
  <2>3. /\ DOMAIN s = LayerFields /\ s.visibility = "resident" /\ s.residents = l.residents
        /\ s.active = o /\ s.textures = l.textures /\ s.staging = l.staging
        /\ s.pendingPaint = l.pendingPaint
        /\ s.mutation = [residents |-> l.residents, emptied |-> l.emptied,
                         active |-> l.active, added |-> None, retires |-> {}, defers |-> FALSE]
        /\ s.awaitingExternalCommit = l.awaitingExternalCommit
        /\ s.status = l.status /\ s.recovering = l.recovering
        /\ s.contextEpoch = l.contextEpoch /\ s.contextLost = l.contextLost
        /\ s.uploading = l.uploading /\ s.uploads = l.uploads
        /\ s.strays = l.strays /\ s.emptied = l.emptied /\ s.added = l.added /\ s.told = l.told
    BY <1>0 DEF stageSelection, captureResidencyState, NoMutation, LayerFields
  <2> HIDE DEF s
  <2>4. /\ DOMAIN v = LayerFields /\ v.visibility = "visible" /\ v.residents = s.residents
        /\ v.active = s.active /\ v.textures = s.textures /\ v.staging = s.staging
        /\ v.pendingPaint = s.pendingPaint /\ v.mutation = s.mutation
        /\ v.awaitingExternalCommit = s.awaitingExternalCommit
        /\ (v.status = "removed" <=> s.status = "removed") /\ v.recovering = s.recovering
        /\ v.contextEpoch = s.contextEpoch /\ v.contextLost = s.contextLost
        /\ v.uploading = s.uploading /\ v.uploads = s.uploads
        /\ v.strays = s.strays /\ v.emptied = s.emptied /\ v.added = s.added /\ v.told = s.told
        /\ v.repaint /\ v.paintReceipt = NoReceipt /\ v.residentReceipt = NoReceipt
    BY <2>3 DEF setVisibility, clearReceipts, LayerFields
  <2>5. n = waitForCommittedPaint(v, t, TRUE)
    BY <2>2 DEF s
  <2> HIDE DEF v, n
  <2>6. SelectsAnew(n, l, o) /\ n.paintWaiter = [task |-> t, requirePresented |-> TRUE]
        /\ n.visibility = "visible"
    BY <2>3, <2>4, <2>5 DEF waitForCommittedPaint, SelectsAnew, LayerFields
  <2>7. LayerInv(n)
    BY <1>0, <2>1, <2>6, SelectsAnewInv
  <2>8. QED
    BY <1>0, <2>1, <2>6, <2>7, Nulls DEF n, SelectsAnew, LeavesChanges, Asks
<1>4. QED
  BY <1>1, <1>2, <1>3

-----------------------------------------------------------------------------
(* Drawing.                                                                 *)

(* What the residents are once every change is taken back.                  *)
Retained(l) ==
  IF l.mutation.defers THEN l.mutation.residents
  ELSE IF l.awaitingExternalCommit # NoMutation THEN l.awaitingExternalCommit.residents
  ELSE l.residents

RetainedEmptied(l) ==
  IF l.mutation.defers THEN l.mutation.emptied
  ELSE IF l.awaitingExternalCommit # NoMutation THEN l.awaitingExternalCommit.emptied
  ELSE l.emptied

(* Only who waits is told, and waits no more.                               *)
Tells(m, l) ==
  \/ m.told = l.told /\ m.paintWaiter = l.paintWaiter
  \/ /\ l.paintWaiter # NoWaiter /\ m.paintWaiter = NoWaiter
     /\ \E answer : answer # Nothing /\ m.told = [l.told EXCEPT ![l.paintWaiter.task] = answer]

(* The GPU and the map take a change back or bring it forward, but keep     *)
(* what it leaves when it is taken back.                                    *)
Progress(m, l) ==
  /\ m.visibility = l.visibility
  /\ m.status = "removed" <=> l.status = "removed"
  /\ Tells(m, l)
  /\ m.mutation.defers => /\ l.mutation.defers
                          /\ m.paintWaiter = l.paintWaiter /\ m.told = l.told
  /\ Changing(m) => Changing(l) /\ m.residents = l.residents
  /\ Retained(m) = Retained(l) /\ RetainedEmptied(m) = RetainedEmptied(l)

LEMMA ProgressTwice ==
  ASSUME NEW l, NEW m, NEW n, Progress(m, l), Progress(n, m)
  PROVE  Progress(n, l)
<1>1. Tells(n, l)
  <2>1. CASE m.told = l.told /\ m.paintWaiter = l.paintWaiter
    BY <2>1 DEF Progress, Tells
  <2>2. CASE ~(m.told = l.told /\ m.paintWaiter = l.paintWaiter)
    <3>1. /\ l.paintWaiter # NoWaiter /\ m.paintWaiter = NoWaiter
          /\ \E answer : answer # Nothing
                         /\ m.told = [l.told EXCEPT ![l.paintWaiter.task] = answer]
      BY <2>2 DEF Progress, Tells
    <3>2. n.told = m.told /\ n.paintWaiter = m.paintWaiter
      BY <3>1 DEF Progress, Tells
    <3>3. QED
      BY <3>1, <3>2 DEF Tells
  <2>3. QED
    BY <2>1, <2>2
<1>2. QED
  BY <1>1 DEF Progress

(* Neither changes what the update is about.                                *)
LEMMA LittleProgress ==
  ASSUME NEW l, NEW m, m.visibility = l.visibility,
         m.status = "removed" <=> l.status = "removed",
         Tells(m, l), m.residents = l.residents, m.emptied = l.emptied,
         m.mutation = l.mutation \/ (~m.mutation.defers /\ ~l.mutation.defers),
         m.awaitingExternalCommit = l.awaitingExternalCommit,
         m.mutation.defers => m.paintWaiter = l.paintWaiter /\ m.told = l.told
  PROVE  Progress(m, l)
BY DEF Progress, Changing, Retained, RetainedEmptied

LEMMA RejectTells ==
  ASSUME NEW l, DOMAIN l = LayerFields
  PROVE  Tells(rejectPaintWaiter(l), l) /\ Tells(fail(l), l)
<1> DEFINE m == [l EXCEPT !.status = "error"]
<1>1. \A k : DOMAIN k = LayerFields => Tells(rejectPaintWaiter(k), k)
  <2>1. SUFFICES ASSUME NEW k, DOMAIN k = LayerFields PROVE Tells(rejectPaintWaiter(k), k)
    OBVIOUS
  <2>2. QED
    BY <2>1, Nulls DEF rejectPaintWaiter, Tells, LayerFields
<1>2. DOMAIN m = LayerFields /\ m.told = l.told /\ m.paintWaiter = l.paintWaiter
  BY DEF LayerFields
<1>3. Tells(rejectPaintWaiter(m), m)
  BY <1>1, <1>2
<1>4. fail(l) = rejectPaintWaiter(m)
  BY DEF fail
<1>5. QED
  BY <1>1, <1>2, <1>3, <1>4 DEF Tells

LEMMA RollbackProgress ==
  ASSUME NEW l, LayerIsSound(l),
         NEW m \in {NoMutation, l.mutation}, m = NoMutation => ~l.mutation.defers
  PROVE  Progress(rollbackResidencyMutation(l, m), l)
<1> DEFINE c == clearReceipts(IF m = NoMutation THEN l ELSE restoreResidencyState(l, m))
           d == rejectPaintWaiter(c)
           n == [d EXCEPT !.mutation = NoMutation, !.repaint = TRUE]
<1>0. DOMAIN l = LayerFields
  BY DEF LayerIsSound
<1>1. /\ DOMAIN c = LayerFields /\ c.told = l.told /\ c.paintWaiter = l.paintWaiter
      /\ c.visibility = l.visibility /\ c.status = l.status
      /\ c.awaitingExternalCommit = l.awaitingExternalCommit
      /\ c.residents = IF m = NoMutation THEN l.residents ELSE m.residents
      /\ c.emptied = IF m = NoMutation THEN l.emptied ELSE m.emptied
  <2>1. /\ DOMAIN clearReceipts(l) = LayerFields /\ clearReceipts(l).told = l.told
        /\ clearReceipts(l).paintWaiter = l.paintWaiter
        /\ clearReceipts(l).visibility = l.visibility /\ clearReceipts(l).status = l.status
        /\ clearReceipts(l).awaitingExternalCommit = l.awaitingExternalCommit
        /\ clearReceipts(l).residents = l.residents /\ clearReceipts(l).emptied = l.emptied
    BY <1>0 DEF clearReceipts, LayerFields
  <2>2. QED
    BY <1>0, <2>1, RestoreClears DEF TakesBack
<1> HIDE DEF c
<1>2. LooksLike(d, c) /\ Tells(d, c) /\ d.status = c.status
  BY <1>1, Rejecting, RejectTells
<1> HIDE DEF d
<1>3. /\ n.told = d.told /\ n.paintWaiter = d.paintWaiter /\ n.visibility = l.visibility
      /\ n.status = l.status /\ n.mutation = NoMutation /\ n.residents = c.residents
      /\ n.awaitingExternalCommit = l.awaitingExternalCommit /\ n.emptied = c.emptied
  BY <1>1, <1>2 DEF LooksLike, LayerFields
<1>4. rollbackResidencyMutation(l, m) = n
  BY DEF rollbackResidencyMutation, c, d
<1> HIDE DEF n
<1>5. Tells(n, l)
  <2>1. n.told = d.told /\ n.paintWaiter = d.paintWaiter /\ Tells(d, c)
    BY <1>2, <1>3
  <2>2. c.told = l.told /\ c.paintWaiter = l.paintWaiter
    BY <1>1
  <2>3. QED
    BY <2>1, <2>2 DEF Tells
<1>6. Changing(n) => Changing(l) /\ n.residents = l.residents
  <2>1. l.mutation = NoMutation \/ l.awaitingExternalCommit = NoMutation
    BY DEF LayerIsSound, ChangesInv
  <2>2. l.awaitingExternalCommit # NoMutation => m = NoMutation
    BY <2>1
  <2>3. QED
    BY <1>1, <1>3, <2>2, Nulls DEF Changing
<1>7. Retained(n) = Retained(l) /\ RetainedEmptied(n) = RetainedEmptied(l)
  <2>1. CASE m = NoMutation
    BY <1>1, <1>3, <2>1, Nulls DEF Retained, RetainedEmptied
  <2>2. CASE m # NoMutation
    <3>1. Reverts(l.mutation, l) /\ l.awaitingExternalCommit = NoMutation /\ m = l.mutation
      BY <2>2 DEF LayerIsSound, ChangesInv
    <3>2. Retained(n) = m.residents /\ RetainedEmptied(n) = m.emptied
      BY <1>1, <1>3, <2>2, <3>1, Nulls DEF Retained, RetainedEmptied
    <3>3. QED
      BY <2>2, <3>1, <3>2 DEF Retained, RetainedEmptied, Reverts
  <2>3. QED
    BY <2>1, <2>2
<1>8. QED
  BY <1>3, <1>4, <1>5, <1>6, <1>7, Nulls DEF Progress

LEMMA ExpiresProgress ==
  ASSUME NEW l, LayerInv(l)
  PROVE  Progress(paintWaiterExpires(l), l)
<1> DEFINE m == [l EXCEPT !.pendingPaint = IF l.added THEN NoPaint ELSE @]
<1>1. m.pendingPaint = NoPaint
  BY DEF LayerInv, LayerIsSound, LayerFields, OffMapInv
<1>2. /\ LayerIsSound(m) /\ m.status = l.status /\ m.mutation = l.mutation
      /\ m.visibility = l.visibility /\ m.told = l.told /\ m.paintWaiter = l.paintWaiter
      /\ m.residents = l.residents /\ m.emptied = l.emptied
      /\ m.awaitingExternalCommit = l.awaitingExternalCommit
  <2>1. LayerIsSound(l) /\ \E x : m = [l EXCEPT !.pendingPaint = x]
    BY DEF LayerInv
  <2> HIDE DEF m
  <2>2. QED
    BY <1>1, <2>1, PaintDropped
<1>3. paintWaiterExpires(l) = rollbackResidencyMutation(m, m.mutation)
  BY <1>2 DEF paintWaiterExpires
<1>4. m.mutation = NoMutation => ~m.mutation.defers
  BY Nulls
<1> HIDE DEF m
<1>5. Progress(m, l)
  BY <1>2, LittleProgress DEF Tells
<1>6. Progress(rollbackResidencyMutation(m, m.mutation), m)
  BY <1>2, <1>4, RollbackProgress
<1>7. QED
  BY <1>3, <1>5, <1>6, ProgressTwice

LEMMA SettlesInv ==
  ASSUME NEW l, LayerIsSound(l), l.added, l.pendingPaint # NoPaint,
         l.active = l.pendingPaint.observation
  PROVE  LET n == Settles([l EXCEPT !.pendingPaint = NoPaint], l.pendingPaint)
         IN  LayerIsSound(n) /\ Progress(n, l) /\ n.added /\ n.pendingPaint = NoPaint
<1> DEFINE p == l.pendingPaint
           done == [l EXCEPT !.pendingPaint = NoPaint]
           presented == IsPresented(done, p)
           receipt == Painted(done, p.observation, presented)
           received == IF presented
                       THEN [done EXCEPT !.paintReceipt = receipt, !.status = "painted"]
                       ELSE IF done.visibility = "resident"
                       THEN [done EXCEPT !.residentReceipt = receipt, !.status = "resident"]
                       ELSE [done EXCEPT !.status = "ready", !.repaint = TRUE]
           committed == [received EXCEPT
             !.recovering = FALSE, !.mutation = NoMutation,
             !.awaitingExternalCommit = IF p.mutation.defers THEN p.mutation ELSE @]
           n == resolvePaintWaiter(committed, receipt)
<1>0. /\ DOMAIN l = LayerFields /\ l.status # "removed"
      /\ l.active \in l.residents \cup l.strays
      /\ l.active \in l.textures /\ ~l.contextLost
      /\ p.mutation \in {NoMutation, l.mutation}
      /\ p.mutation.defers <=> l.mutation.defers
      /\ p.mutation.defers => p.mutation = l.mutation /\ l.awaitingExternalCommit = NoMutation
  BY Nulls DEF LayerIsSound, OffMapInv, ResidencyInv, IsSelectable, ChangesInv
<1>1. /\ DOMAIN done = LayerFields /\ done.residents = l.residents /\ done.active = l.active
      /\ done.textures = l.textures /\ done.staging = l.staging
      /\ done.pendingPaint = NoPaint /\ done.mutation = l.mutation
      /\ done.awaitingExternalCommit = l.awaitingExternalCommit
      /\ done.paintWaiter = l.paintWaiter /\ done.visibility = l.visibility
      /\ done.contextEpoch = l.contextEpoch /\ done.contextLost = l.contextLost
      /\ done.uploading = l.uploading /\ done.uploads = l.uploads
      /\ done.strays = l.strays /\ done.emptied = l.emptied /\ done.added = l.added
      /\ done.told = l.told
      /\ done.residentReceipt = l.residentReceipt /\ done.paintReceipt = l.paintReceipt
  BY <1>0 DEF LayerFields
<1>2. /\ presented <=> p.presented /\ l.visibility = "visible"
      /\ receipt # Nothing /\ receipt.observation = l.active /\ receipt.epoch = l.contextEpoch
      /\ receipt.presented <=> presented
  BY <1>1 DEF IsPresented, Painted, Nothing
<1>3. Settles(done, p) = n
  BY DEF Settles
<1> HIDE DEF p, done, presented, receipt
<1>4. /\ DOMAIN received = LayerFields /\ received.residents = l.residents
      /\ received.active = l.active /\ received.textures = l.textures
      /\ received.staging = l.staging /\ received.pendingPaint = NoPaint
      /\ received.awaitingExternalCommit = l.awaitingExternalCommit
      /\ received.paintWaiter = l.paintWaiter /\ received.visibility = l.visibility
      /\ received.contextEpoch = l.contextEpoch /\ received.contextLost = l.contextLost
      /\ received.uploading = l.uploading /\ received.uploads = l.uploads
      /\ received.strays = l.strays /\ received.emptied = l.emptied /\ received.added = l.added
      /\ received.told = l.told /\ received.status # "removed"
      /\ received.paintReceipt = IF presented THEN receipt ELSE l.paintReceipt
      /\ received.residentReceipt = IF ~presented /\ l.visibility = "resident" THEN receipt
                                    ELSE l.residentReceipt
  BY <1>1 DEF LayerFields
<1> HIDE DEF received
<1>5. /\ DOMAIN committed = LayerFields /\ committed.residents = l.residents
      /\ committed.active = l.active /\ committed.textures = l.textures
      /\ committed.staging = l.staging /\ committed.pendingPaint = NoPaint
      /\ committed.mutation = NoMutation /\ ~committed.recovering
      /\ committed.awaitingExternalCommit
           = IF p.mutation.defers THEN p.mutation ELSE l.awaitingExternalCommit
      /\ committed.paintWaiter = l.paintWaiter /\ committed.visibility = l.visibility
      /\ committed.contextEpoch = l.contextEpoch /\ committed.contextLost = l.contextLost
      /\ committed.uploading = l.uploading /\ committed.uploads = l.uploads
      /\ committed.strays = l.strays /\ committed.emptied = l.emptied /\ committed.added = l.added
      /\ committed.told = l.told /\ committed.status # "removed"
      /\ committed.paintReceipt = IF presented THEN receipt ELSE l.paintReceipt
      /\ committed.residentReceipt = IF ~presented /\ l.visibility = "resident" THEN receipt
                                     ELSE l.residentReceipt
  BY <1>4 DEF LayerFields
<1> HIDE DEF committed
<1>6. /\ DOMAIN n = LayerFields /\ n.residents = l.residents
      /\ n.active = l.active /\ n.textures = l.textures
      /\ n.staging = l.staging /\ n.pendingPaint = NoPaint
      /\ n.mutation = NoMutation /\ ~n.recovering
      /\ n.awaitingExternalCommit
           = IF p.mutation.defers THEN p.mutation ELSE l.awaitingExternalCommit
      /\ n.visibility = l.visibility
      /\ n.contextEpoch = l.contextEpoch /\ n.contextLost = l.contextLost
      /\ n.uploading = l.uploading /\ n.uploads = l.uploads
      /\ n.strays = l.strays /\ n.emptied = l.emptied /\ n.added = l.added /\ n.status # "removed"
      /\ n.paintReceipt = IF presented THEN receipt ELSE l.paintReceipt
      /\ n.residentReceipt = IF ~presented /\ l.visibility = "resident" THEN receipt
                             ELSE l.residentReceipt
  BY <1>5 DEF LayerFields, resolvePaintWaiter
<1>7. Tells(n, l) /\ (n.paintWaiter # NoWaiter => ~presented /\ l.paintWaiter.requirePresented
                                                  /\ n.paintWaiter = l.paintWaiter)
  BY <1>2, <1>5 DEF LayerFields, resolvePaintWaiter, Tells
<1> HIDE DEF n
<1>8. ChangesInv(n)
  BY <1>0, <1>6, Nulls DEF LayerIsSound, ChangesInv, Reverts
<1>9. ResidencyInv(n)
  <2>1. Known(n) = Known(l)
    BY <1>0, <1>6, Nulls DEF LayerIsSound, ChangesInv, Reverts, Known, Referenced
  <2>2. Changing(n) => Changing(l)
    BY <1>0, <1>6, Nulls DEF Changing
  <2>3. QED
    BY <1>0, <1>6, <2>1, <2>2 DEF LayerIsSound, ResidencyInv
<1>10. OffMapInv(n) /\ FreshInv(n)
  BY <1>0, <1>6, Nulls DEF LayerIsSound, OffMapInv, FreshInv
<1>11. PaintsInv(n)
  BY <1>0, <1>2, <1>6 DEF LayerIsSound, PaintsInv
<1>12. WaiterInv(n)
  BY <1>2, <1>6, <1>7 DEF LayerIsSound, WaiterInv
<1>13. Progress(n, l)
  <2>1. Changing(n) => Changing(l) /\ n.residents = l.residents
    BY <1>0, <1>6, Nulls DEF Changing
  <2>2. Retained(n) = Retained(l) /\ RetainedEmptied(n) = RetainedEmptied(l)
    BY <1>0, <1>6, Nulls DEF Retained, RetainedEmptied
  <2>3. QED
    BY <1>0, <1>6, <1>7, <2>1, <2>2, Nulls DEF Progress
<1>14. LayerIsSound(n)
  BY <1>6, <1>8, <1>9, <1>10, <1>11, <1>12 DEF LayerIsSound
<1>15. QED
  BY <1>3, <1>6, <1>13, <1>14 DEF done, p

LEMMA DroppedInv ==
  ASSUME NEW l, LayerIsSound(l)
  PROVE  LET n == [l EXCEPT !.pendingPaint = NoPaint]
         IN  LayerIsSound(n) /\ Progress(n, l) /\ n.added = l.added /\ n.status = l.status
             /\ n.mutation = l.mutation /\ n.pendingPaint = NoPaint
<1> DEFINE n == [l EXCEPT !.pendingPaint = NoPaint]
<1>1. n.pendingPaint = NoPaint
  BY DEF LayerIsSound, LayerFields
<1>2. /\ LayerIsSound(n) /\ n.status = l.status /\ n.mutation = l.mutation
      /\ n.visibility = l.visibility /\ n.told = l.told /\ n.paintWaiter = l.paintWaiter
      /\ n.residents = l.residents /\ n.emptied = l.emptied
      /\ n.awaitingExternalCommit = l.awaitingExternalCommit /\ n.added = l.added
  BY <1>1, PaintDropped
<1> HIDE DEF n
<1>3. Progress(n, l)
  BY <1>2, LittleProgress DEF Tells
<1>4. QED
  BY <1>1, <1>2, <1>3 DEF n

LEMMA FailInv ==
  ASSUME NEW l, LayerIsSound(l), l.status # "removed"
  PROVE  LayerInv(fail(l)) /\ fail(l).paintWaiter = NoWaiter
         /\ (~l.mutation.defers => Progress(fail(l), l))
<1>1. DOMAIN l = LayerFields
  BY DEF LayerIsSound
<1>2. LooksLike(fail(l), l) /\ fail(l).paintWaiter = NoWaiter /\ Tells(fail(l), l)
  BY <1>1, Rejecting, RejectTells
<1>3. LayerInv(fail(l))
  BY <1>2, Alike DEF LayerInv, IsScheduled
<1>4. ~l.mutation.defers => Progress(fail(l), l)
  BY <1>2, LittleProgress DEF LooksLike
<1>5. QED
  BY <1>2, <1>3, <1>4

LEMMA CompleteInv ==
  ASSUME NEW l, LayerIsSound(l), l.added, NEW fence
  PROVE  LET c == completePendingFence(l, fence)
         IN  /\ LayerIsSound(c) /\ Progress(c, l)
             /\ c.pendingPaint # NoPaint => c.repaint
             /\ fence = "failed" /\ l.pendingPaint # NoPaint => c.paintWaiter = NoWaiter
             /\ (~(fence = "failed" /\ l.pendingPaint # NoPaint)) => c.added
<1> DEFINE c == completePendingFence(l, fence)
           done == [l EXCEPT !.pendingPaint = NoPaint]
<1>0. l.status # "removed" /\ DOMAIN l = LayerFields
  BY DEF LayerIsSound, OffMapInv
<1>1. LayerIsSound(done) /\ Progress(done, l) /\ done.added /\ done.status # "removed"
      /\ done.mutation = l.mutation /\ done.pendingPaint = NoPaint
  BY <1>0, DroppedInv
<1>2. CASE l.pendingPaint = NoPaint
  <2>1. c = l
    BY <1>2 DEF completePendingFence
  <2>2. Progress(l, l)
    BY LittleProgress DEF Tells
  <2>3. QED
    BY <1>2, <2>1, <2>2
<1>3. CASE l.pendingPaint # NoPaint /\ fence = "waiting"
  <2>1. c = [l EXCEPT !.repaint = TRUE]
    BY <1>3 DEF completePendingFence
  <2> HIDE DEF c
  <2>2. /\ LooksLike(c, l) /\ c.repaint /\ c.told = l.told /\ c.paintWaiter = l.paintWaiter
    BY <1>0, <2>1 DEF LooksLike, LayerFields
  <2>3. LayerIsSound(c) /\ Progress(c, l)
    BY <2>2, Alike, LittleProgress DEF LooksLike, Tells
  <2>4. c.added
    BY <2>2 DEF LooksLike
  <2>5. QED
    BY <1>3, <2>2, <2>3, <2>4 DEF c
<1>4. CASE l.pendingPaint # NoPaint /\ fence = "failed"
  <2> DEFINE r == IF l.mutation = NoMutation THEN done
                  ELSE rollbackResidencyMutation(done, l.mutation)
  <2>1. c = fail(r)
    BY <1>4 DEF completePendingFence
  <2>2. LayerIsSound(r) /\ r.status # "removed" /\ ~r.mutation.defers /\ Progress(r, l)
        /\ r.pendingPaint = NoPaint
    <3>1. CASE l.mutation = NoMutation
      <4>1. r = done /\ ~l.mutation.defers
        BY <3>1, Nulls
      <4> HIDE DEF r, done
      <4>2. QED
        BY <1>1, <4>1
    <3>2. CASE l.mutation # NoMutation
      <4> DEFINE q == rollbackResidencyMutation(done, l.mutation)
      <4> HIDE DEF done
      <4>1. /\ LayerIsSound(q) /\ q.pendingPaint = NoPaint /\ q.status = done.status
            /\ q.mutation = NoMutation
        BY <1>1, <3>2, RollbackInv
      <4>2. Progress(q, done)
        BY <1>1, <3>2, RollbackProgress
      <4>3. Progress(q, l)
        BY <1>1, <4>2, ProgressTwice
      <4>4. QED
        BY <1>1, <3>2, <4>1, <4>3, Nulls
    <3>3. QED
      BY <3>1, <3>2
  <2> HIDE DEF r, done
  <2>3. LayerInv(fail(r)) /\ fail(r).paintWaiter = NoWaiter /\ Progress(fail(r), r)
    BY <2>2, FailInv
  <2>4. Progress(fail(r), l)
    BY <2>2, <2>3, ProgressTwice
  <2>5. fail(r).pendingPaint = NoPaint
    BY <2>2, Rejecting DEF LooksLike, LayerIsSound
  <2>6. QED
    BY <1>4, <2>1, <2>3, <2>4, <2>5 DEF LayerInv
<1>5. CASE l.pendingPaint # NoPaint /\ fence \notin {"waiting", "failed"}
  <2>1. c = IF l.active = l.pendingPaint.observation THEN Settles(done, l.pendingPaint) ELSE done
    BY <1>5 DEF completePendingFence
  <2>2. l.active = l.pendingPaint.observation =>
          LET n == Settles(done, l.pendingPaint)
          IN  LayerIsSound(n) /\ Progress(n, l) /\ n.added /\ n.pendingPaint = NoPaint
    BY <1>5, SettlesInv
  <2> HIDE DEF done, c
  <2>3. LayerIsSound(c) /\ Progress(c, l) /\ c.added /\ c.pendingPaint = NoPaint
    BY <1>1, <2>1, <2>2
  <2>4. QED
    BY <1>5, <2>3 DEF c
<1>6. QED
  BY <1>2, <1>3, <1>4, <1>5

LEMMA FencedInv ==
  ASSUME NEW l, LayerIsSound(l), l.added, l.active \in l.textures, NEW presented
  PROVE  LayerInv(Fenced(l, presented)) /\ Progress(Fenced(l, presented), l)
<1> DEFINE n == Fenced(l, presented)
<1>1. n = [l EXCEPT !.pendingPaint = [observation |-> l.active, mutation |-> l.mutation,
                                      presented |-> presented],
                    !.repaint = TRUE]
  BY DEF Fenced
<1> HIDE DEF n
<1>2. /\ DOMAIN n = LayerFields /\ n.residents = l.residents /\ n.active = l.active
      /\ n.textures = l.textures /\ n.staging = l.staging /\ n.mutation = l.mutation
      /\ n.pendingPaint.observation = l.active /\ n.pendingPaint.mutation = l.mutation
      /\ n.awaitingExternalCommit = l.awaitingExternalCommit
      /\ n.paintWaiter = l.paintWaiter /\ n.visibility = l.visibility
      /\ n.status = l.status /\ n.recovering = l.recovering
      /\ n.contextEpoch = l.contextEpoch /\ n.contextLost = l.contextLost
      /\ n.uploading = l.uploading /\ n.uploads = l.uploads
      /\ n.strays = l.strays /\ n.emptied = l.emptied /\ n.added = l.added
      /\ n.told = l.told /\ n.repaint
      /\ n.residentReceipt = l.residentReceipt /\ n.paintReceipt = l.paintReceipt
  BY <1>1 DEF LayerIsSound, LayerFields
<1>3. ChangesInv(n)
  BY <1>2 DEF LayerIsSound, ChangesInv, Reverts
<1>4. ResidencyInv(n)
  <2>1. Known(n) = Known(l) /\ (Changing(n) <=> Changing(l))
    BY <1>2 DEF Known, Referenced, Changing
  <2>2. l.awaitingExternalCommit # NoMutation => l.active \in l.residents
    BY DEF LayerIsSound, ResidencyInv, Changing
  <2>3. QED
    BY <1>2, <2>1, <2>2 DEF LayerIsSound, ResidencyInv, IsSelectable
<1>5. OffMapInv(n) /\ PaintsInv(n) /\ WaiterInv(n) /\ FreshInv(n)
  BY <1>2 DEF LayerIsSound, OffMapInv, PaintsInv, WaiterInv, FreshInv
<1>6. Progress(n, l)
  BY <1>2, LittleProgress DEF Tells
<1>7. QED
  BY <1>2, <1>3, <1>4, <1>5, <1>6 DEF n, LayerInv, LayerIsSound, IsScheduled

LEMMA DrawsInv ==
  ASSUME NEW l, LayerIsSound(l), l.added, l.pendingPaint # NoPaint => l.repaint,
         NEW succeeds \in BOOLEAN
  PROVE  LayerInv(draws(l, succeeds)) /\ Progress(draws(l, succeeds), l)
<1> DEFINE n == draws(l, succeeds)
           dropped == [l EXCEPT !.pendingPaint = NoPaint]
           takenBack == IF l.pendingPaint # NoPaint
                        THEN rollbackResidencyMutation(dropped, l.pendingPaint.mutation)
                        ELSE IF l.mutation # NoMutation
                        THEN rollbackResidencyMutation(l, l.mutation) ELSE l
<1>0. l.status # "removed" /\ DOMAIN l = LayerFields
  BY DEF LayerIsSound, OffMapInv
<1>1. Progress(l, l)
  BY LittleProgress DEF Tells
<1>2. CASE l.active \notin l.textures
  <2>1. n = [l EXCEPT !.repaint = TRUE]
    BY <1>2 DEF draws
  <2> HIDE DEF n
  <2>2. LooksLike(n, l) /\ n.repaint /\ n.told = l.told /\ n.paintWaiter = l.paintWaiter
    BY <1>0, <2>1 DEF LooksLike, LayerFields
  <2>3. LayerInv(n) /\ Progress(n, l)
    BY <2>2, Alike, LittleProgress DEF LooksLike, Tells, LayerInv, IsScheduled
  <2>4. QED
    BY <2>3 DEF n
<1>3. CASE l.active \in l.textures /\ ~succeeds
  <2>1. n = fail(takenBack)
    BY <1>3 DEF draws
  <2>2. LayerIsSound(takenBack) /\ takenBack.status # "removed" /\ ~takenBack.mutation.defers
        /\ Progress(takenBack, l)
    <3>1. CASE l.pendingPaint # NoPaint
      <4> DEFINE q == rollbackResidencyMutation(dropped, l.pendingPaint.mutation)
      <4>1. /\ LayerIsSound(dropped) /\ Progress(dropped, l) /\ dropped.status = l.status
            /\ dropped.mutation = l.mutation /\ dropped.pendingPaint = NoPaint
        BY DroppedInv
      <4>2. /\ l.pendingPaint.mutation \in {NoMutation, l.mutation}
            /\ l.pendingPaint.mutation = NoMutation => ~l.mutation.defers
        BY <3>1, Nulls DEF LayerIsSound, ChangesInv
      <4> HIDE DEF dropped
      <4>3. LayerIsSound(q) /\ q.status = dropped.status /\ q.mutation = NoMutation
        BY <1>0, <4>1, <4>2, RollbackInv
      <4>4. Progress(q, dropped)
        BY <1>0, <4>1, <4>2, RollbackProgress
      <4>5. Progress(q, l)
        BY <4>1, <4>4, ProgressTwice
      <4>6. takenBack = q
        BY <3>1
      <4>7. QED
        BY <1>0, <4>1, <4>3, <4>5, <4>6, Nulls
    <3>2. CASE l.pendingPaint = NoPaint /\ l.mutation # NoMutation
      <4> DEFINE q == rollbackResidencyMutation(l, l.mutation)
      <4>1. LayerIsSound(q) /\ q.status = l.status /\ q.mutation = NoMutation
        BY <1>0, <3>2, RollbackInv
      <4>2. Progress(q, l)
        BY <1>0, <3>2, RollbackProgress
      <4>3. takenBack = q
        BY <3>2
      <4>4. QED
        BY <1>0, <4>1, <4>2, <4>3, Nulls
    <3>3. CASE l.pendingPaint = NoPaint /\ l.mutation = NoMutation
      BY <1>0, <1>1, <3>3, Nulls
    <3>4. QED
      BY <3>1, <3>2, <3>3
  <2> HIDE DEF takenBack, n
  <2>3. LayerInv(fail(takenBack)) /\ Progress(fail(takenBack), takenBack)
    BY <2>2, FailInv
  <2>4. Progress(n, l)
    BY <2>1, <2>2, <2>3, ProgressTwice
  <2>5. QED
    BY <2>1, <2>3, <2>4 DEF n
<1>4. CASE l.active \in l.textures /\ succeeds
  <2>1. l.active \in l.textures
    BY <1>4
  <2>2. (l.pendingPaint # NoPaint \/ l.paintReceipt # NoReceipt \/ l.residentReceipt # NoReceipt)
        => LayerInv(l)
    BY DEF LayerInv, IsScheduled, LayerIsSound, WaiterInv
  <2>3. \A presented : LayerInv(Fenced(l, presented)) /\ Progress(Fenced(l, presented), l)
    BY <2>1, FencedInv
  <2>4. \/ n \in {Fenced(l, FALSE), Fenced(l, TRUE)}
        \/ /\ n = l
           /\ l.pendingPaint # NoPaint \/ l.paintReceipt # NoReceipt
              \/ l.residentReceipt # NoReceipt
    BY <1>4 DEF draws, fenceResidentPresentation
  <2> HIDE DEF n
  <2>5. QED
    BY <1>1, <2>2, <2>3, <2>4 DEF n
<1>5. QED
  BY <1>2, <1>3, <1>4

LEMMA RenderInv ==
  ASSUME NEW l, LayerInv(l), l.added, NEW fence, NEW succeeds \in BOOLEAN
  PROVE  LayerInv(render(l, fence, succeeds)) /\ Progress(render(l, fence, succeeds), l)
<1> DEFINE m == [l EXCEPT !.repaint = FALSE]
           c == completePendingFence(m, fence)
           n == render(l, fence, succeeds)
<1>1. LooksLike(m, l) /\ m.told = l.told /\ m.paintWaiter = l.paintWaiter
      /\ m.pendingPaint = l.pendingPaint /\ m.added
  BY DEF LayerInv, LayerIsSound, LooksLike, LayerFields
<1>2. LayerIsSound(m) /\ Progress(m, l)
  BY <1>1, Alike, LittleProgress DEF LooksLike, Tells, LayerInv
<1> HIDE DEF m
<1>3. /\ LayerIsSound(c) /\ Progress(c, m)
      /\ c.pendingPaint # NoPaint => c.repaint
      /\ fence = "failed" /\ m.pendingPaint # NoPaint => c.paintWaiter = NoWaiter
      /\ (~(fence = "failed" /\ m.pendingPaint # NoPaint)) => c.added
  BY <1>1, <1>2, CompleteInv
<1>4. n = IF fence = "failed" /\ l.pendingPaint # NoPaint THEN c ELSE draws(c, succeeds)
  BY DEF render, m
<1> HIDE DEF c
<1>5. Progress(c, l)
  BY <1>2, <1>3, ProgressTwice
<1>6. CASE fence = "failed" /\ l.pendingPaint # NoPaint
  BY <1>1, <1>3, <1>4, <1>5, <1>6 DEF LayerInv, IsScheduled
<1>7. CASE ~(fence = "failed" /\ l.pendingPaint # NoPaint)
  <2>1. LayerInv(draws(c, succeeds)) /\ Progress(draws(c, succeeds), c)
    BY <1>1, <1>3, <1>7, DrawsInv
  <2>2. Progress(draws(c, succeeds), l)
    BY <1>5, <2>1, ProgressTwice
  <2>3. QED
    BY <1>4, <1>7, <2>1, <2>2
<1>8. QED
  BY <1>6, <1>7

-----------------------------------------------------------------------------
(* Losing the context, having it back, being removed.                       *)

LEMMA LostInv ==
  ASSUME NEW l, LayerInv(l), l.status # "removed"
  PROVE  LayerInv(handleContextLost(l)) /\ Progress(handleContextLost(l), l)
<1> DEFINE b == beginRecovery(l)
           n == handleContextLost(l)
           m == Interrupted(l)
           restored == IF m = NoMutation THEN l
                       ELSE rejectPaintWaiter(restoreResidencyState(l, m))
           c == clearReceipts(restored)
           dropped == [c EXCEPT !.recovering = TRUE, !.pendingPaint = NoPaint,
             !.mutation = NoMutation, !.awaitingExternalCommit = NoMutation,
             !.contextEpoch = @ + 1, !.status = "recovering"]
<1>0. DOMAIN l = LayerFields /\ LayerIsSound(l)
  BY DEF LayerInv, LayerIsSound
<1>1. LET forgotten == {b.active, b.mutation.active} \ (b.residents \cup {None})
      IN  n = [b EXCEPT !.contextLost = TRUE, !.added = FALSE, !.uploading = None,
                        !.uploads = {}, !.pendingPaint = NoPaint, !.repaint = FALSE,
                        !.textures = @ \cap forgotten, !.strays = forgotten]
  BY DEF handleContextLost
<1>2. /\ m \in {NoMutation, l.mutation, l.awaitingExternalCommit}
      /\ m = NoMutation => l.mutation = NoMutation /\ l.awaitingExternalCommit = NoMutation
  BY <1>0, Nulls DEF Interrupted, LayerIsSound, ChangesInv
<1>3. b = IF l.recovering THEN l ELSE rollbackStaging(dropped)
  BY DEF beginRecovery
<1>4. CASE l.recovering
  <2>1. b = l
    BY <1>3, <1>4
  <2> HIDE DEF b
  <2> DEFINE forgotten == {l.active, l.mutation.active} \ (l.residents \cup {None})
  <2>2. n = [l EXCEPT !.contextLost = TRUE, !.added = FALSE, !.uploading = None,
                      !.uploads = {}, !.pendingPaint = NoPaint, !.repaint = FALSE,
                      !.textures = @ \cap forgotten, !.strays = forgotten]
    BY <1>1, <2>1
  <2> HIDE DEF n, forgotten
  <2>3. /\ l.staging = None /\ l.paintReceipt = NoReceipt /\ l.contextEpoch \in Nat \ {0, 1}
        /\ ~Changing(l) /\ l.awaitingExternalCommit = NoMutation /\ ~l.mutation.defers
    BY <1>0, <1>4 DEF LayerIsSound, OffMapInv, PaintsInv, FreshInv, ResidencyInv, Changing
  <2>4. /\ DOMAIN n = LayerFields /\ n.residents = l.residents /\ n.active = l.active
        /\ n.textures = l.textures \cap forgotten /\ n.strays = forgotten
        /\ n.staging = None /\ n.pendingPaint = NoPaint
        /\ n.mutation = l.mutation /\ n.awaitingExternalCommit = l.awaitingExternalCommit
        /\ n.paintWaiter = l.paintWaiter /\ n.visibility = l.visibility
        /\ n.status = l.status /\ n.recovering = l.recovering
        /\ n.contextEpoch = l.contextEpoch
        /\ n.contextLost /\ n.uploading = None /\ n.uploads = {} /\ ~n.added
        /\ n.emptied = l.emptied /\ n.told = l.told
        /\ n.residentReceipt = l.residentReceipt /\ n.paintReceipt = NoReceipt
    BY <1>0, <2>2, <2>3 DEF LayerFields
  <2>5. l.active \in l.residents \cup forgotten /\ None \notin forgotten
        /\ (l.mutation # NoMutation => l.mutation.active \in l.residents \cup forgotten)
    BY <1>0, <2>3 DEF forgotten, LayerIsSound, ResidencyInv, ChangesInv, Reverts
  <2>6. ChangesInv(n)
    BY <1>0, <2>3, <2>4, <2>5 DEF LayerIsSound, ChangesInv, Reverts
  <2>7. ResidencyInv(n)
    BY <1>0, <2>3, <2>4, <2>5 DEF LayerIsSound, ResidencyInv, Changing
  <2>8. OffMapInv(n) /\ FreshInv(n)
    BY <1>0, <2>3, <2>4 DEF LayerIsSound, OffMapInv, FreshInv
  <2>9. PaintsInv(n) /\ WaiterInv(n) /\ IsScheduled(n)
    BY <1>0, <2>4 DEF LayerIsSound, PaintsInv, WaiterInv, IsScheduled
  <2>10. Progress(n, l)
    BY <2>4, LittleProgress DEF Tells
  <2>11. QED
    BY <2>4, <2>6, <2>7, <2>8, <2>9, <2>10 DEF n, LayerInv, LayerIsSound
<1>5. CASE ~l.recovering
  <2> HIDE DEF m
  <2>1. /\ DOMAIN restored = LayerFields /\ Tells(restored, l)
        /\ restored.residents = IF m = NoMutation THEN l.residents ELSE m.residents
        /\ restored.emptied = IF m = NoMutation THEN l.emptied ELSE m.emptied
        /\ restored.contextEpoch = l.contextEpoch
        /\ restored.active = IF m = NoMutation THEN l.active ELSE m.active
        /\ restored.visibility = l.visibility
        /\ restored.paintWaiter \in {l.paintWaiter, NoWaiter}
        /\ restored.staging = l.staging
    <3> DEFINE r == restoreResidencyState(l, m)
    <3>1. TakesBack(r, l, m)
      BY <1>0, RestoreGives
    <3> HIDE DEF r
    <3>2. LooksLike(rejectPaintWaiter(r), r) /\ Tells(rejectPaintWaiter(r), r)
      BY <3>1, Rejecting, RejectTells DEF TakesBack
    <3>3. CASE m = NoMutation
      BY <1>0, <3>3 DEF Tells
    <3>4. CASE m # NoMutation
      <4> DEFINE q == rejectPaintWaiter(r)
      <4> HIDE DEF q
      <4>1. LooksLike(q, r) /\ Tells(q, r)
        BY <3>2 DEF q
      <4>2. Tells(q, l)
        BY <3>1, <4>1 DEF TakesBack, Tells
      <4>3. restored = q
        BY <3>4 DEF q, r
      <4> HIDE DEF restored
      <4>4. QED
        BY <3>1, <3>4, <4>1, <4>2, <4>3 DEF LooksLike, TakesBack
    <3>5. QED
      BY <3>3, <3>4
  <2> HIDE DEF restored
  <2>2. /\ DOMAIN c = LayerFields /\ c.told = restored.told
        /\ c.paintWaiter = restored.paintWaiter /\ c.residents = restored.residents
        /\ c.active = restored.active /\ c.visibility = l.visibility
        /\ c.emptied = restored.emptied /\ c.contextEpoch = l.contextEpoch
        /\ c.paintReceipt = NoReceipt /\ c.residentReceipt = NoReceipt
    BY <2>1 DEF clearReceipts, LayerFields
  <2> HIDE DEF c
  <2>3. /\ DOMAIN dropped = LayerFields /\ dropped.told = restored.told
        /\ dropped.paintWaiter = restored.paintWaiter /\ dropped.residents = restored.residents
        /\ dropped.active = restored.active /\ dropped.visibility = l.visibility
        /\ dropped.emptied = restored.emptied /\ dropped.contextEpoch = l.contextEpoch + 1
        /\ dropped.paintReceipt = NoReceipt /\ dropped.residentReceipt = NoReceipt
        /\ dropped.mutation = NoMutation /\ dropped.awaitingExternalCommit = NoMutation
        /\ dropped.status = "recovering"
    BY <2>2 DEF LayerFields
  <2>4. b = rollbackStaging(dropped)
    BY <1>3, <1>5
  <2> HIDE DEF dropped, b
  <2>5. /\ DOMAIN b = LayerFields /\ b.told = restored.told
        /\ b.paintWaiter = restored.paintWaiter /\ b.residents = restored.residents
        /\ b.active = restored.active /\ b.visibility = l.visibility
        /\ b.emptied = restored.emptied /\ b.contextEpoch = l.contextEpoch + 1
        /\ b.paintReceipt = NoReceipt /\ b.residentReceipt = NoReceipt
        /\ b.mutation = NoMutation /\ b.awaitingExternalCommit = NoMutation
        /\ b.status = "recovering" /\ b.staging = None
    BY <2>3, <2>4 DEF rollbackStaging, deletePresentation, LayerFields
  <2> HIDE DEF n
  <2>6. /\ DOMAIN n = LayerFields /\ n.told = restored.told
        /\ n.paintWaiter = restored.paintWaiter /\ n.residents = restored.residents
        /\ n.active = restored.active /\ n.visibility = l.visibility
        /\ n.emptied = restored.emptied /\ n.contextEpoch = l.contextEpoch + 1
        /\ n.paintReceipt = NoReceipt /\ n.residentReceipt = NoReceipt
        /\ n.mutation = NoMutation /\ n.awaitingExternalCommit = NoMutation
        /\ n.status = "recovering" /\ n.staging = None /\ n.textures \subseteq n.strays
        /\ n.strays = {restored.active} \ (restored.residents \cup {None})
        /\ n.pendingPaint = NoPaint /\ n.contextLost /\ n.uploading = None
        /\ ~n.added
    BY <1>1, <2>5, Nulls DEF LayerFields
  <2>7. /\ m # NoMutation => Reverts(m, l)
        /\ l.residents \subseteq Nat /\ l.active \in l.residents \cup l.strays
        /\ None \notin l.strays /\ l.contextEpoch \in Nat \ {0}
    BY <1>0, <1>2 DEF LayerIsSound, ChangesInv, ResidencyInv, FreshInv
  <2>8. ChangesInv(n) /\ OffMapInv(n) /\ FreshInv(n)
    BY <2>6, <2>7, Nulls DEF ChangesInv, OffMapInv, Reverts, FreshInv
  <2>12. ResidencyInv(n)
    <3>1. restored.active \in restored.residents \cup l.strays /\ restored.residents \subseteq Nat
      BY <2>1, <2>7 DEF Reverts
    <3>2. n.active \in n.residents \cup n.strays
      BY <2>6, <2>7, <3>1
    <3>3. QED
      BY <2>6, <3>1, <3>2, Nulls DEF ResidencyInv, Changing
  <2>9. PaintsInv(n) /\ WaiterInv(n) /\ IsScheduled(n)
    BY <1>0, <2>1, <2>6 DEF LayerIsSound, PaintsInv, WaiterInv, IsScheduled
  <2>10. Progress(n, l)
    <3>1. Tells(n, l)
      BY <2>1, <2>6 DEF Tells
    <3>2. ~Changing(n) /\ ~n.mutation.defers
      BY <2>6, Nulls DEF Changing
    <3>3. Retained(n) = Retained(l) /\ RetainedEmptied(n) = RetainedEmptied(l)
      <4>1. /\ n.residents = IF m = NoMutation THEN l.residents ELSE m.residents
            /\ n.emptied = IF m = NoMutation THEN l.emptied ELSE m.emptied
        BY <2>1, <2>6
      <4>2. /\ Retained(n) = n.residents /\ RetainedEmptied(n) = n.emptied
        BY <2>6, Nulls DEF Retained, RetainedEmptied
      <4>3. CASE m = NoMutation
        BY <1>2, <4>1, <4>2, <4>3, Nulls DEF Retained, RetainedEmptied
      <4>4. CASE m # NoMutation
        <5>1. m \in {l.mutation, l.awaitingExternalCommit} /\ Reverts(m, l)
              /\ (l.mutation = NoMutation \/ l.awaitingExternalCommit = NoMutation)
              /\ (l.awaitingExternalCommit # NoMutation => l.awaitingExternalCommit.defers)
          BY <1>0, <1>2, <2>7, <4>4 DEF LayerIsSound, ChangesInv
        <5>2. QED
          BY <4>1, <4>2, <4>4, <5>1, Nulls DEF Retained, RetainedEmptied, Reverts
      <4>5. QED
        BY <4>3, <4>4
    <3>4. QED
      BY <2>6, <3>1, <3>2, <3>3 DEF Progress
  <2>11. QED
    BY <2>6, <2>8, <2>9, <2>10, <2>12 DEF n, LayerInv, LayerIsSound
<1>6. QED
  BY <1>4, <1>5

LEMMA AddedInv ==
  ASSUME NEW l, LayerInv(l), l.contextLost
  PROVE  LET n == onAdd(handleContextRestored(l)) IN LayerInv(n) /\ Progress(n, l)
<1> DEFINE n == onAdd(handleContextRestored(l))
<1>1. DOMAIN l = LayerFields /\ l.status # "removed" /\ ~l.added /\ l.staging = None
      /\ l.pendingPaint = NoPaint /\ l.textures \subseteq l.strays /\ l.contextEpoch # 1
      /\ l.active \in l.residents \cup l.strays
  BY DEF LayerInv, LayerIsSound, OffMapInv, FreshInv, ResidencyInv
<1>2. /\ DOMAIN n = LayerFields /\ n.residents = l.residents /\ n.active = l.active
      /\ n.textures = l.textures /\ n.staging = None /\ n.pendingPaint = NoPaint
      /\ n.mutation = l.mutation /\ n.awaitingExternalCommit = l.awaitingExternalCommit
      /\ n.paintWaiter = l.paintWaiter /\ n.visibility = l.visibility
      /\ n.status = "recovering" /\ n.recovering = l.recovering
      /\ n.contextEpoch = l.contextEpoch /\ n.strays = l.strays /\ n.emptied = l.emptied
      /\ n.uploading = l.active /\ n.uploads \subseteq l.residents \cup l.strays
      /\ ~n.contextLost /\ n.added /\ n.told = l.told /\ n.repaint
      /\ n.residentReceipt = NoReceipt /\ n.paintReceipt = NoReceipt
  <2> DEFINE r == handleContextRestored(l)
             c == clearReceipts(r)
  <2>1. /\ DOMAIN r = LayerFields /\ r = [l EXCEPT !.contextLost = FALSE]
        /\ Filled(r) \subseteq l.residents \cup {l.active}
    BY <1>1 DEF handleContextRestored, LayerFields, Filled
  <2>2. n = [c EXCEPT !.added = TRUE, !.status = "recovering", !.repaint = TRUE,
                      !.uploading = r.active, !.uploads = Filled(r) \ {r.active}]
    BY DEF onAdd
  <2> HIDE DEF n, r
  <2>3. QED
    BY <1>1, <2>1, <2>2 DEF clearReceipts, LayerFields
<1> HIDE DEF n
<1>3. ChangesInv(n) /\ OffMapInv(n) /\ FreshInv(n)
  BY <1>1, <1>2 DEF LayerInv, LayerIsSound, ChangesInv, Reverts, OffMapInv, FreshInv
<1>7. ResidencyInv(n)
  <2>1. l.residents \cup l.strays \subseteq Known(n) /\ (Changing(n) <=> Changing(l))
    BY <1>2 DEF Known, Referenced, Changing
  <2>2. QED
    BY <1>1, <1>2, <2>1 DEF LayerInv, LayerIsSound, ResidencyInv
<1>4. PaintsInv(n) /\ WaiterInv(n) /\ IsScheduled(n)
  BY <1>2 DEF LayerInv, LayerIsSound, PaintsInv, WaiterInv, IsScheduled
<1>5. Progress(n, l)
  BY <1>1, <1>2, LittleProgress DEF Tells
<1>6. QED
  BY <1>2, <1>3, <1>4, <1>5, <1>7 DEF n, LayerInv, LayerIsSound

LEMMA LeastIsMember ==
  ASSUME NEW S, S \subseteq Nat, S # {}
  PROVE  Min(S) \in S /\ \A n \in S : Min(S) <= n
<1> DEFINE Less == {p \in Nat \X Nat : p[1] < p[2]}
<1>1. IsWellFoundedOn(Less, Nat)
  BY NatLessThanWellFounded DEF OpToRel
<1>2. PICK n \in S : \A m \in S : ~ (<<m, n>> \in Less)
  <2> HIDE DEF Less
  <2> QED BY <1>1, WFMin
<1>3. ASSUME NEW m \in S PROVE n <= m
  <2>1. m \in Nat /\ n \in Nat
    OBVIOUS
  <2>2. m < n => <<m, n>> \in Less
    BY <2>1
  <2>3. QED
    BY <1>2, <2>1, <2>2
<1>4. QED
  BY <1>3 DEF Min

LEMMA RehydratesInv ==
  ASSUME NEW l, LayerInv(l), l.uploading # None, NEW following \in FollowingUpload(l)
  PROVE  LayerInv(Rehydrates(l, following)) /\ Progress(Rehydrates(l, following), l)
<1> DEFINE n == Rehydrates(l, following)
<1>1. DOMAIN l = LayerFields /\ l.added /\ following \in l.uploads \cup {None}
  BY DEF LayerInv, LayerIsSound, OffMapInv, FollowingUpload
<1>2. /\ DOMAIN n = LayerFields /\ n.residents = l.residents /\ n.active = l.active
      /\ n.textures = l.textures \cup {l.uploading}
      /\ n.staging = l.staging /\ n.pendingPaint = l.pendingPaint
      /\ n.mutation = l.mutation /\ n.awaitingExternalCommit = l.awaitingExternalCommit
      /\ n.paintWaiter = l.paintWaiter /\ n.visibility = l.visibility
      /\ n.status = l.status /\ n.recovering = l.recovering /\ n.contextEpoch = l.contextEpoch
      /\ n.contextLost = l.contextLost /\ n.added = l.added /\ n.told = l.told /\ n.repaint
      /\ n.uploading = following /\ n.uploads = l.uploads \ {following}
      /\ n.strays = l.strays /\ n.emptied = l.emptied
      /\ n.residentReceipt = l.residentReceipt /\ n.paintReceipt = l.paintReceipt
  BY <1>1 DEF Rehydrates, LayerFields
<1> HIDE DEF n
<1>3. ChangesInv(n) /\ OffMapInv(n) /\ FreshInv(n)
  BY <1>1, <1>2 DEF LayerInv, LayerIsSound, ChangesInv, Reverts, OffMapInv, FreshInv
<1>4. ResidencyInv(n)
  <2>1. Known(n) = Known(l)
    BY <1>2 DEF Known, Referenced
  <2>2. QED
    BY <1>1, <1>2, <2>1 DEF LayerInv, LayerIsSound, ResidencyInv, Changing, IsSelectable
<1>5. PaintsInv(n) /\ WaiterInv(n) /\ IsScheduled(n)
  BY <1>2 DEF LayerInv, LayerIsSound, PaintsInv, WaiterInv, IsScheduled
<1>6. Progress(n, l)
  BY <1>2, LittleProgress DEF Tells
<1>7. QED
  BY <1>2, <1>3, <1>4, <1>5, <1>6 DEF n, LayerInv, LayerIsSound

(* The loop is given up: whoever waits is told, and keeps what an update    *)
(* has changed.                                                             *)
LEMMA RehydrationFailsInv ==
  ASSUME NEW l, LayerInv(l), l.uploading # None
  PROVE  LET n == fail([l EXCEPT !.uploading = None, !.uploads = {}])
         IN  /\ LayerInv(n) /\ Tells(n, l) /\ n.visibility = l.visibility
             /\ n.status # "removed" /\ n.paintWaiter = NoWaiter
<1> DEFINE m == [l EXCEPT !.uploading = None, !.uploads = {}]
<1>1. l.status # "removed" /\ LooksLike(m, l) /\ m.told = l.told
      /\ m.paintWaiter = l.paintWaiter
  BY DEF LayerInv, LayerIsSound, OffMapInv, LooksLike, LayerFields
<1>2. LayerIsSound(m)
  BY <1>1, Alike DEF LayerInv
<1> HIDE DEF m
<1>3. DOMAIN m = LayerFields /\ m.status # "removed"
  BY <1>1 DEF LooksLike
<1>4. LayerInv(fail(m)) /\ fail(m).paintWaiter = NoWaiter
  BY <1>2, <1>3, FailInv
<1>5. LooksLike(fail(m), m) /\ Tells(fail(m), m)
  BY <1>3, Rejecting, RejectTells
<1>6. Tells(fail(m), l)
  BY <1>1, <1>5 DEF Tells
<1>7. QED
  BY <1>1, <1>3, <1>4, <1>5, <1>6 DEF m, LooksLike

LEMMA RemovedInv ==
  ASSUME NEW l, LayerInv(l), l.added
  PROVE  LET n == onRemove(l)
         IN  /\ LayerInv(n) /\ Tells(n, l) /\ n.visibility = l.visibility
             /\ n.status = "removed" /\ n.paintWaiter = NoWaiter
<1> DEFINE stopped == [l EXCEPT !.uploading = None, !.uploads = {}]
           u == rollbackStaging(stopped)
           kept == rejectPaintWaiter(u)
           a == kept.awaitingExternalCommit
           restored == IF a = NoMutation THEN kept ELSE restoreResidencyState(kept, a)
           n == onRemove(l)
<1>0. DOMAIN l = LayerFields /\ ~l.contextLost
  BY DEF LayerInv, LayerIsSound, OffMapInv
<1>1. LayerIsSound(u) /\ Stands(u, l) /\ DOMAIN u = LayerFields /\ u.staging = None
      /\ u.contextLost = l.contextLost /\ u.recovering = l.recovering /\ u.uploading = None
      /\ u.contextEpoch = l.contextEpoch /\ None \notin u.strays
  <2>1. LooksLike(stopped, l) /\ stopped.told = l.told /\ stopped.paintWaiter = l.paintWaiter
        /\ stopped.uploading = None
    BY <1>0 DEF LooksLike, LayerFields
  <2>2. LayerIsSound(stopped)
    BY <2>1, Alike DEF LayerInv
  <2> HIDE DEF stopped
  <2>3. LayerIsSound(u) /\ Stands(u, stopped)
    BY <2>2, UnstagedInv
  <2>4. /\ u.staging = None /\ u.contextLost = stopped.contextLost
        /\ u.recovering = stopped.recovering /\ u.uploading = None
        /\ u.contextEpoch = stopped.contextEpoch
    BY <2>1, <2>2 DEF rollbackStaging, deletePresentation, LayerFields, LayerIsSound
  <2>5. Stands(u, l)
    BY <2>1, <2>3 DEF Stands, LooksLike
  <2>6. QED
    BY <2>1, <2>3, <2>4, <2>5 DEF LayerIsSound, ResidencyInv, LooksLike
<1> HIDE DEF u
<1>2. LooksLike(kept, u) /\ Tells(kept, u) /\ kept.paintWaiter = NoWaiter
  BY <1>1, Rejecting, RejectTells
<1> HIDE DEF kept
<1>3. /\ DOMAIN restored = LayerFields /\ restored.told = kept.told
      /\ restored.paintWaiter = NoWaiter /\ restored.visibility = kept.visibility
      /\ restored.staging = kept.staging /\ restored.contextLost = kept.contextLost
      /\ restored.recovering = kept.recovering /\ restored.contextEpoch = kept.contextEpoch
      /\ restored.strays = kept.strays /\ restored.uploading = None
  <2>1. DOMAIN kept = LayerFields /\ kept.uploading = None
    BY <1>1, <1>2 DEF LooksLike
  <2>2. TakesBack(restoreResidencyState(kept, a), kept, a)
    BY <2>1, RestoreGives
  <2> HIDE DEF a
  <2>3. QED
    BY <1>2, <2>1, <2>2 DEF TakesBack
<1>4. n = [restored EXCEPT !.textures = @ \ restored.residents, !.mutation = NoMutation,
             !.awaitingExternalCommit = NoMutation, !.residents = {}, !.emptied = {},
             !.active = None, !.pendingPaint = NoPaint, !.added = FALSE, !.status = "removed"]
  BY DEF onRemove, restored, a, kept, u, stopped
<1> HIDE DEF restored, n
<1>5. /\ DOMAIN n = LayerFields /\ n.told = kept.told /\ n.paintWaiter = NoWaiter
      /\ n.visibility = l.visibility /\ n.staging = None /\ ~n.contextLost
      /\ n.mutation = NoMutation /\ n.awaitingExternalCommit = NoMutation
      /\ n.residents = {} /\ n.emptied = {} /\ n.pendingPaint = NoPaint /\ ~n.added
      /\ n.uploading = None /\ n.strays = u.strays /\ n.contextEpoch = u.contextEpoch
      /\ n.recovering = u.recovering /\ n.status = "removed"
  <2>1. /\ DOMAIN n = LayerFields /\ n.told = restored.told
        /\ n.paintWaiter = restored.paintWaiter /\ n.visibility = restored.visibility
        /\ n.staging = restored.staging /\ n.contextLost = restored.contextLost
        /\ n.mutation = NoMutation /\ n.awaitingExternalCommit = NoMutation
        /\ n.residents = {} /\ n.emptied = {} /\ n.pendingPaint = NoPaint /\ ~n.added
        /\ n.uploading = restored.uploading /\ n.strays = restored.strays
        /\ n.contextEpoch = restored.contextEpoch /\ n.recovering = restored.recovering
        /\ n.status = "removed"
    BY <1>3, <1>4 DEF LayerFields
  <2>2. /\ kept.visibility = u.visibility /\ kept.staging = u.staging
        /\ kept.contextLost = u.contextLost /\ kept.recovering = u.recovering
        /\ kept.contextEpoch = u.contextEpoch /\ kept.strays = u.strays
    BY <1>2 DEF LooksLike
  <2>3. QED
    BY <1>0, <1>1, <1>3, <2>1, <2>2 DEF Stands
<1>6. ChangesInv(n) /\ ResidencyInv(n) /\ OffMapInv(n) /\ FreshInv(n)
  BY <1>1, <1>5, Nulls DEF ChangesInv, ResidencyInv, OffMapInv, Reverts, Changing,
     FreshInv, LayerIsSound
<1>7. PaintsInv(n) /\ WaiterInv(n) /\ IsScheduled(n)
  BY <1>5 DEF PaintsInv, WaiterInv, IsScheduled
<1>8. Tells(n, l)
  <2>1. u.told = l.told /\ u.paintWaiter = l.paintWaiter
    BY <1>1 DEF Stands
  <2>2. n.told = kept.told /\ n.paintWaiter = kept.paintWaiter
    BY <1>2, <1>5
  <2>3. Tells(kept, u)
    BY <1>2
  <2>4. QED
    BY <2>1, <2>2, <2>3 DEF Tells
<1>9. QED
  BY <1>5, <1>6, <1>7, <1>8 DEF n, LayerInv, LayerIsSound

-----------------------------------------------------------------------------
(* The newest observations.                                                 *)

LEMMA LastExists ==
  ASSUME NEW S, IsFiniteSet(S), S \subseteq Nat, S # {}
  PROVE  \E m \in S : \A s \in S : s <= m
<1> DEFINE Later(s) == {q \in S : q > s}
           D == {Cardinality(Later(s)) : s \in S}
<1>1. \A s \in S : IsFiniteSet(Later(s)) /\ Cardinality(Later(s)) \in Nat
  BY FS_Subset, FS_CardinalityType
<1>2. D \subseteq Nat /\ D # {}
  BY <1>1
<1>3. Min(D) \in D /\ \A d \in D : Min(D) <= d
  <2> HIDE DEF D
  <2>1. QED
    BY <1>2, LeastIsMember
<1>4. PICK m \in S : Cardinality(Later(m)) = Min(D)
  BY <1>3
<1>5. ASSUME NEW s \in S, ~(s <= m) PROVE FALSE
  <2>1. s \in Nat /\ m \in Nat /\ s > m
    BY <1>5
  <2>2. Later(s) \subseteq Later(m)
    <3>1. ASSUME NEW q \in S, q > s PROVE q > m
      <4>1. q \in Nat
        OBVIOUS
      <4>2. QED
        BY <2>1, <3>1, <4>1
    <3>2. QED
      BY <3>1
  <2>3. s \in Later(m) /\ s \notin Later(s)
    BY <2>1
  <2>4. Cardinality(Later(s)) < Cardinality(Later(m))
    <3>1. IsFiniteSet(Later(m))
      BY <1>1
    <3> HIDE DEF Later
    <3>2. Cardinality(Later(s)) <= Cardinality(Later(m))
          /\ (Cardinality(Later(s)) = Cardinality(Later(m)) => Later(s) = Later(m))
      BY <2>2, <3>1, FS_Subset
    <3>3. Cardinality(Later(s)) \in Nat /\ Cardinality(Later(m)) \in Nat
      BY <1>1
    <3>4. QED
      BY <2>3, <3>2, <3>3
  <2>5. Cardinality(Later(s)) \in D /\ Cardinality(Later(m)) = Min(D)
    BY <1>4
  <2>6. Min(D) <= Cardinality(Later(s)) /\ Cardinality(Later(s)) \in Nat
        /\ Cardinality(Later(m)) \in Nat
    BY <1>1, <1>3, <2>5
  <2> HIDE DEF D, Later
  <2>7. QED
    BY <2>4, <2>5, <2>6
<1>6. QED
  BY <1>5

LEMMA GreatestIsMember ==
  ASSUME NEW S, IsFiniteSet(S), S \subseteq Nat, S # {}
  PROVE  Max(S) \in S /\ \A n \in S : n <= Max(S)
<1>1. PICK m \in S : \A s \in S : s <= m
  BY LastExists
<1>2. \A s \in S : m >= s
  BY <1>1
<1>3. Max(S) \in S /\ \A n \in S : Max(S) >= n
  BY <1>2 DEF Max
<1>4. QED
  BY <1>3

LEMMA NewestKeepsLast ==
  ASSUME NEW S, IsFiniteSet(S), S \subseteq Nat, S # {}
  PROVE  LET N == Newest(S, Limit)
         IN  /\ N \subseteq S /\ IsFiniteSet(N) /\ N # {}
             /\ \A s \in S : \E n \in N : s <= n
<1> DEFINE N == Newest(S, Limit)
<1>1. N \subseteq S
  BY DEF Newest
<1>2. IsFiniteSet(N)
  BY <1>1, FS_Subset
<1>3. PICK m \in S : \A s \in S : s <= m
  BY LastExists
<1>4. {q \in S : q > m} = {}
  <2>1. ASSUME NEW q \in S PROVE ~(q > m)
    <3>1. q \in Nat /\ m \in Nat /\ q <= m
      BY <1>3
    <3>2. QED
      BY <3>1
  <2>2. QED
    BY <2>1
<1>5. m \in N
  <2>1. Cardinality({q \in S : q > m}) = 0
    BY <1>4, FS_EmptySet
  <2>2. 0 < Limit
    BY BoundsAreNumbers
  <2>3. Cardinality({q \in S : q > m}) < Limit
    BY <2>1, <2>2
  <2>4. QED
    BY <2>3 DEF Newest
<1>6. QED
  BY <1>1, <1>2, <1>3, <1>5

(* An observation that is newer than all, or for which there is room, stays. *)
LEMMA NewestHasNew ==
  ASSUME NEW S, IsFiniteSet(S), S \subseteq Nat, NEW o \in Nat,
         (\A s \in S : s < o) \/ Cardinality(S) < Limit
  PROVE  o \in Newest(S \cup {o}, Limit)
<1> DEFINE L == {q \in S \cup {o} : q > o}
<1>1. L \subseteq S
  OBVIOUS
<1>2. Cardinality(L) \in Nat /\ Cardinality(L) <= Cardinality(S) /\ Cardinality(S) \in Nat
  BY <1>1, FS_Subset, FS_CardinalityType
<1>3. Cardinality(L) < Limit
  <2>1. CASE \A s \in S : s < o
    <3>1. L = {}
      <4>1. ASSUME NEW q \in S \cup {o} PROVE ~(q > o)
        <5>1. q \in Nat /\ (q < o \/ q = o)
          BY <2>1
        <5>2. QED
          BY <5>1
      <4>2. QED
        BY <4>1
    <3> HIDE DEF L
    <3>2. Cardinality(L) = 0 /\ 0 < Limit
      BY <3>1, FS_EmptySet, BoundsAreNumbers
    <3>3. QED
      BY <3>2
  <2>2. CASE Cardinality(S) < Limit
    <3> HIDE DEF L
    <3>1. QED
      BY <1>2, <2>2, BoundsAreNumbers
  <2>3. QED
    BY <2>1, <2>2
<1>4. QED
  BY <1>3 DEF Newest

-----------------------------------------------------------------------------
(* The invariant.                                                           *)

PlayerFields == {"playing", "timer", "starting", "operation", "observations", "mine",
                 "wasPlaying", "replacementPending", "disposed"}
TaskFields == {"pc", "target", "plays", "receipt"}
CommitFields == {"candidate", "proposed", "newest", "resume", "receipt", "sealed"}
AppFields == {"shown", "revealing", "resident", "history", "backend", "reserved", "owned",
              "unpublished"}
BoundsFields == {"requests", "faults", "recoveryFailed"}

TaskShape(T) == DOMAIN T = Task /\ \A t \in Task : DOMAIN T[t] = TaskFields

Shape ==
  /\ DOMAIN layer.told = Task /\ DOMAIN player = PlayerFields /\ DOMAIN commit = CommitFields
  /\ TaskShape(task) /\ DOMAIN app = AppFields /\ DOMAIN bounds = BoundsFields

Awaits(l, t) == l.paintWaiter # NoWaiter /\ l.paintWaiter.task = t

(* Who is told of a paint, or waits for one, has asked for it; who waits    *)
(* has not been told; only a reveal waits for a paint on the screen.        *)
PromisesInv ==
  /\ \A t \in {Commit, Reveal} : Awaits(layer, t) => layer.told[t] = Nothing
  /\ layer.told[Commit] # Nothing \/ Awaits(layer, Commit) =>
       task[Commit].pc \in {"painting", "rollingBack"}
  /\ layer.told[Reveal] # Nothing \/ Awaits(layer, Reveal) => task[Reveal].pc = "painting"
  /\ layer.paintWaiter # NoWaiter /\ layer.paintWaiter.requirePresented =>
       layer.paintWaiter.task = Reveal

(* A change of the residents belongs to the update, which still waits for   *)
(* its paint or is about to commit.                                         *)
UpdateInv ==
  /\ commit.sealed => task[Commit].pc \in {"sealing", "receipt"}
  /\ ~bounds.recoveryFailed =>
     /\ layer.mutation.defers => Awaits(layer, Commit) /\ task[Commit].pc = "painting"
     /\ layer.awaitingExternalCommit # NoMutation =>
          task[Commit].pc \in {"painting", "committing"}

(* Behind a Site the loop rests, and no update resumes it.                  *)
SourceInv ==
  /\ app.resident => /\ app.shown = "site" /\ app.owned
                     /\ ~player.playing /\ (commit.resume => ~player.mine)
  /\ app.shown = "national" => app.owned
  /\ player.disposed => ~app.owned
  /\ layer.status = "removed" => ~app.owned
  /\ task[Reveal].pc # "idle" => app.resident
  /\ app.resident /\ task[Reveal].pc \in {"idle", "busy"} => layer.visibility = "resident"

IsSeries(observations) ==
  IsFiniteSet(observations) /\ observations # {} /\ observations \subseteq Nat

(* What an update adds is among the newest and so not dropped at once.      *)
HistoryInv ==
  /\ IsSeries(app.history) /\ IsSeries(app.backend)
  /\ \A h \in app.history : \E b \in app.backend : h <= b
  /\ player.observations = app.history
  /\ task[Commit].pc # "idle" =>
       /\ commit.candidate \in Nat
       /\ commit.candidate \in Newest(app.history \cup {commit.candidate}, Limit)
  /\ task[Commit].pc \notin {"idle", "prepared", "acquired", "rollingBack"} =>
       commit.proposed = Newest(app.history \cup {commit.candidate}, Limit)

(* The residents are what has been proposed as long as they may be taken    *)
(* back, and taken back they are the history, unless a commit has thrown.   *)
LoopInv ==
  app.owned /\ ~bounds.recoveryFailed =>
  /\ Changing(layer) \/ task[Commit].pc \in {"sealing", "receipt"} =>
       layer.residents = commit.proposed
  /\ task[Commit].pc = "receipt" => app.backend = commit.proposed /\ app.unpublished
  /\ ~app.unpublished => app.history = app.backend
  /\ ~app.unpublished /\ task[Commit].pc # "sealing" /\ RetainedEmptied(layer) = {} =>
       Retained(layer) = app.history

NationalInv ==
  /\ LayerInv(layer) /\ Shape
  /\ PromisesInv /\ UpdateInv /\ SourceInv /\ HistoryInv /\ LoopInv

-----------------------------------------------------------------------------
(* The controller.                                                          *)

Keeps(q, p) ==
  DOMAIN q = PlayerFields /\ q.observations = p.observations /\ q.disposed = p.disposed

(* The loop is not started, and may not be started for an update either.    *)
Calms(q, p) == Keeps(q, p) /\ (q.playing => p.playing) /\ (q.mine => p.mine)

LEMMA PlayerOperations ==
  ASSUME NEW p, DOMAIN p = PlayerFields, NEW resume
  PROVE  /\ Calms(p, p)
         /\ Calms(pause(p), p)
         /\ ~p.disposed => ~pause(p).playing /\ ~pause(p).mine
         /\ Keeps(startPlayback(p), p)
         /\ Keeps(pauseAndWait(p), p) /\ (pauseAndWait(p).playing => p.playing)
         /\ Keeps(resumeAfterMutation(p, resume), p)
         /\ ~(resume /\ p.mine) => Calms(resumeAfterMutation(p, resume), p)
         /\ Calms(scheduleNext(p), p)
<1> USE DEF Calms, Keeps, PlayerFields
<1>1. Calms(p, p) /\ Calms(scheduleNext(p), p)
  BY DEF scheduleNext
<1>2. Calms(pause(p), p) /\ (~p.disposed => ~pause(p).playing /\ ~pause(p).mine)
  BY DEF pause
<1>3. \A q : DOMAIN q = PlayerFields => Keeps(startPlayback(q), q)
  BY DEF startPlayback
<1>4. Keeps(pauseAndWait(p), p) /\ (pauseAndWait(p).playing => p.playing)
  <2> DEFINE q == pause(p)
  <2>1. pauseAndWait(p) = [q EXCEPT !.mine = TRUE,
                             !.wasPlaying = p.playing /\ p.replacementPending]
    BY DEF pauseAndWait
  <2> HIDE DEF q
  <2>2. Calms(q, p)
    BY <1>2 DEF q
  <2>3. QED
    BY <2>1, <2>2
<1>5. /\ Keeps(resumeAfterMutation(p, resume), p)
      /\ ~(resume /\ p.mine) => Calms(resumeAfterMutation(p, resume), p)
  <2> DEFINE q == [p EXCEPT !.wasPlaying = FALSE]
  <2>1. resumeAfterMutation(p, resume) = IF resume /\ p.mine THEN startPlayback(q) ELSE q
    BY DEF resumeAfterMutation
  <2>2. Calms(q, p)
    OBVIOUS
  <2> HIDE DEF q
  <2>3. Keeps(startPlayback(q), q)
    BY <1>3, <2>2
  <2>4. QED
    BY <2>1, <2>2, <2>3
<1>6. QED
  BY <1>1, <1>2, <1>3, <1>4, <1>5

LEMMA CalmsTwice ==
  ASSUME NEW p, NEW q, NEW r, Calms(q, p), Calms(r, q)
  PROVE  Calms(r, p)
BY DEF Calms, Keeps

LEMMA PlayerNotes ==
  ASSUME NEW p, DOMAIN p = PlayerFields, NEW x
  PROVE  /\ Calms([p EXCEPT !.operation = x], p)
         /\ Calms([p EXCEPT !.timer = x], p)
         /\ Calms([p EXCEPT !.starting = x], p)
         /\ Calms([p EXCEPT !.replacementPending = x], p)
BY DEF Calms, Keeps, PlayerFields

LEMMA AcceptsHistory ==
  ASSUME NEW p, DOMAIN p = PlayerFields, NEW l, NEW observations, NEW receipt
  PROVE  LET q == acceptHistory(p, l, observations, receipt)
         IN  /\ DOMAIN q = PlayerFields /\ q.observations = observations
             /\ q.disposed = p.disposed /\ q.playing = p.playing /\ q.mine = p.mine
<1> DEFINE r == [p EXCEPT !.observations = observations]
<1>1. /\ DOMAIN r = PlayerFields /\ r.observations = observations
      /\ r.disposed = p.disposed /\ r.playing = p.playing /\ r.mine = p.mine
  BY DEF PlayerFields
<1>2. acceptHistory(p, l, observations, receipt) =
        IF acceptsHistory(r, l, receipt) THEN [r EXCEPT !.replacementPending = FALSE] ELSE r
  BY DEF acceptHistory
<1> HIDE DEF r
<1>3. QED
  BY <1>1, <1>2 DEF PlayerFields

-----------------------------------------------------------------------------
(* Steps that leave the update and the reveal where they are.               *)

SameBounds ==
  DOMAIN bounds' = BoundsFields /\ bounds'.recoveryFailed = bounds.recoveryFailed

SameApp ==
  /\ DOMAIN app' = AppFields
  /\ app'.shown = app.shown /\ app'.resident = app.resident /\ app'.owned = app.owned
  /\ app'.history = app.history /\ app'.backend = app.backend
  /\ app'.unpublished = app.unpublished

(* Another call than the update and the reveal is concerned.                *)
Elsewhere(n, l) ==
  /\ DOMAIN n.told = Task /\ n.told[Commit] = l.told[Commit] /\ n.told[Reveal] = l.told[Reveal]
  /\ n.visibility = l.visibility /\ LeavesChanges(n, l)
  /\ \/ n.paintWaiter = l.paintWaiter
     \/ /\ l.paintWaiter = NoWaiter
        /\ n.paintWaiter.task \notin {Commit, Reveal} /\ ~n.paintWaiter.requirePresented

StaysOrIsHeld(later, pc) == later = pc \/ (pc = "holding" /\ later \in {"held", "refused"})

LEMMA TaskGoes ==
  ASSUME TaskShape(task), NEW t \in Task, NEW pc, Goes(t, pc)
  PROVE  /\ TaskShape(task') /\ task'[t].pc = pc /\ task'[t].target = task[t].target
         /\ \A u \in Task \ {t} : task'[u] = task[u]
BY DEF TaskShape, TaskFields, Goes

LEMMA TaskBecomes ==
  ASSUME TaskShape(task), NEW t \in Task, NEW x, DOMAIN x = TaskFields,
         task' = [task EXCEPT ![t] = x]
  PROVE  /\ TaskShape(task') /\ task'[t] = x
         /\ \A u \in Task \ {t} : task'[u] = task[u]
BY DEF TaskShape, TaskFields

LEMMA IdleTask == DOMAIN NoTask = TaskFields /\ NoTask.pc = "idle"
BY DEF TaskFields, NoTask

LEMMA TaskEnds ==
  ASSUME TaskShape(task), NEW t \in Task, task' = [task EXCEPT ![t] = NoTask]
  PROVE  /\ TaskShape(task') /\ task'[t].pc = "idle"
         /\ \A u \in Task \ {t} : task'[u] = task[u]
<1>1. TaskShape(task') /\ task'[t] = NoTask /\ \A u \in Task \ {t} : task'[u] = task[u]
  BY IdleTask, TaskBecomes
<1>2. QED
  BY <1>1, IdleTask

LEMMA SideStep ==
  ASSUME NationalInv, LayerInv(layer'), Elsewhere(layer', layer), UNCHANGED commit,
         SameBounds, SameApp, Keeps(player', player), app.resident => Calms(player', player),
         TaskShape(task'), \A t \in {Commit, Reveal} : StaysOrIsHeld(task'[t].pc, task[t].pc)
  PROVE  NationalInv'
<1> USE DEF NationalInv, StaysOrIsHeld
<1>1. Shape'
  BY DEF Shape, Elsewhere, SameBounds, SameApp, Keeps
<1>2. PromisesInv'
  BY DEF PromisesInv, Elsewhere, Awaits
<1>3. Changing(layer') = Changing(layer) /\ Retained(layer') = Retained(layer)
      /\ RetainedEmptied(layer') = RetainedEmptied(layer)
      /\ layer'.residents = layer.residents
      /\ layer'.awaitingExternalCommit = layer.awaitingExternalCommit
  BY DEF Elsewhere, LeavesChanges, Changing, Retained, RetainedEmptied
<1>4. UpdateInv'
  <2>1. layer'.mutation.defers /\ ~bounds.recoveryFailed => Awaits(layer', Commit)
                                                           /\ layer.mutation.defers
    BY DEF UpdateInv, Elsewhere, LeavesChanges, Awaits
  <2>2. QED
    BY <1>3, <2>1 DEF UpdateInv, SameBounds
<1>5. SourceInv'
  BY DEF SourceInv, SameApp, Elsewhere, LeavesChanges, Calms, Keeps
<1>6. HistoryInv'
  BY DEF HistoryInv, SameApp, Keeps
<1>7. LoopInv'
  BY <1>3 DEF LoopInv, SameApp, SameBounds
<1>8. QED
  BY <1>1, <1>2, <1>4, <1>5, <1>6, <1>7

LEMMA BoundsKept ==
  ASSUME Shape, bounds' = bounds \/ Requested \/ \E fails \in BOOLEAN : Faulty(fails)
  PROVE  SameBounds
BY DEF Shape, Requested, Faulty, SameBounds, BoundsFields

LEMMA LayerStaysElsewhere ==
  ASSUME Shape
  PROVE  Elsewhere(layer, layer)
BY DEF Shape, Elsewhere, LeavesChanges

LEMMA AskedElsewhere ==
  ASSUME Shape, NEW t \in {Advance, Scrub}, NEW n, n.visibility = layer.visibility,
         LeavesChanges(n, layer), Asks(n, layer, t, FALSE)
  PROVE  Elsewhere(n, layer)
<1>1. t \in Task /\ t \notin {Commit, Reveal}
  BY TasksAreDistinct
<1>2. CASE n.paintWaiter = layer.paintWaiter
           /\ \E answer : answer # Nothing /\ n.told = [layer.told EXCEPT ![t] = answer]
  BY <1>1, <1>2, TasksAreDistinct DEF Shape, Elsewhere
<1>3. CASE /\ layer.paintWaiter = NoWaiter /\ n.told = layer.told
           /\ n.paintWaiter = [task |-> t, requirePresented |-> FALSE]
  BY <1>1, <1>3 DEF Shape, Elsewhere
<1>4. QED
  BY <1>2, <1>3 DEF Asks

LEMMA HeardElsewhere ==
  ASSUME Shape, LayerInv(layer), NEW t \in Task, t \notin {Commit, Reveal}
  PROVE  LayerInv(Heard(t)) /\ Elsewhere(Heard(t), layer)
<1> DEFINE n == Heard(t)
<1>1. LooksLike(n, layer) /\ n.repaint = layer.repaint /\ n.paintWaiter = layer.paintWaiter
      /\ n.told = [layer.told EXCEPT ![t] = Nothing]
  BY DEF Heard, LooksLike, LayerFields, LayerInv, LayerIsSound
<1>2. LayerInv(n)
  BY <1>1, Alike DEF LayerInv, IsScheduled, LooksLike
<1>3. Elsewhere(n, layer)
  BY <1>1 DEF LooksLike, Elsewhere, LeavesChanges, Shape
<1>4. QED
  BY <1>2, <1>3

LEMMA StartContinuesKeepsInv ==
  ASSUME NationalInv, startContinues
  PROVE  NationalInv'
<1>1. Calms(player', player)
  <2>1. DOMAIN player = PlayerFields
    BY DEF NationalInv, Shape
  <2>2. CASE player' = pause(player)
    BY <2>1, <2>2, PlayerOperations
  <2>3. CASE player' = scheduleNext([player EXCEPT !.starting = "no"])
    <3> DEFINE p == [player EXCEPT !.starting = "no"]
    <3>1. Calms(p, player)
      BY <2>1, PlayerNotes
    <3> HIDE DEF p
    <3>2. Calms(scheduleNext(p), p)
      BY <3>1, PlayerOperations DEF Calms, Keeps
    <3>3. QED
      BY <3>1, <3>2, <2>3, CalmsTwice DEF p
  <2>4. QED
    BY <2>2, <2>3 DEF startContinues
<1>2. Elsewhere(layer', layer) /\ LayerInv(layer')
  BY LayerStaysElsewhere DEF NationalInv, startContinues
<1>3. SameBounds /\ SameApp /\ TaskShape(task') /\ UNCHANGED <<commit, task>>
  BY BoundsKept DEF NationalInv, Shape, startContinues, SameApp
<1>4. QED
  BY <1>1, <1>2, <1>3, SideStep DEF Calms, StaysOrIsHeld

LEMMA StartGivesUpKeepsInv ==
  ASSUME NationalInv, startGivesUp
  PROVE  NationalInv'
<1>1. Calms(player', player)
  BY PlayerOperations DEF NationalInv, Shape, startGivesUp
<1>2. Elsewhere(layer', layer) /\ LayerInv(layer')
  BY LayerStaysElsewhere DEF NationalInv, startGivesUp
<1>3. SameApp /\ TaskShape(task') /\ UNCHANGED <<commit, task>>
  BY DEF NationalInv, Shape, startGivesUp, SameApp
<1>4. SameBounds
  <2>1. (waitForCommonResidency(layer) = "waits") \in BOOLEAN
    OBVIOUS
  <2>2. QED
    BY <2>1, BoundsKept DEF NationalInv, startGivesUp
<1>5. QED
  BY <1>1, <1>2, <1>3, <1>4, SideStep DEF Calms, StaysOrIsHeld

LEMMA AdvanceKeepsInv ==
  ASSUME NationalInv, advanceOnce
  PROVE  NationalInv'
<1> DEFINE p == [player EXCEPT !.timer = FALSE]
<1>0. Advance \in Task /\ Advance \notin {Commit, Reveal}
  BY TasksAreDistinct
<1>1. DOMAIN player = PlayerFields /\ TaskShape(task) /\ LayerInv(layer)
  BY DEF NationalInv, Shape
<1>2. SameApp /\ SameBounds /\ UNCHANGED commit
  BY BoundsKept DEF NationalInv, Shape, advanceOnce, SameApp
<1>3. CASE player' = pause(p) /\ UNCHANGED <<layer, task>>
  <2>1. Calms(player', player)
    <3>1. Calms(p, player)
      BY <1>1, PlayerNotes
    <3> HIDE DEF p
    <3>2. Calms(pause(p), p)
      BY <3>1, PlayerOperations DEF Calms, Keeps
    <3>3. QED
      BY <1>3, <3>1, <3>2, CalmsTwice
  <2>2. Elsewhere(layer', layer) /\ LayerInv(layer')
    BY <1>1, <1>3, LayerStaysElsewhere DEF NationalInv
  <2>3. QED
    BY <1>1, <1>2, <1>3, <2>1, <2>2, SideStep DEF Calms, StaysOrIsHeld
<1>4. CASE \E o : select(Advance, o, p)
  <2>1. PICK o : select(Advance, o, p)
    BY <1>4
  <2>2. LayerInv(layer') /\ Elsewhere(layer', layer)
    BY <1>1, <2>1, SelectInv, AskedElsewhere DEF select, NationalInv
  <2>3. Calms(player', player)
    <3>1. Calms(p, player)
      BY <1>1, PlayerNotes
    <3> HIDE DEF p
    <3>2. Calms(player', p)
      BY <2>1, <3>1, PlayerNotes DEF select, Calms, Keeps
    <3>3. QED
      BY <3>1, <3>2, CalmsTwice
  <2>4. TaskShape(task') /\ task'[Commit] = task[Commit] /\ task'[Reveal] = task[Reveal]
    <3>1. task' = [task EXCEPT ![Advance].pc = "selecting"]
      BY <2>1 DEF select, Goes
    <3>2. QED
      BY <1>0, <1>1, <3>1, TasksAreDistinct DEF TaskShape, TaskFields
  <2>5. QED
    BY <1>2, <2>2, <2>3, <2>4, SideStep DEF Calms, StaysOrIsHeld
<1>5. QED
  <2> DEFINE later == {o \in p.observations : o > layer.active}
             next == IF later = {} THEN Min(p.observations) ELSE Min(later)
  <2>1. select(Advance, next, p) \/ (player' = pause(p) /\ UNCHANGED <<layer, task>>)
    BY DEF advanceOnce
  <2> HIDE DEF p, next
  <2>2. QED
    BY <1>3, <1>4, <2>1

LEMMA SelectionSettlesKeepsInv ==
  ASSUME NationalInv, NEW t \in {Advance, Scrub}, selectionSettles(t)
  PROVE  NationalInv'
<1> DEFINE after == selectionEnds(player)
           painted == layer.told[t] # Failed
<1>0. t \in Task /\ t \notin {Commit, Reveal} /\ {Commit, Reveal} \subseteq Task
  BY TasksAreDistinct
<1>1. DOMAIN player = PlayerFields /\ TaskShape(task) /\ LayerInv(layer) /\ Shape
  BY DEF NationalInv, Shape
<1>2. SameApp /\ SameBounds /\ UNCHANGED commit
  BY <1>1, BoundsKept DEF Shape, AppFields, selectionSettles, SameApp
<1>3. LayerInv(layer') /\ Elsewhere(layer', layer)
  BY <1>0, <1>1, HeardElsewhere DEF selectionSettles
<1>4. Calms(player', player)
  <2>1. Calms(after, player)
    BY <1>1 DEF selectionEnds, Calms, Keeps, PlayerFields
  <2>2. player' \in {after, scheduleNext(after), pause(after)}
    BY DEF selectionSettles
  <2> HIDE DEF after
  <2>3. Calms(player', after)
    BY <2>1, <2>2, PlayerOperations DEF Calms, Keeps
  <2>4. QED
    BY <2>1, <2>3, CalmsTwice
<1>5. TaskShape(Resumes(task, painted))
      /\ \A u \in Task : StaysOrIsHeld(Resumes(task, painted)[u].pc, task[u].pc)
  <2>1. ASSUME NEW u \in Task
        PROVE  DOMAIN Resumes(task, painted)[u] = TaskFields
               /\ StaysOrIsHeld(Resumes(task, painted)[u].pc, task[u].pc)
    BY <1>1 DEF Resumes, TaskShape, TaskFields, StaysOrIsHeld
  <2>2. QED
    BY <2>1 DEF TaskShape, Resumes
<1>6. TaskShape(task') /\ \A u \in {Commit, Reveal} : StaysOrIsHeld(task'[u].pc, task[u].pc)
  <2>1. task' = [Resumes(task, painted) EXCEPT ![t] = NoTask]
    BY DEF selectionSettles
  <2> HIDE DEF painted
  <2>2. QED
    BY <1>0, <1>5, <2>1, IdleTask DEF TaskShape
<1>7. QED
  BY <1>2, <1>3, <1>4, <1>6, SideStep DEF Calms

LEMMA ScrubHeldKeepsInv ==
  ASSUME NationalInv, scrubHeld
  PROVE  NationalInv'
<1>0. Scrub \in Task /\ Scrub \notin {Commit, Reveal} /\ {Commit, Reveal} \subseteq Task
  BY TasksAreDistinct
<1>1. DOMAIN player = PlayerFields /\ TaskShape(task) /\ LayerInv(layer) /\ Shape
  BY DEF NationalInv, Shape
<1>2. SameApp /\ SameBounds /\ UNCHANGED commit
  BY <1>1, BoundsKept DEF Shape, AppFields, scrubHeld, SameApp
<1>3. Elsewhere(layer', layer) /\ LayerInv(layer') /\ Calms(player', player)
  BY <1>1, LayerStaysElsewhere, PlayerOperations DEF scrubHeld
<1>4. TaskShape(task') /\ task'[Commit] = task[Commit] /\ task'[Reveal] = task[Reveal]
  BY <1>0, <1>1, TaskGoes, TaskBecomes, IdleTask DEF scrubHeld
<1>5. QED
  BY <1>2, <1>3, <1>4, SideStep DEF Calms, StaysOrIsHeld

LEMMA ActivityKeepsInv ==
  ASSUME NationalInv, acquireNationalResidentOnlyActivity
  PROVE  NationalInv'
<1>0. Scrub \in Task /\ Scrub \notin {Commit, Reveal} /\ {Commit, Reveal} \subseteq Task
  BY TasksAreDistinct
<1>1. DOMAIN player = PlayerFields /\ TaskShape(task) /\ LayerInv(layer) /\ Shape
  BY DEF NationalInv, Shape
<1>2. SameApp /\ SameBounds /\ UNCHANGED commit
  BY <1>1, BoundsKept DEF Shape, AppFields, acquireNationalResidentOnlyActivity, SameApp
<1>3. Elsewhere(layer', layer) /\ LayerInv(layer') /\ Calms(player', player)
  BY <1>1, LayerStaysElsewhere, PlayerOperations DEF acquireNationalResidentOnlyActivity
<1>4. TaskShape(task') /\ task'[Commit] = task[Commit] /\ task'[Reveal] = task[Reveal]
  BY <1>0, <1>1, TaskGoes DEF acquireNationalResidentOnlyActivity
<1>5. QED
  BY <1>2, <1>3, <1>4, SideStep DEF Calms, StaysOrIsHeld

LEMMA ScrubSelectsKeepsInv ==
  ASSUME NationalInv, scrubSelects
  PROVE  NationalInv'
<1>0. Scrub \in Task /\ Scrub \notin {Commit, Reveal} /\ {Commit, Reveal} \subseteq Task
  BY TasksAreDistinct
<1>1. DOMAIN player = PlayerFields /\ TaskShape(task) /\ LayerInv(layer) /\ Shape
  BY DEF NationalInv, Shape
<1>2. SameApp /\ SameBounds /\ UNCHANGED commit
  <2>1. (waitForCommonResidency(layer) = "waits") \in BOOLEAN
    OBVIOUS
  <2>2. SameBounds
    BY <1>1, <2>1, BoundsKept DEF scrubSelects
  <2>3. QED
    BY <1>1, <2>2 DEF Shape, AppFields, scrubSelects, SameApp
<1>3. CASE task' = [task EXCEPT ![Scrub] = NoTask] /\ UNCHANGED <<layer, player>>
  <2>1. Elsewhere(layer', layer) /\ LayerInv(layer') /\ Calms(player', player)
    BY <1>1, <1>3, LayerStaysElsewhere, PlayerOperations
  <2>2. TaskShape(task') /\ task'[Commit] = task[Commit] /\ task'[Reveal] = task[Reveal]
    BY <1>0, <1>1, <1>3, TaskBecomes, IdleTask
  <2>3. QED
    BY <1>2, <2>1, <2>2, SideStep DEF Calms, StaysOrIsHeld
<1>4. CASE \E o : select(Scrub, o, player)
  <2>1. PICK o : select(Scrub, o, player)
    BY <1>4
  <2>2. LayerInv(layer') /\ Elsewhere(layer', layer)
    BY <1>1, <2>1, SelectInv, AskedElsewhere DEF select
  <2>3. Calms(player', player)
    BY <1>1, <2>1, PlayerNotes DEF select
  <2>4. TaskShape(task') /\ task'[Commit] = task[Commit] /\ task'[Reveal] = task[Reveal]
    BY <1>0, <1>1, <2>1, TaskGoes DEF select
  <2>5. QED
    BY <1>2, <2>2, <2>3, <2>4, SideStep DEF Calms, StaysOrIsHeld
<1>5. QED
  BY <1>3, <1>4 DEF scrubSelects

LEMMA OperatorSelectsSiteKeepsInv ==
  ASSUME NationalInv, operatorSelectsSite
  PROVE  NationalInv'
<1>1. DOMAIN player = PlayerFields /\ TaskShape(task) /\ LayerInv(layer) /\ Shape
  BY DEF NationalInv, Shape
<1>2. SameApp /\ SameBounds /\ UNCHANGED <<commit, task>>
  BY <1>1, BoundsKept DEF Shape, AppFields, operatorSelectsSite, site, SameApp
<1>3. Elsewhere(layer', layer) /\ LayerInv(layer') /\ Calms(player', player)
  BY <1>1, LayerStaysElsewhere, PlayerOperations DEF operatorSelectsSite, site
<1>4. QED
  BY <1>1, <1>2, <1>3, SideStep DEF Calms, StaysOrIsHeld

LEMMA ToggleKeepsInv ==
  ASSUME NationalInv, togglePlayback
  PROVE  NationalInv'
<1>1. DOMAIN player = PlayerFields /\ TaskShape(task) /\ LayerInv(layer) /\ Shape
  BY DEF NationalInv, Shape
<1>2. SameApp /\ SameBounds /\ UNCHANGED <<commit, task>> /\ ~app.resident
  BY <1>1, BoundsKept DEF Shape, togglePlayback, SameApp, NationalInv, SourceInv
<1>3. Elsewhere(layer', layer) /\ LayerInv(layer') /\ Keeps(player', player)
  BY <1>1, LayerStaysElsewhere, PlayerOperations DEF togglePlayback, Calms
<1>4. QED
  BY <1>1, <1>2, <1>3, SideStep DEF StaysOrIsHeld

LEMMA ScrubsKeepsInv ==
  ASSUME NationalInv, operatorScrubs
  PROVE  NationalInv'
<1>0. Scrub \in Task /\ Scrub \notin {Commit, Reveal} /\ {Commit, Reveal} \subseteq Task
  BY TasksAreDistinct
<1>1. DOMAIN player = PlayerFields /\ TaskShape(task) /\ LayerInv(layer) /\ Shape
  BY DEF NationalInv, Shape
<1>2. SameApp /\ SameBounds /\ UNCHANGED commit /\ ~app.resident
  BY <1>1, BoundsKept DEF Shape, operatorScrubs, SameApp, NationalInv, SourceInv
<1>3. Elsewhere(layer', layer) /\ LayerInv(layer') /\ Keeps(player', player)
  BY <1>1, LayerStaysElsewhere, PlayerOperations DEF operatorScrubs
<1>4. TaskShape(task') /\ task'[Commit] = task[Commit] /\ task'[Reveal] = task[Reveal]
  <2>1. PICK index \in 1..Cardinality(player.observations) :
          task' = [task EXCEPT ![Scrub] = [NoTask EXCEPT !.target = index,
                  !.pc = IF player.operation = None THEN "held" ELSE "holding"]]
    BY DEF operatorScrubs
  <2> DEFINE x == [NoTask EXCEPT !.target = index,
                  !.pc = IF player.operation = None THEN "held" ELSE "holding"]
  <2>2. DOMAIN x = TaskFields
    BY DEF NoTask, TaskFields
  <2> HIDE DEF x
  <2>3. task' = [task EXCEPT ![Scrub] = x]
    BY <2>1 DEF x
  <2>4. QED
    BY <1>0, <1>1, <2>2, <2>3, TaskBecomes
<1>5. QED
  BY <1>2, <1>3, <1>4, SideStep DEF StaysOrIsHeld

-----------------------------------------------------------------------------
(* The GPU and the map.                                                     *)

LEMMA TellsWhoWaits ==
  ASSUME Shape, PromisesInv, Tells(layer', layer), UNCHANGED task
  PROVE  PromisesInv' /\ DOMAIN layer'.told = Task
<1>0. {Commit, Reveal} \subseteq Task /\ Commit # Reveal
  BY TasksAreDistinct
<1>1. CASE layer'.told = layer.told /\ layer'.paintWaiter = layer.paintWaiter
  BY <1>1 DEF Shape, PromisesInv, Awaits
<1>2. CASE /\ layer.paintWaiter # NoWaiter /\ layer'.paintWaiter = NoWaiter
           /\ \E answer : answer # Nothing
                          /\ layer'.told = [layer.told EXCEPT ![layer.paintWaiter.task] = answer]
  <2>1. DOMAIN layer'.told = Task
    BY <1>2 DEF Shape
  <2>2. \A t \in Task : layer'.told[t] # Nothing => layer.told[t] # Nothing \/ Awaits(layer, t)
    BY <1>2 DEF Shape, Awaits
  <2>3. \A t \in Task : ~Awaits(layer', t)
    BY <1>2 DEF Awaits
  <2>4. QED
    BY <1>0, <1>2, <2>1, <2>2, <2>3 DEF PromisesInv
<1>3. QED
  BY <1>1, <1>2 DEF Tells

LEMMA GpuStep ==
  ASSUME NationalInv, LayerInv(layer'), Progress(layer', layer), SameBounds, GpuOnly
  PROVE  NationalInv'
<1> USE DEF NationalInv, GpuOnly
<1>1. PromisesInv' /\ DOMAIN layer'.told = Task
  BY TellsWhoWaits DEF Progress
<1>2. Shape'
  BY <1>1 DEF Shape, SameBounds
<1>3. UpdateInv'
  <2>1. layer'.mutation.defers /\ ~bounds.recoveryFailed =>
          Awaits(layer', Commit) /\ task[Commit].pc = "painting"
    BY DEF UpdateInv, Progress, Awaits
  <2>2. layer'.awaitingExternalCommit # NoMutation /\ ~bounds.recoveryFailed =>
          task[Commit].pc \in {"painting", "committing"}
    BY DEF UpdateInv, Progress, Changing
  <2>3. QED
    BY <2>1, <2>2 DEF UpdateInv, SameBounds
<1>4. SourceInv' /\ HistoryInv'
  BY DEF SourceInv, HistoryInv, Progress
<1>5. LoopInv'
  <2>1. Changing(layer') \/ task[Commit].pc \in {"sealing", "receipt"} =>
          (Changing(layer) \/ task[Commit].pc \in {"sealing", "receipt"})
    BY DEF Progress
  <2>2. Retained(layer') = Retained(layer) /\ RetainedEmptied(layer') = RetainedEmptied(layer)
    BY DEF Progress
  <2>3. layer'.residents = layer.residents \/ ~Changing(layer')
    BY DEF Progress
  <2>4. ~Changing(layer) /\ ~Changing(layer') => layer'.residents = layer.residents
    BY <2>2 DEF Retained, Changing
  <2>5. ASSUME app.owned, ~bounds.recoveryFailed, task[Commit].pc \in {"sealing", "receipt"}
        PROVE  ~Changing(layer)
    BY <2>5 DEF UpdateInv, Changing
  <2>6. QED
    BY <2>1, <2>2, <2>3, <2>4, <2>5 DEF LoopInv, SameBounds
<1>6. QED
  BY <1>1, <1>2, <1>3, <1>4, <1>5

LEMMA MapRendersKeepsInv ==
  ASSUME NationalInv, mapRenders
  PROVE  NationalInv'
<1>1. PICK fence \in {"signalled", "waiting", "failed"}, draws_ \in BOOLEAN :
        Faulty(fence = "failed" \/ ~draws_) /\ layer' = render(layer, fence, draws_)
  BY DEF mapRenders
<1>2. SameBounds
  <2>1. (fence = "failed" \/ ~draws_) \in BOOLEAN
    OBVIOUS
  <2>2. QED
    BY <1>1, <2>1, BoundsKept DEF NationalInv
<1>3. QED
  BY <1>1, <1>2, RenderInv, GpuStep DEF mapRenders, NationalInv

LEMMA ContextLostKeepsInv ==
  ASSUME NationalInv, contextLost
  PROVE  NationalInv'
<1>1. SameBounds
  <2>1. Faulty(TRUE)
    BY DEF contextLost
  <2>2. QED
    BY <2>1, BoundsKept DEF NationalInv
<1>2. QED
  BY <1>1, LostInv, GpuStep DEF contextLost, NationalInv

LEMMA ContextRestoredKeepsInv ==
  ASSUME NationalInv, contextRestored
  PROVE  NationalInv'
BY BoundsKept, AddedInv, GpuStep DEF contextRestored, NationalInv

LEMMA TimesOutKeepsInv ==
  ASSUME NationalInv, paintTimesOut
  PROVE  NationalInv'
<1>1. SameBounds
  <2>1. Faulty(TRUE)
    BY DEF paintTimesOut
  <2>2. QED
    BY <2>1, BoundsKept DEF NationalInv
<1>2. QED
  BY <1>1, ExpiresInv, ExpiresProgress, GpuStep DEF paintTimesOut, NationalInv

LEMMA RehydratesKeepsInv ==
  ASSUME NationalInv, rehydrates
  PROVE  NationalInv'
<1>1. PICK succeeds \in BOOLEAN, following \in FollowingUpload(layer) :
        /\ bounds' = IF succeeds THEN bounds
                     ELSE [bounds EXCEPT !.faults = @ + 1, !.recoveryFailed = TRUE]
        /\ layer' = IF succeeds THEN Rehydrates(layer, following)
                    ELSE fail([layer EXCEPT !.uploading = None, !.uploads = {}])
  BY DEF rehydrates
<1>2. CASE succeeds
  BY <1>1, <1>2, BoundsKept, RehydratesInv, GpuStep DEF rehydrates, NationalInv
<1>3. CASE ~succeeds
  <2> USE DEF NationalInv, rehydrates, GpuOnly
  <2>1. LayerInv(layer') /\ Tells(layer', layer) /\ layer'.visibility = layer.visibility
        /\ layer'.status # "removed" /\ layer.status # "removed"
    BY <1>1, <1>3, RehydrationFailsInv DEF LayerInv, LayerIsSound, OffMapInv
  <2>2. DOMAIN bounds' = BoundsFields /\ bounds'.recoveryFailed = TRUE
    BY <1>1, <1>3 DEF Shape, BoundsFields
  <2>3. PromisesInv' /\ DOMAIN layer'.told = Task
    BY <2>1, TellsWhoWaits
  <2>4. Shape' /\ HistoryInv' /\ SourceInv'
    BY <2>1, <2>2, <2>3 DEF Shape, HistoryInv, SourceInv
  <2>5. UpdateInv' /\ LoopInv'
    BY <2>2 DEF UpdateInv, LoopInv
  <2>6. QED
    BY <2>1, <2>3, <2>4, <2>5
<1>4. QED
  BY <1>2, <1>3

-----------------------------------------------------------------------------
(* The source that is shown.                                                *)

(* What an update relies on is left alone.                                  *)
UpdateStands ==
  /\ DOMAIN layer'.told = Task /\ LeavesChanges(layer', layer)
  /\ layer'.told[Commit] = layer.told[Commit]
  /\ Awaits(layer', Commit) <=> Awaits(layer, Commit)
  /\ UNCHANGED commit /\ TaskShape(task') /\ task'[Commit].pc = task[Commit].pc
  /\ SameBounds /\ DOMAIN app' = AppFields
  /\ app'.history = app.history /\ app'.backend = app.backend
  /\ app'.unpublished = app.unpublished /\ app'.owned = app.owned
  /\ DOMAIN player' = PlayerFields /\ player'.observations = player.observations

LEMMA SourceStep ==
  ASSUME NationalInv, LayerInv(layer'), UpdateStands,
         Awaits(layer', Reveal) => layer'.told[Reveal] = Nothing,
         layer'.told[Reveal] # Nothing \/ Awaits(layer', Reveal) => task'[Reveal].pc = "painting",
         layer'.paintWaiter # NoWaiter /\ layer'.paintWaiter.requirePresented =>
           layer'.paintWaiter.task = Reveal,
         SourceInv'
  PROVE  NationalInv'
<1> USE DEF NationalInv, UpdateStands
<1>1. Shape'
  BY DEF Shape, SameBounds
<1>2. PromisesInv'
  BY DEF PromisesInv
<1>3. Changing(layer') = Changing(layer) /\ Retained(layer') = Retained(layer)
      /\ RetainedEmptied(layer') = RetainedEmptied(layer)
      /\ layer'.residents = layer.residents
      /\ layer'.awaitingExternalCommit = layer.awaitingExternalCommit
  BY DEF LeavesChanges, Changing, Retained, RetainedEmptied
<1>4. UpdateInv'
  <2>1. layer'.mutation.defers /\ ~bounds.recoveryFailed => Awaits(layer', Commit)
                                                           /\ layer.mutation.defers
    BY DEF UpdateInv, LeavesChanges
  <2>2. QED
    BY <1>3, <2>1 DEF UpdateInv, SameBounds
<1>5. HistoryInv'
  BY DEF HistoryInv
<1>6. LoopInv'
  BY <1>3 DEF LoopInv, SameBounds
<1>7. QED
  BY <1>1, <1>2, <1>4, <1>5, <1>6

LEMMA StandsStands ==
  ASSUME NationalInv, NEW v, Stands([layer' EXCEPT !.visibility = v], layer),
         DOMAIN layer' = LayerFields
  PROVE  /\ LeavesChanges(layer', layer) /\ DOMAIN layer'.told = Task
         /\ layer'.told = layer.told /\ layer'.paintWaiter = layer.paintWaiter
<1> DEFINE n == [layer' EXCEPT !.visibility = v]
<1>1. /\ n.told = layer'.told /\ n.paintWaiter = layer'.paintWaiter /\ n.status = layer'.status
      /\ n.mutation = layer'.mutation
      /\ n.awaitingExternalCommit = layer'.awaitingExternalCommit
      /\ n.residents = layer'.residents /\ n.emptied = layer'.emptied
  BY DEF LayerFields
<1> HIDE DEF n
<1>2. Stands(n, layer)
  BY DEF n
<1>3. QED
  BY <1>1, <1>2 DEF Stands, LeavesChanges, NationalInv, Shape

(* Nobody waits to see a paint on the screen.                               *)
LEMMA NoneMustSee ==
  ASSUME NationalInv, ~Awaits(layer, Reveal)
  PROVE  ~(layer.paintWaiter # NoWaiter /\ layer.paintWaiter.requirePresented)
BY DEF NationalInv, PromisesInv, Awaits

LEMMA SiteAcceptedKeepsInv ==
  ASSUME NationalInv, siteAccepted
  PROVE  NationalInv'
<1>1. DOMAIN player = PlayerFields /\ TaskShape(task) /\ LayerInv(layer) /\ Shape
      /\ ~app.resident /\ app.owned /\ ~player.disposed /\ task[Reveal].pc = "idle"
      /\ layer.told[Reveal] = Nothing /\ ~Awaits(layer, Reveal)
  <2>1. ~app.resident /\ app.owned /\ ~player.disposed /\ task[Reveal].pc = "idle"
    BY DEF siteAccepted, NationalInv, SourceInv
  <2>2. QED
    BY <2>1 DEF NationalInv, Shape, PromisesInv
<1>2. SameBounds /\ UNCHANGED <<commit, task>>
  BY <1>1, BoundsKept DEF siteAccepted
<1>3. DOMAIN app' = AppFields /\ app'.shown = "site" /\ app'.history = app.history
      /\ app'.backend = app.backend /\ app'.unpublished = app.unpublished
  BY <1>1 DEF Shape, AppFields, siteAccepted
<1>4. CASE ~CannotRecover(layer)
  <2>1. layer' = setVisibility(layer, "resident") /\ player' = pause(player)
        /\ app'.resident /\ app'.owned = app.owned
    BY <1>1, <1>4 DEF siteAccepted, hideNationalBehindSite, Shape, AppFields
  <2>2. LayerInv(layer') /\ layer'.visibility = "resident"
        /\ Stands([layer' EXCEPT !.visibility = layer.visibility], layer)
    BY <1>1, <2>1, NoneMustSee, VisibilityInv
  <2>3. LeavesChanges(layer', layer) /\ DOMAIN layer'.told = Task
        /\ layer'.told = layer.told /\ layer'.paintWaiter = layer.paintWaiter
    BY <2>2, StandsStands DEF LayerInv, LayerIsSound
  <2>4. Calms(player', player) /\ ~player'.playing /\ ~player'.mine
    BY <1>1, <2>1, PlayerOperations
  <2>5. UpdateStands
    BY <1>1, <1>2, <1>3, <2>1, <2>3, <2>4 DEF UpdateStands, Awaits, Calms, Keeps
  <2>6. SourceInv'
    BY <1>1, <1>2, <1>3, <2>1, <2>2, <2>3, <2>4
       DEF NationalInv, SourceInv, LeavesChanges, Calms, Keeps
  <2>7. QED
    BY <1>1, <2>2, <2>3, <2>5, <2>6, SourceStep, NoneMustSee DEF Awaits
<1>5. CASE CannotRecover(layer)
  <2>1. /\ layer' = IF layer.added THEN onRemove(layer) ELSE layer
        /\ player' = [pause(player) EXCEPT !.disposed = TRUE]
        /\ ~app'.resident /\ ~app'.owned
    BY <1>1, <1>5 DEF siteAccepted, Shape, AppFields
  <2>2. /\ LayerInv(layer') /\ Tells(layer', layer)
        /\ layer'.status # "removed" => layer' = layer
    <3>1. CASE layer.added
      <4>1. layer' = onRemove(layer)
        BY <2>1, <3>1
      <4>2. QED
        BY <1>1, <3>1, <4>1, RemovedInv
    <3>2. CASE ~layer.added
      BY <1>1, <2>1, <3>2 DEF Tells
    <3>3. QED
      BY <3>1, <3>2
  <2>3. PromisesInv' /\ DOMAIN layer'.told = Task
    BY <1>1, <1>2, <2>2, TellsWhoWaits DEF NationalInv
  <2>4. DOMAIN player' = PlayerFields /\ player'.observations = player.observations
    <3>1. Keeps(pause(player), player)
      BY <1>1, PlayerOperations DEF Calms
    <3>2. QED
      BY <2>1, <3>1 DEF Keeps, PlayerFields
  <2>5. Shape' /\ HistoryInv'
    BY <1>1, <1>2, <1>3, <2>3, <2>4 DEF NationalInv, Shape, HistoryInv, SameBounds
  <2>6. SourceInv' /\ LoopInv'
    BY <1>1, <1>2, <1>3, <2>1 DEF SourceInv, LoopInv
  <2>7. UpdateInv'
    <3>1. CASE layer' = layer
      BY <1>2, <3>1 DEF NationalInv, UpdateInv, SameBounds, Awaits
    <3>2. CASE layer'.status = "removed"
      <4>1. layer'.mutation = NoMutation /\ layer'.awaitingExternalCommit = NoMutation
        BY <2>2, <3>2 DEF LayerInv, LayerIsSound, OffMapInv
      <4>2. ~layer'.mutation.defers
        BY <4>1, Nulls
      <4>3. QED
        BY <1>2, <4>1, <4>2 DEF NationalInv, UpdateInv
    <3>3. QED
      BY <2>2, <3>1, <3>2
  <2>8. QED
    BY <2>2, <2>3, <2>5, <2>6, <2>7 DEF NationalInv
<1>6. QED
  BY <1>4, <1>5

LEMMA OperatorSelectsNationalKeepsInv ==
  ASSUME NationalInv, operatorSelectsNational
  PROVE  NationalInv'
<1>0. Reveal \in Task /\ Commit \in Task \ {Reveal}
  BY TasksAreDistinct
<1>1. DOMAIN player = PlayerFields /\ TaskShape(task) /\ LayerInv(layer) /\ Shape
      /\ layer.told[Reveal] = Nothing /\ ~Awaits(layer, Reveal)
  BY DEF NationalInv, Shape, PromisesInv, operatorSelectsNational
<1>2. SameBounds /\ UNCHANGED <<layer, player, commit>>
  BY <1>1, BoundsKept DEF operatorSelectsNational
<1>3. TaskShape(task') /\ task'[Reveal].pc = "busy" /\ task'[Commit] = task[Commit]
  <2>1. PICK o \in player.observations \cup {None}, plays \in BOOLEAN :
          task' = [task EXCEPT ![Reveal] =
                     [NoTask EXCEPT !.pc = "busy", !.target = o, !.plays = plays]]
    BY DEF operatorSelectsNational
  <2> DEFINE x == [NoTask EXCEPT !.pc = "busy", !.target = o, !.plays = plays]
  <2>2. DOMAIN x = TaskFields /\ x.pc = "busy"
    BY IdleTask DEF TaskFields
  <2> HIDE DEF x
  <2>3. task' = [task EXCEPT ![Reveal] = x]
    BY <2>1 DEF x
  <2>4. QED
    BY <1>0, <1>1, <2>2, <2>3, TaskBecomes
<1>4. SameApp
  BY <1>1 DEF Shape, AppFields, operatorSelectsNational, SameApp
<1>5. UpdateStands
  BY <1>1, <1>2, <1>3, <1>4 DEF UpdateStands, SameApp, LeavesChanges, Shape
<1>6. SourceInv'
  BY <1>2, <1>3, <1>4 DEF NationalInv, SourceInv, SameApp, operatorSelectsNational
<1>7. QED
  BY <1>1, <1>2, <1>5, <1>6, SourceStep, NoneMustSee

LEMMA RevealFailsKeepsInv ==
  ASSUME NationalInv, NEW l, LayerInv(l), LooksLike(l, layer), app.resident,
         l.paintWaiter = layer.paintWaiter, l.status = layer.status,
         DOMAIN l.told = Task, l.told[Commit] = layer.told[Commit], l.told[Reveal] = Nothing,
         ~Awaits(layer, Reveal), RevealFails(l), SameBounds, UNCHANGED <<player, commit>>
  PROVE  NationalInv'
<1>0. Reveal \in Task /\ Commit \in Task \ {Reveal}
  BY TasksAreDistinct
<1>1. DOMAIN player = PlayerFields /\ TaskShape(task) /\ Shape
  BY DEF NationalInv, Shape
<1>2. TaskShape(task') /\ task'[Reveal].pc = "idle" /\ task'[Commit] = task[Commit]
  BY <1>0, <1>1, TaskEnds DEF RevealFails
<1>3. SameApp
  BY <1>1 DEF Shape, AppFields, RevealFails, SameApp
<1>4. LayerInv(layer') /\ layer'.visibility = "resident"
      /\ Stands([layer' EXCEPT !.visibility = l.visibility], l)
  BY NoneMustSee, VisibilityInv DEF RevealFails
<1>5. /\ layer'.told = l.told /\ layer'.paintWaiter = l.paintWaiter
      /\ layer'.mutation = l.mutation /\ layer'.residents = l.residents
      /\ layer'.emptied = l.emptied
      /\ layer'.awaitingExternalCommit = l.awaitingExternalCommit
      /\ layer'.status = "removed" <=> l.status = "removed"
  <2> DEFINE n == [layer' EXCEPT !.visibility = l.visibility]
  <2>1. /\ n.told = layer'.told /\ n.paintWaiter = layer'.paintWaiter
        /\ n.status = layer'.status /\ n.mutation = layer'.mutation
        /\ n.awaitingExternalCommit = layer'.awaitingExternalCommit
        /\ n.residents = layer'.residents /\ n.emptied = layer'.emptied
    BY <1>4 DEF LayerFields, LayerInv, LayerIsSound
  <2> HIDE DEF n
  <2>2. Stands(n, l)
    BY <1>4 DEF n
  <2>3. QED
    BY <2>1, <2>2 DEF Stands
<1>6. LeavesChanges(layer', layer)
  BY <1>5 DEF LeavesChanges, LooksLike
<1>7. UpdateStands
  BY <1>1, <1>2, <1>3, <1>5, <1>6 DEF UpdateStands, SameApp, Awaits
<1>8. SourceInv'
  BY <1>2, <1>3, <1>4, <1>5 DEF NationalInv, SourceInv, SameApp
<1>9. QED
  BY <1>4, <1>5, <1>7, <1>8, SourceStep, NoneMustSee DEF Awaits

LEMMA RevealKeepsInv ==
  ASSUME NationalInv, revealResidentNational
  PROVE  NationalInv'
<1>0. Reveal \in Task /\ Commit \in Task \ {Reveal}
  BY TasksAreDistinct
<1>1. DOMAIN player = PlayerFields /\ TaskShape(task) /\ LayerInv(layer) /\ Shape
      /\ DOMAIN layer.told = Task
      /\ layer.told[Reveal] = Nothing /\ ~Awaits(layer, Reveal)
      /\ app.resident /\ layer.visibility = "resident"
  BY DEF NationalInv, Shape, PromisesInv, SourceInv, revealResidentNational
<1>2. CASE MayReveal(layer) /\ UNCHANGED <<app, bounds>>
           /\ layer' = revealAndWait(layer, Reveal, task[Reveal].target)
           /\ Goes(Reveal, "painting")
  <2>1. LayerInv(layer') /\ LeavesChanges(layer', layer) /\ Asks(layer', layer, Reveal, TRUE)
    BY <1>1, <1>2, RevealInv
  <2>2. TaskShape(task') /\ task'[Reveal].pc = "painting" /\ task'[Commit] = task[Commit]
    BY <1>0, <1>1, <1>2, TaskGoes
  <2>3. SameBounds /\ SameApp /\ UNCHANGED <<player, commit>>
    BY <1>1, <1>2, BoundsKept DEF Shape, SameApp, revealResidentNational
  <2>4. /\ DOMAIN layer'.told = Task /\ layer'.told[Commit] = layer.told[Commit]
        /\ Awaits(layer', Commit) <=> Awaits(layer, Commit)
        /\ Awaits(layer', Reveal) => layer'.told[Reveal] = Nothing
        /\ layer'.paintWaiter # NoWaiter /\ layer'.paintWaiter.requirePresented =>
             layer'.paintWaiter.task = Reveal
    <3>1. layer.paintWaiter = NoWaiter
      BY <1>2 DEF MayReveal
    <3>2. CASE layer'.paintWaiter = layer.paintWaiter
               /\ \E answer : answer # Nothing
                              /\ layer'.told = [layer.told EXCEPT ![Reveal] = answer]
      BY <1>0, <1>1, <3>1, <3>2 DEF Awaits
    <3>3. CASE layer'.told = layer.told
               /\ layer'.paintWaiter = [task |-> Reveal, requirePresented |-> TRUE]
      BY <1>0, <1>1, <3>1, <3>3 DEF Awaits
    <3>4. QED
      BY <2>1, <3>2, <3>3 DEF Asks
  <2>5. UpdateStands
    BY <1>1, <2>1, <2>2, <2>3, <2>4 DEF UpdateStands, SameApp
  <2>6. SourceInv'
    BY <2>1, <2>2, <2>3, <1>1 DEF NationalInv, SourceInv, SameApp, LeavesChanges
  <2>7. QED
    BY <2>1, <2>2, <2>4, <2>5, <2>6, SourceStep
<1>3. CASE Faulty(~CannotRecover(layer)) /\ RevealFails(layer)
  <2>1. SameBounds
    <3>1. (~CannotRecover(layer)) \in BOOLEAN
      OBVIOUS
    <3>2. QED
      BY <1>1, <1>3, <3>1, BoundsKept
  <2>2. LooksLike(layer, layer)
    BY <1>1 DEF LooksLike, LayerInv, LayerIsSound
  <2>3. QED
    BY <1>1, <1>3, <2>1, <2>2, RevealFailsKeepsInv DEF revealResidentNational
<1>4. QED
  BY <1>2, <1>3 DEF revealResidentNational

LEMMA RevealPaintedKeepsInv ==
  ASSUME NationalInv, revealPainted
  PROVE  NationalInv'
<1> DEFINE n == Heard(Reveal)
<1>0. Reveal \in Task /\ Commit \in Task \ {Reveal}
  BY TasksAreDistinct
<1>1. DOMAIN player = PlayerFields /\ TaskShape(task) /\ LayerInv(layer) /\ Shape
      /\ DOMAIN layer.told = Task /\ ~Awaits(layer, Reveal) /\ app.resident
  BY DEF NationalInv, Shape, PromisesInv, SourceInv, revealPainted
<1>2. /\ LooksLike(n, layer) /\ n.repaint = layer.repaint
      /\ n.paintWaiter = layer.paintWaiter /\ n.status = layer.status
      /\ n.told = [layer.told EXCEPT ![Reveal] = Nothing]
  BY <1>1 DEF Heard, LooksLike, LayerFields, LayerInv, LayerIsSound
<1>3. LayerInv(n) /\ DOMAIN n.told = Task /\ n.told[Commit] = layer.told[Commit]
      /\ n.told[Reveal] = Nothing
  BY <1>0, <1>1, <1>2, Alike DEF LayerInv, IsScheduled, LooksLike
<1>4. SameBounds /\ UNCHANGED <<player, commit>>
  BY <1>1, BoundsKept DEF revealPainted
<1>5. CASE RevealFails(n)
  <2> HIDE DEF n
  <2>1. QED
    BY <1>1, <1>2, <1>3, <1>4, <1>5, RevealFailsKeepsInv
<1>6. CASE /\ task' = [task EXCEPT ![Reveal].pc = "fading",
                                   ![Reveal].receipt = layer.told[Reveal]]
           /\ layer' = n /\ UNCHANGED app
  <2>1. TaskShape(task') /\ task'[Reveal].pc = "fading" /\ task'[Commit] = task[Commit]
    BY <1>0, <1>1, <1>6 DEF TaskShape, TaskFields
  <2>2. LeavesChanges(layer', layer) /\ SameApp
    BY <1>1, <1>2, <1>6 DEF LeavesChanges, LooksLike, SameApp, Shape
  <2>3. UpdateStands
    BY <1>1, <1>2, <1>3, <1>4, <1>6, <2>1, <2>2 DEF UpdateStands, SameApp, Awaits
  <2>4. SourceInv'
    BY <1>1, <1>2, <1>4, <1>6, <2>1 DEF NationalInv, SourceInv
  <2>5. QED
    BY <1>1, <1>2, <1>3, <1>6, <2>3, <2>4, SourceStep, NoneMustSee DEF Awaits
<1>7. QED
  BY <1>5, <1>6 DEF revealPainted

LEMMA AcceptRevealedKeepsInv ==
  ASSUME NationalInv, acceptRevealedNational
  PROVE  NationalInv'
<1> DEFINE p == acceptHistory(player, layer, app.history, task[Reveal].receipt)
<1>0. Reveal \in Task /\ Commit \in Task \ {Reveal}
  BY TasksAreDistinct
<1>1. DOMAIN player = PlayerFields /\ TaskShape(task) /\ LayerInv(layer) /\ Shape
      /\ DOMAIN layer.told = Task /\ ~Awaits(layer, Reveal) /\ app.resident
      /\ layer.told[Reveal] = Nothing /\ app.owned /\ player.observations = app.history
      /\ ~player.disposed /\ layer.status # "removed"
  BY DEF NationalInv, Shape, PromisesInv, SourceInv, HistoryInv, acceptRevealedNational
<1>2. SameBounds /\ UNCHANGED commit
  BY <1>1, BoundsKept DEF acceptRevealedNational
<1>3. CASE RevealFails(layer) /\ UNCHANGED player
  <2>1. LooksLike(layer, layer)
    BY <1>1 DEF LooksLike, LayerInv, LayerIsSound
  <2>2. QED
    BY <1>1, <1>2, <1>3, <2>1, RevealFailsKeepsInv
<1>4. CASE /\ app' = [app EXCEPT !.shown = "national", !.revealing = FALSE, !.resident = FALSE]
           /\ player' \in {p, startPlayback(p)}
           /\ task' = [task EXCEPT ![Reveal] = NoTask] /\ UNCHANGED layer
  <2>1. TaskShape(task') /\ task'[Reveal].pc = "idle" /\ task'[Commit] = task[Commit]
    BY <1>0, <1>1, <1>4, TaskEnds
  <2>2. /\ DOMAIN app' = AppFields /\ app'.shown = "national" /\ ~app'.resident
        /\ app'.owned = app.owned /\ app'.history = app.history /\ app'.backend = app.backend
        /\ app'.unpublished = app.unpublished
    BY <1>1, <1>4 DEF Shape, AppFields
  <2>3. /\ DOMAIN player' = PlayerFields /\ player'.observations = player.observations
        /\ ~player'.disposed
    <3>1. /\ DOMAIN p = PlayerFields /\ p.observations = app.history /\ ~p.disposed
      BY <1>1, AcceptsHistory
    <3> HIDE DEF p
    <3>2. QED
      BY <1>1, <1>4, <3>1, PlayerOperations DEF Keeps
  <2>4. LeavesChanges(layer', layer)
    BY <1>4 DEF LeavesChanges
  <2>5. UpdateStands
    BY <1>1, <1>2, <1>4, <2>1, <2>2, <2>3, <2>4 DEF UpdateStands
  <2>6. SourceInv'
    BY <1>1, <1>4, <2>1, <2>2, <2>3 DEF SourceInv
  <2>7. QED
    BY <1>1, <1>4, <2>5, <2>6, SourceStep, NoneMustSee
<1>5. QED
  BY <1>3, <1>4 DEF acceptRevealedNational

-----------------------------------------------------------------------------
(* An update of the history.                                                *)

KeepsLoop(l) == l.residents = layer.residents /\ l.emptied = layer.emptied

(* Nothing but what has been told to the update, and what is staged; and a  *)
(* commit that throws leaves residents of its own.                          *)
Unmoved(l) ==
  /\ DOMAIN l.told = Task /\ l.told[Reveal] = layer.told[Reveal]
  /\ l.paintWaiter = layer.paintWaiter /\ l.visibility = layer.visibility
  /\ l.mutation = layer.mutation /\ l.awaitingExternalCommit = layer.awaitingExternalCommit
  /\ KeepsLoop(l) \/ (~Changing(layer) /\ l.emptied # {})
  /\ l.status = "removed" <=> layer.status = "removed"

LEMMA LayerIsUnmoved ==
  ASSUME NationalInv
  PROVE  /\ Unmoved(layer)
         /\ LayerInv(rollbackStaging(layer)) /\ Unmoved(rollbackStaging(layer))
         /\ rollbackStaging(layer).told = layer.told
         /\ LayerInv(Heard(Commit)) /\ Unmoved(Heard(Commit))
         /\ Heard(Commit).told[Commit] = Nothing
         /\ KeepsLoop(layer) /\ KeepsLoop(rollbackStaging(layer)) /\ KeepsLoop(Heard(Commit))
<1>0. Commit \in Task /\ Reveal \in Task /\ Commit # Reveal
  BY TasksAreDistinct
<1>1. LayerInv(layer) /\ DOMAIN layer.told = Task
  BY DEF NationalInv, Shape
<1>2. Unmoved(layer) /\ KeepsLoop(layer)
  BY <1>1 DEF Unmoved, KeepsLoop
<1>3. LayerInv(rollbackStaging(layer)) /\ Unmoved(rollbackStaging(layer))
      /\ rollbackStaging(layer).told = layer.told /\ KeepsLoop(rollbackStaging(layer))
  <2> DEFINE n == rollbackStaging(layer)
  <2>1. LayerIsSound(n) /\ Stands(n, layer) /\ n.repaint = layer.repaint
        /\ n.added = layer.added
    BY <1>1, UnstagedInv DEF LayerInv
  <2> HIDE DEF n
  <2>2. LayerInv(n) /\ Unmoved(n) /\ n.told = layer.told /\ KeepsLoop(n)
    BY <1>1, <2>1 DEF LayerInv, IsScheduled, Stands, Unmoved, KeepsLoop
  <2>3. QED
    BY <2>2 DEF n
<1>4. LayerInv(Heard(Commit)) /\ Unmoved(Heard(Commit)) /\ Heard(Commit).told[Commit] = Nothing
      /\ KeepsLoop(Heard(Commit))
  <2> DEFINE n == Heard(Commit)
  <2>1. LooksLike(n, layer) /\ n.repaint = layer.repaint /\ n.paintWaiter = layer.paintWaiter
        /\ n.told = [layer.told EXCEPT ![Commit] = Nothing]
    BY <1>1 DEF Heard, LooksLike, LayerFields, LayerInv, LayerIsSound
  <2> HIDE DEF n
  <2>2. LayerInv(n) /\ n.told[Commit] = Nothing
    BY <1>0, <1>1, <2>1, Alike DEF LayerInv, IsScheduled, LooksLike
  <2>3. Unmoved(n) /\ KeepsLoop(n)
    BY <1>0, <1>1, <2>1 DEF LooksLike, Unmoved, KeepsLoop
  <2>4. QED
    BY <2>2, <2>3 DEF n
<1>5. QED
  BY <1>2, <1>3, <1>4

(* The update is over, and a loop that it held goes on.                     *)
LEMMA UpdateEnds ==
  ASSUME NationalInv, NEW p, Calms(p, player), NEW resume,
         app.resident => ~(resume /\ player.mine),
         LayerInv(layer'), Unmoved(layer'), layer'.told[Commit] = Nothing,
         ~Awaits(layer, Commit), task[Commit].pc # "sealing",
         ~bounds.recoveryFailed => layer.awaitingExternalCommit = NoMutation,
         player' = resumeAfterMutation(p, resume),
         task' = [task EXCEPT ![Commit] = NoTask], commit' = NoCommit,
         UNCHANGED app, SameBounds
  PROVE  NationalInv'
<1>0. Commit \in Task /\ Reveal \in Task \ {Commit}
  BY TasksAreDistinct
<1>1. LayerInv(layer) /\ TaskShape(task)
  BY DEF NationalInv, Shape
<1>2. TaskShape(task') /\ task'[Commit].pc = "idle" /\ task'[Reveal] = task[Reveal]
  BY <1>0, <1>1, TaskEnds
<1>3. Keeps(player', player) /\ (app.resident => Calms(player', player))
  <2>1. DOMAIN p = PlayerFields /\ (p.mine => player.mine)
    BY DEF Calms, Keeps
  <2>2. Keeps(player', p) /\ (~(resume /\ p.mine) => Calms(player', p))
    BY <2>1, PlayerOperations
  <2>3. QED
    BY <2>1, <2>2 DEF Calms, Keeps
<1>4. DOMAIN commit' = CommitFields /\ ~commit'.sealed /\ ~commit'.resume
  BY DEF NoCommit, CommitFields
<1>5. Shape'
  BY <1>2, <1>3, <1>4 DEF NationalInv, Shape, Keeps, Unmoved, SameBounds
<1>6. PromisesInv'
  BY <1>2 DEF NationalInv, PromisesInv, Unmoved, Awaits
<1>7. ~bounds.recoveryFailed => ~Changing(layer')
  BY DEF NationalInv, UpdateInv, Unmoved, Changing
<1>8. UpdateInv'
  BY <1>4, <1>7 DEF UpdateInv, SameBounds, Changing
<1>9. SourceInv'
  BY <1>2, <1>3, <1>4 DEF NationalInv, SourceInv, Unmoved, Keeps, Calms
<1>10. HistoryInv'
  BY <1>2, <1>3 DEF NationalInv, HistoryInv, Keeps
<1>11. LoopInv'
  <2>1. CASE KeepsLoop(layer')
    <3>1. Retained(layer') = Retained(layer) /\ RetainedEmptied(layer') = RetainedEmptied(layer)
      BY <2>1 DEF Unmoved, KeepsLoop, Retained, RetainedEmptied
    <3>2. QED
      BY <1>2, <1>7, <3>1 DEF NationalInv, LoopInv, SameBounds
  <2>2. CASE ~KeepsLoop(layer')
    <3>1. ~bounds.recoveryFailed => RetainedEmptied(layer') # {}
      BY <1>7, <2>2 DEF Unmoved, RetainedEmptied, Changing
    <3>2. QED
      BY <1>2, <1>7, <3>1 DEF NationalInv, LoopInv, SameBounds
  <2>3. QED
    BY <2>1, <2>2
<1>12. QED
  BY <1>5, <1>6, <1>8, <1>9, <1>10, <1>11 DEF NationalInv

LEMMA CommitFailsKeepsInv ==
  ASSUME NationalInv, NEW l, LayerInv(l), Unmoved(l), l.told[Commit] = Nothing,
         ~Awaits(layer, Commit), task[Commit].pc \notin {"idle", "sealing"},
         CommitFails(l), UNCHANGED app, SameBounds
  PROVE  NationalInv'
<1> DEFINE p == [player EXCEPT !.replacementPending = FALSE]
<1>0. Commit \in Task /\ Reveal \in Task \ {Commit}
  BY TasksAreDistinct
<1>1. LayerInv(layer) /\ TaskShape(task) /\ DOMAIN player = PlayerFields
  BY DEF NationalInv, Shape
<1>2. Calms(p, player)
  BY <1>1, PlayerNotes
<1>3. CASE l.awaitingExternalCommit # NoMutation /\ ~commit.sealed
  <2>1. layer' = rollbackHistoryMutation(l, Commit) /\ player' = p /\ UNCHANGED commit
        /\ Goes(Commit, "rollingBack")
    BY <1>3 DEF CommitFails
  <2>2. /\ LayerInv(layer') /\ layer'.told = l.told /\ layer'.visibility = l.visibility
        /\ layer'.paintWaiter = [task |-> Commit, requirePresented |-> FALSE]
        /\ layer'.status = "ready" /\ layer'.residents = l.awaitingExternalCommit.residents
        /\ layer'.emptied = l.awaitingExternalCommit.emptied
        /\ layer'.mutation = NoMutation /\ layer'.awaitingExternalCommit = NoMutation
        /\ l.mutation = NoMutation
    BY <1>3, <2>1, TakenBackInv
  <2>3. TaskShape(task') /\ task'[Commit].pc = "rollingBack" /\ task'[Reveal] = task[Reveal]
    BY <1>0, <1>1, <2>1, TaskGoes
  <2> HIDE DEF p
  <2>4. Shape'
    BY <1>2, <2>1, <2>2, <2>3 DEF NationalInv, Shape, Unmoved, SameBounds, Calms, Keeps
  <2>5. PromisesInv'
    BY <1>0, <2>2, <2>3 DEF NationalInv, PromisesInv, Unmoved, Awaits
  <2>6. UpdateInv' /\ ~Changing(layer')
    BY <1>3, <2>1, <2>2, Nulls DEF UpdateInv, Changing
  <2>7. layer.status # "removed"
    BY <1>1, <1>3 DEF LayerInv, LayerIsSound, OffMapInv, Unmoved
  <2>8. SourceInv'
    BY <1>2, <2>1, <2>2, <2>3, <2>7 DEF NationalInv, SourceInv, Unmoved, Calms, Keeps
  <2>9. HistoryInv'
    BY <1>2, <2>1, <2>3 DEF NationalInv, HistoryInv, Calms, Keeps
  <2>10. LoopInv'
    <3>1. Retained(layer') = layer'.residents /\ RetainedEmptied(layer') = layer'.emptied
      BY <2>6 DEF Retained, RetainedEmptied, Changing
    <3>2. Retained(layer) = layer'.residents /\ RetainedEmptied(layer) = layer'.emptied
      BY <1>3, <2>2, Nulls DEF Retained, RetainedEmptied, Unmoved
    <3>3. QED
      BY <2>3, <2>6, <3>1, <3>2 DEF NationalInv, LoopInv, SameBounds
  <2>11. QED
    BY <2>2, <2>4, <2>5, <2>6, <2>8, <2>9, <2>10 DEF NationalInv
<1>4. CASE ~(l.awaitingExternalCommit # NoMutation /\ ~commit.sealed)
  <2>1. /\ layer' = l /\ player' = resumeAfterMutation(p, commit.resume)
        /\ task' = [task EXCEPT ![Commit] = NoTask] /\ commit' = NoCommit
    BY <1>4 DEF CommitFails
  <2>2. app.resident => ~(commit.resume /\ player.mine)
    BY DEF NationalInv, SourceInv
  <2>3. ~bounds.recoveryFailed => layer.awaitingExternalCommit = NoMutation
    BY <1>4 DEF NationalInv, UpdateInv, Unmoved
  <2> HIDE DEF p
  <2>4. QED
    BY <1>2, <2>1, <2>2, <2>3, UpdateEnds
<1>5. QED
  BY <1>3, <1>4

LEMMA PreparesKeepsInv ==
  ASSUME NationalInv, NEW o \in Nat, o \in Newest(app.history \cup {o}, Limit),
         NEW pc \in {"prepared", "acquired"}, prepares(o, pc)
  PROVE  NationalInv'
<1>0. Commit \in Task /\ Reveal \in Task \ {Commit}
  BY TasksAreDistinct
<1>1. TaskShape(task') /\ task'[Commit].pc = pc /\ task'[Reveal] = task[Reveal]
  BY <1>0, TaskGoes DEF prepares, NationalInv, Shape
<1>2. /\ DOMAIN commit' = CommitFields /\ commit'.candidate = o
      /\ ~commit'.resume /\ ~commit'.sealed
  BY DEF prepares, NoCommit, CommitFields
<1>3. task[Commit].pc = "idle" /\ UNCHANGED <<layer, player, app, bounds>>
  BY DEF prepares
<1>4. layer.told[Commit] = Nothing /\ ~Awaits(layer, Commit)
      /\ (~bounds.recoveryFailed => ~Changing(layer))
  BY <1>3 DEF NationalInv, PromisesInv, UpdateInv, Changing
<1>5. Shape' /\ LayerInv(layer')
  BY <1>1, <1>2, <1>3 DEF NationalInv, Shape
<1>6. PromisesInv'
  BY <1>1, <1>3, <1>4 DEF NationalInv, PromisesInv, Awaits
<1>7. UpdateInv'
  BY <1>2, <1>3, <1>4 DEF UpdateInv, Changing
<1>8. SourceInv'
  BY <1>1, <1>2, <1>3 DEF NationalInv, SourceInv
<1>9. HistoryInv'
  BY <1>1, <1>2, <1>3 DEF NationalInv, HistoryInv
<1>10. LoopInv'
  BY <1>1, <1>3, <1>4 DEF NationalInv, LoopInv
<1>11. QED
  BY <1>5, <1>6, <1>7, <1>8, <1>9, <1>10 DEF NationalInv

LEMMA PreparePredecessorKeepsInv ==
  ASSUME NationalInv, prepareNationalHistoryPredecessor
  PROVE  NationalInv'
<1>1. PICK o \in Observation : prepares(o, "prepared")
  BY DEF prepareNationalHistoryPredecessor
<1>2. o \in Nat /\ Cardinality(app.history) < Limit /\ IsSeries(app.history)
  BY BoundsAreNumbers DEF prepareNationalHistoryPredecessor, NationalInv, HistoryInv
<1>3. o \in Newest(app.history \cup {o}, Limit)
  BY <1>2, NewestHasNew DEF IsSeries
<1>4. QED
  BY <1>1, <1>2, <1>3, PreparesKeepsInv

LEMMA PrepareNewerKeepsInv ==
  ASSUME NationalInv, prepareNationalHistoryNewer
  PROVE  NationalInv'
<1>1. PICK o \in Observation : o = Max(app.backend) + 1 /\ prepares(o, "acquired")
  BY DEF prepareNationalHistoryNewer
<1>2. o \in Nat /\ IsSeries(app.history) /\ IsSeries(app.backend)
      /\ \A h \in app.history : \E b \in app.backend : h <= b
  BY BoundsAreNumbers DEF NationalInv, HistoryInv
<1>3. Max(app.backend) \in Nat /\ \A b \in app.backend : b <= Max(app.backend)
  BY <1>2, GreatestIsMember DEF IsSeries
<1>4. ASSUME NEW h \in app.history PROVE h < o
  <2>1. PICK b \in app.backend : h <= b
    BY <1>2
  <2>2. b <= Max(app.backend) /\ h \in Nat /\ b \in Nat
    BY <1>2, <1>3 DEF IsSeries
  <2>3. QED
    BY <1>1, <1>3, <2>1, <2>2
<1>5. o \in Newest(app.history \cup {o}, Limit)
  BY <1>2, <1>4, NewestHasNew DEF IsSeries
<1>6. QED
  BY <1>1, <1>2, <1>5, PreparesKeepsInv

(* What has been proposed has what is added, and not only that.             *)
LEMMA Proposal ==
  ASSUME NationalInv, task[Commit].pc \notin {"idle", "prepared", "rollingBack"}
  PROVE  LET proposed == Newest(app.history \cup {commit.candidate}, Limit)
         IN  /\ IsSeries(proposed) /\ commit.candidate \in proposed
             /\ commit.candidate \in Nat
             /\ \A h \in app.history : \E n \in proposed : h <= n
<1> DEFINE S == app.history \cup {commit.candidate}
<1>1. commit.candidate \in Nat /\ commit.candidate \in Newest(S, Limit)
      /\ IsSeries(app.history)
  BY DEF NationalInv, HistoryInv
<1>2. IsFiniteSet(S) /\ S \subseteq Nat /\ S # {}
  BY <1>1, FS_AddElement DEF IsSeries
<1>3. /\ Newest(S, Limit) \subseteq S /\ IsFiniteSet(Newest(S, Limit))
      /\ Newest(S, Limit) # {} /\ \A s \in S : \E n \in Newest(S, Limit) : s <= n
  <2> HIDE DEF S
  <2>1. QED
    BY <1>2, NewestKeepsLast
<1>4. QED
  BY <1>1, <1>2, <1>3 DEF IsSeries

LEMMA CommitsPredecessorKeepsInv ==
  ASSUME NationalInv, commitsPredecessor
  PROVE  NationalInv'
<1>0. Commit \in Task /\ Reveal \in Task \ {Commit}
  BY TasksAreDistinct
<1>1. TaskShape(task') /\ task'[Commit].pc = "acquired" /\ task'[Reveal] = task[Reveal]
  BY <1>0, TaskGoes DEF commitsPredecessor, NationalInv, Shape
<1>2. task[Commit].pc = "prepared" /\ UNCHANGED <<layer, player, commit, app, bounds>>
  BY DEF commitsPredecessor
<1>3. Shape' /\ LayerInv(layer') /\ PromisesInv' /\ UpdateInv'
  BY <1>1, <1>2 DEF NationalInv, Shape, PromisesInv, UpdateInv, Awaits
<1>4. SourceInv' /\ HistoryInv' /\ LoopInv'
  BY <1>1, <1>2 DEF NationalInv, SourceInv, HistoryInv, LoopInv
<1>5. QED
  BY <1>3, <1>4 DEF NationalInv

LEMMA BeginsStagingKeepsInv ==
  ASSUME NationalInv, beginsStaging
  PROVE  NationalInv'
<1> DEFINE quiet == layer.pendingPaint = NoPaint /\ layer.paintWaiter = NoWaiter
<1>0. Commit \in Task /\ Reveal \in Task \ {Commit}
  BY TasksAreDistinct
<1>1. /\ task[Commit].pc = "acquired" /\ layer.told[Commit] = Nothing
      /\ ~Awaits(layer, Commit) /\ UNCHANGED app
      /\ LayerInv(layer) /\ TaskShape(task) /\ Shape
  BY DEF NationalInv, Shape, PromisesInv, beginsStaging
<1>2. SameBounds
  <2>1. (~quiet) \in BOOLEAN /\ Faulty(~quiet)
    BY DEF beginsStaging
  <2>2. QED
    BY <1>1, <2>1, BoundsKept
<1>3. CASE CommitFails(layer)
  BY <1>1, <1>2, <1>3, LayerIsUnmoved, CommitFailsKeepsInv
<1>4. CASE /\ app.owned /\ MayStage(layer)
           /\ layer' = beginStaging(layer, commit.candidate)
           /\ commit' = [commit EXCEPT
                !.proposed = Newest(app.history \cup {commit.candidate}, Limit),
                !.newest = Max(app.history)]
           /\ Goes(Commit, "uploading") /\ UNCHANGED player
  <2>1. LayerInv(layer') /\ Stands(layer', layer)
    BY <1>1, <1>4, StagingInv DEF NationalInv, SourceInv
  <2>2. TaskShape(task') /\ task'[Commit].pc = "uploading" /\ task'[Reveal] = task[Reveal]
    BY <1>0, <1>1, <1>4, TaskGoes
  <2>3. /\ DOMAIN commit' = CommitFields /\ commit'.candidate = commit.candidate
        /\ commit'.proposed = Newest(app.history \cup {commit.candidate}, Limit)
        /\ commit'.sealed = commit.sealed /\ commit'.resume = commit.resume
    BY <1>1, <1>4 DEF Shape, CommitFields
  <2>4. Shape' /\ PromisesInv'
    BY <1>1, <1>2, <1>4, <2>1, <2>2, <2>3
       DEF NationalInv, Shape, PromisesInv, SameBounds, Stands, Awaits
  <2>5. UpdateInv' /\ (~bounds.recoveryFailed => ~Changing(layer'))
    BY <1>1, <1>2, <2>1, <2>2, <2>3 DEF NationalInv, UpdateInv, SameBounds, Stands, Changing
  <2>6. SourceInv'
    BY <1>1, <1>4, <2>1, <2>2, <2>3 DEF NationalInv, SourceInv, Stands
  <2>7. HistoryInv'
    BY <1>1, <1>4, <2>2, <2>3 DEF NationalInv, HistoryInv
  <2>8. LoopInv'
    <3>1. Retained(layer') = Retained(layer) /\ RetainedEmptied(layer') = RetainedEmptied(layer)
      BY <2>1 DEF Stands, Retained, RetainedEmptied
    <3>2. QED
      BY <1>1, <1>2, <2>2, <2>5, <3>1 DEF NationalInv, LoopInv, SameBounds
  <2>9. QED
    BY <2>1, <2>4, <2>5, <2>6, <2>7, <2>8 DEF NationalInv
<1>5. QED
  BY <1>3, <1>4 DEF beginsStaging

LEMMA UploadsKeepsInv ==
  ASSUME NationalInv, NEW succeeds \in BOOLEAN, uploads(succeeds)
  PROVE  NationalInv'
<1> DEFINE p == [player EXCEPT !.replacementPending = TRUE]
           pc == IF player.operation = None THEN "held" ELSE "holding"
<1>0. Commit \in Task /\ Reveal \in Task \ {Commit}
  BY TasksAreDistinct
<1>1. /\ task[Commit].pc = "uploading" /\ layer.told[Commit] = Nothing
      /\ ~Awaits(layer, Commit) /\ UNCHANGED app
      /\ LayerInv(layer) /\ TaskShape(task) /\ Shape
  BY DEF NationalInv, Shape, PromisesInv, uploads
<1>2. SameBounds
  <2>1. (~succeeds) \in BOOLEAN /\ Faulty(~succeeds)
    BY DEF uploads
  <2>2. QED
    BY <1>1, <2>1, BoundsKept
<1>3. CASE CommitFails(rollbackStaging(layer))
  BY <1>1, <1>2, <1>3, LayerIsUnmoved, CommitFailsKeepsInv
<1>4. CASE /\ layer.staging # None /\ layer' = uploadStagedChunks(layer)
           /\ player' = pauseAndWait(p)
           /\ commit' = [commit EXCEPT !.resume = player.playing]
           /\ Goes(Commit, pc)
  <2>1. LayerInv(layer') /\ Stands(layer', layer)
    BY <1>1, <1>4, UploadedInv
  <2>2. TaskShape(task') /\ task'[Commit].pc \in {"held", "holding"}
        /\ task'[Reveal] = task[Reveal]
    BY <1>0, <1>1, <1>4, TaskGoes
  <2>3. /\ DOMAIN commit' = CommitFields /\ commit'.candidate = commit.candidate
        /\ commit'.proposed = commit.proposed
        /\ commit'.sealed = commit.sealed /\ commit'.resume = player.playing
    BY <1>1, <1>4 DEF Shape, CommitFields
  <2>4. Keeps(player', player) /\ (player'.playing => player.playing)
    <3>1. Calms(p, player)
      BY <1>1, PlayerNotes DEF Shape
    <3> HIDE DEF p
    <3>2. Keeps(pauseAndWait(p), p) /\ (pauseAndWait(p).playing => p.playing)
      BY <3>1, PlayerOperations DEF Calms, Keeps
    <3>3. QED
      BY <1>4, <3>1, <3>2 DEF Calms, Keeps
  <2> HIDE DEF p
  <2>5. Shape' /\ PromisesInv'
    BY <1>1, <1>2, <2>1, <2>2, <2>3, <2>4
       DEF NationalInv, Shape, PromisesInv, SameBounds, Stands, Awaits, Keeps
  <2>6. UpdateInv' /\ (~bounds.recoveryFailed => ~Changing(layer'))
    BY <1>1, <1>2, <2>1, <2>2, <2>3 DEF NationalInv, UpdateInv, SameBounds, Stands, Changing
  <2>7. SourceInv'
    BY <1>1, <2>1, <2>2, <2>3, <2>4 DEF NationalInv, SourceInv, Stands, Keeps
  <2>8. HistoryInv'
    BY <1>1, <2>2, <2>3, <2>4 DEF NationalInv, HistoryInv, Keeps
  <2>9. LoopInv'
    <3>1. Retained(layer') = Retained(layer) /\ RetainedEmptied(layer') = RetainedEmptied(layer)
      BY <2>1 DEF Stands, Retained, RetainedEmptied
    <3>2. QED
      BY <1>1, <1>2, <2>2, <2>6, <3>1 DEF NationalInv, LoopInv, SameBounds
  <2>10. QED
    BY <2>1, <2>5, <2>6, <2>7, <2>8, <2>9 DEF NationalInv
<1>5. QED
  BY <1>3, <1>4 DEF uploads

(* The commit that throws leaves nothing to be taken back, and a resident   *)
(* without textures.                                                        *)
LEMMA ThrowsUnmoved ==
  ASSUME NationalInv, task[Commit].pc \in {"held", "refused"}, app.owned,
         MayCommit(layer, commit.candidate, commit.proposed),
         ~CommitDraws(layer, selectionAtCommit)
  PROVE  LET n == commitStagedResidencyThrows(layer, commit.proposed)
         IN  /\ LayerInv(n) /\ Unmoved(n) /\ n.told = layer.told
             /\ n.residents = commit.proposed /\ ~Changing(layer) /\ ~Changing(n)
             /\ n.awaitingExternalCommit = NoMutation
<1> DEFINE n == commitStagedResidencyThrows(layer, commit.proposed)
<1>1. /\ IsSeries(commit.proposed) /\ commit.candidate \in commit.proposed
      /\ commit.candidate \in Nat
  BY Proposal DEF NationalInv, HistoryInv
<1>2. selectionAtCommit \in commit.proposed
  BY <1>1, LeastIsMember DEF selectionAtCommit, IsSeries
<1>3. LayerInv(layer) /\ layer.status # "removed" /\ DOMAIN layer.told = Task
  BY DEF NationalInv, SourceInv, Shape
<1>4. /\ LayerInv(n) /\ n.told = layer.told /\ n.visibility = layer.visibility
      /\ n.paintWaiter = NoWaiter /\ layer.paintWaiter = NoWaiter
      /\ n.status # "removed" /\ n.residents = commit.proposed /\ n.emptied # {}
      /\ n.mutation = NoMutation /\ n.awaitingExternalCommit = NoMutation
      /\ layer.mutation = NoMutation /\ layer.awaitingExternalCommit = NoMutation
  BY <1>1, <1>2, <1>3, ThrownInv
<1> HIDE DEF n
<1>5. ~Changing(layer) /\ ~Changing(n)
  BY <1>4, Nulls DEF Changing
<1>6. Unmoved(n)
  BY <1>3, <1>4, <1>5 DEF Unmoved
<1>7. QED
  BY <1>4, <1>5, <1>6 DEF n

LEMMA CommitsStagingKeepsInv ==
  ASSUME NationalInv, commitsStaging
  PROVE  NationalInv'
<1>0. Commit \in Task /\ Reveal \in Task \ {Commit}
  BY TasksAreDistinct
<1>1. /\ task[Commit].pc \in {"held", "refused"} /\ layer.told[Commit] = Nothing
      /\ ~Awaits(layer, Commit) /\ UNCHANGED <<app, bounds>>
      /\ LayerInv(layer) /\ TaskShape(task) /\ Shape
  BY DEF NationalInv, Shape, PromisesInv, commitsStaging
<1>2. SameBounds
  BY <1>1, BoundsKept
<1>3. CASE CommitFails(rollbackStaging(layer))
  BY <1>1, <1>2, <1>3, LayerIsUnmoved, CommitFailsKeepsInv
<1>4. CASE /\ layer' = rollbackStaging(layer)
           /\ player' = resumeAfterMutation([player EXCEPT !.replacementPending = FALSE], FALSE)
           /\ task' = [task EXCEPT ![Commit] = NoTask] /\ commit' = NoCommit
  <2> DEFINE p == [player EXCEPT !.replacementPending = FALSE]
  <2>1. Calms(p, player)
    BY <1>1, PlayerNotes DEF Shape
  <2>2. ~bounds.recoveryFailed => layer.awaitingExternalCommit = NoMutation
    BY <1>1 DEF NationalInv, UpdateInv
  <2>3. player' = resumeAfterMutation(p, FALSE)
    BY <1>4
  <2> HIDE DEF p
  <2>4. LayerInv(layer') /\ Unmoved(layer') /\ layer'.told[Commit] = Nothing
    BY <1>1, <1>4, LayerIsUnmoved
  <2>5. task[Commit].pc # "sealing" /\ ~(FALSE /\ player.mine)
    BY <1>1
  <2>6. QED
    BY <1>1, <1>2, <1>4, <2>1, <2>2, <2>3, <2>4, <2>5, UpdateEnds
<1>5. CASE /\ app.owned /\ MayCommit(layer, commit.candidate, commit.proposed)
           /\ layer' = commitHistoryStaging(layer, Commit, commit.proposed, selectionAtCommit)
           /\ Goes(Commit, "painting") /\ UNCHANGED <<player, commit>>
  <2>1. /\ IsSeries(commit.proposed) /\ commit.candidate \in commit.proposed
        /\ commit.candidate \in Nat
    BY <1>1, Proposal DEF NationalInv, HistoryInv
  <2>2. selectionAtCommit \in commit.proposed
    BY <2>1, LeastIsMember DEF selectionAtCommit, IsSeries
  <2>3. layer.status # "removed"
    BY <1>5 DEF NationalInv, SourceInv
  <2>4. /\ LayerInv(layer') /\ layer'.told = layer.told
        /\ layer'.visibility = layer.visibility
        /\ layer'.paintWaiter = [task |-> Commit, requirePresented |-> FALSE]
        /\ layer'.status = "ready" /\ layer'.residents = commit.proposed
        /\ layer'.mutation.defers /\ layer'.mutation.residents = layer.residents
        /\ layer'.mutation.emptied = layer.emptied
        /\ layer'.awaitingExternalCommit = NoMutation
        /\ layer.mutation = NoMutation /\ layer.awaitingExternalCommit = NoMutation
    BY <1>1, <1>5, <2>1, <2>2, <2>3, CommitInv
  <2>5. TaskShape(task') /\ task'[Commit].pc = "painting" /\ task'[Reveal] = task[Reveal]
    BY <1>0, <1>1, <1>5, TaskGoes
  <2>6. Awaits(layer', Commit) /\ ~Awaits(layer', Reveal)
    BY <1>0, <2>4, TasksAreDistinct, Nulls DEF Awaits
  <2>7. Shape'
    BY <1>1, <1>2, <1>5, <2>4, <2>5 DEF Shape, SameBounds
  <2>8. PromisesInv'
    BY <1>1, <2>4, <2>5, <2>6 DEF NationalInv, PromisesInv
  <2>9. UpdateInv'
    BY <1>1, <1>5, <2>4, <2>5, <2>6 DEF NationalInv, UpdateInv
  <2>10. SourceInv'
    BY <1>1, <1>5, <2>3, <2>4, <2>5 DEF NationalInv, SourceInv
  <2>11. HistoryInv'
    BY <1>1, <1>5, <2>5 DEF NationalInv, HistoryInv
  <2>12. LoopInv'
    <3>1. Retained(layer') = Retained(layer) /\ RetainedEmptied(layer') = RetainedEmptied(layer)
      BY <2>4, Nulls DEF Retained, RetainedEmptied
    <3>2. QED
      BY <1>1, <1>5, <2>4, <2>5, <3>1 DEF NationalInv, LoopInv
  <2>13. QED
    BY <2>4, <2>7, <2>8, <2>9, <2>10, <2>11, <2>12 DEF NationalInv
<1>6. CASE /\ app.owned /\ MayCommit(layer, commit.candidate, commit.proposed)
           /\ ~CommitDraws(layer, selectionAtCommit)
           /\ CommitFails(commitStagedResidencyThrows(layer, commit.proposed))
  <2> DEFINE n == commitStagedResidencyThrows(layer, commit.proposed)
  <2>1. LayerInv(n) /\ Unmoved(n) /\ n.told = layer.told
    BY <1>1, <1>6, ThrowsUnmoved
  <2>2. CommitFails(n)
    BY <1>6
  <2> HIDE DEF n
  <2>3. QED
    BY <1>1, <1>2, <2>1, <2>2, CommitFailsKeepsInv
<1>7. QED
  BY <1>3, <1>4, <1>5, <1>6 DEF commitsStaging

LEMMA HistoryPaintedKeepsInv ==
  ASSUME NationalInv, historyPainted
  PROVE  NationalInv'
<1>0. Commit \in Task /\ Reveal \in Task \ {Commit}
  BY TasksAreDistinct
<1>1. /\ task[Commit].pc = "painting" /\ ~Awaits(layer, Commit) /\ UNCHANGED <<app, bounds>>
      /\ LayerInv(layer) /\ TaskShape(task) /\ Shape
  BY DEF NationalInv, Shape, PromisesInv, historyPainted
<1>2. SameBounds
  BY <1>1, BoundsKept
<1>3. LayerInv(Heard(Commit)) /\ Unmoved(Heard(Commit)) /\ Heard(Commit).told[Commit] = Nothing
  BY LayerIsUnmoved
<1>4. CASE CommitFails(Heard(Commit))
  BY <1>1, <1>2, <1>3, <1>4, CommitFailsKeepsInv
<1>5. CASE /\ layer' = Heard(Commit)
           /\ commit' = [commit EXCEPT !.receipt = layer.told[Commit]]
           /\ Goes(Commit, "committing") /\ UNCHANGED player
  <2>1. LayerInv(layer') /\ Unmoved(layer') /\ layer'.told[Commit] = Nothing
    BY <1>3, <1>5
  <2>2. TaskShape(task') /\ task'[Commit].pc = "committing" /\ task'[Reveal] = task[Reveal]
    BY <1>0, <1>1, <1>5, TaskGoes
  <2>3. /\ DOMAIN commit' = CommitFields /\ commit'.candidate = commit.candidate
        /\ commit'.proposed = commit.proposed
        /\ commit'.sealed = commit.sealed /\ commit'.resume = commit.resume
    BY <1>1, <1>5 DEF Shape, CommitFields
  <2>4. Shape' /\ PromisesInv'
    BY <1>1, <1>2, <1>5, <2>1, <2>2, <2>3
       DEF NationalInv, Shape, PromisesInv, SameBounds, Unmoved, Awaits
  <2>5. UpdateInv'
    BY <1>1, <2>1, <2>2, <2>3 DEF NationalInv, UpdateInv, Unmoved
  <2>6. SourceInv'
    BY <1>1, <1>5, <2>1, <2>2, <2>3 DEF NationalInv, SourceInv, Unmoved
  <2>7. HistoryInv'
    BY <1>1, <1>5, <2>2, <2>3 DEF NationalInv, HistoryInv
  <2>8. LoopInv'
    <3>1. Retained(layer') = Retained(layer) /\ Changing(layer') = Changing(layer)
          /\ RetainedEmptied(layer') = RetainedEmptied(layer)
          /\ layer'.residents = layer.residents
      BY <1>5, <2>1, LayerIsUnmoved DEF Unmoved, KeepsLoop, Retained, RetainedEmptied, Changing
    <3>2. QED
      BY <1>1, <2>2, <2>3, <3>1 DEF NationalInv, LoopInv
  <2>9. QED
    BY <2>1, <2>4, <2>5, <2>6, <2>7, <2>8 DEF NationalInv
<1>6. QED
  BY <1>4, <1>5 DEF historyPainted

LEMMA CommitFrameKeepsInv ==
  ASSUME NationalInv, NEW succeeds \in BOOLEAN, commitNationalHistoryFrame(succeeds)
  PROVE  NationalInv'
<1>0. Commit \in Task /\ Reveal \in Task \ {Commit}
  BY TasksAreDistinct
<1>1. /\ task[Commit].pc = "committing" /\ layer.told[Commit] = Nothing
      /\ ~Awaits(layer, Commit) /\ UNCHANGED app
      /\ LayerInv(layer) /\ TaskShape(task) /\ Shape
  BY DEF NationalInv, Shape, PromisesInv, commitNationalHistoryFrame
<1>2. SameBounds
  <2>1. (~succeeds) \in BOOLEAN /\ Faulty(~succeeds)
    BY DEF commitNationalHistoryFrame
  <2>2. QED
    BY <1>1, <2>1, BoundsKept
<1>3. CASE CommitFails(layer)
  BY <1>1, <1>2, <1>3, LayerIsUnmoved, CommitFailsKeepsInv
<1>4. CASE /\ layer.awaitingExternalCommit # NoMutation
           /\ layer' = finalizeHistoryMutation(layer)
           /\ commit' = [commit EXCEPT !.sealed = TRUE]
           /\ Goes(Commit, "sealing") /\ UNCHANGED player
  <2>1. LayerInv(layer') /\ layer'.awaitingExternalCommit = NoMutation
        /\ Stands([layer' EXCEPT !.awaitingExternalCommit = layer.awaitingExternalCommit], layer)
    BY <1>1, <1>4, FinalInv
  <2>2. /\ layer'.told = layer.told /\ layer'.paintWaiter = layer.paintWaiter
        /\ layer'.visibility = layer.visibility /\ layer'.mutation = layer.mutation
        /\ layer'.residents = layer.residents
        /\ layer'.status = "removed" <=> layer.status = "removed"
    <3> DEFINE n == [layer' EXCEPT !.awaitingExternalCommit = layer.awaitingExternalCommit]
    <3>1. /\ n.told = layer'.told /\ n.paintWaiter = layer'.paintWaiter
          /\ n.visibility = layer'.visibility /\ n.mutation = layer'.mutation
          /\ n.residents = layer'.residents /\ n.status = layer'.status
      BY <2>1 DEF LayerInv, LayerIsSound, LayerFields
    <3>2. Stands(n, layer)
      BY <2>1
    <3> HIDE DEF n
    <3>3. QED
      BY <3>1, <3>2 DEF Stands
  <2>3. TaskShape(task') /\ task'[Commit].pc = "sealing" /\ task'[Reveal] = task[Reveal]
    BY <1>0, <1>1, <1>4, TaskGoes
  <2>4. /\ DOMAIN commit' = CommitFields /\ commit'.candidate = commit.candidate
        /\ commit'.proposed = commit.proposed /\ commit'.resume = commit.resume
    BY <1>1, <1>4 DEF Shape, CommitFields
  <2>5. Shape' /\ PromisesInv'
    BY <1>1, <1>2, <1>4, <2>2, <2>3, <2>4
       DEF NationalInv, Shape, PromisesInv, SameBounds, Awaits
  <2>6. UpdateInv' /\ (~bounds.recoveryFailed => ~Changing(layer'))
    BY <1>1, <1>2, <2>1, <2>2, <2>3 DEF NationalInv, UpdateInv, Changing, SameBounds
  <2>7. SourceInv'
    BY <1>1, <1>4, <2>2, <2>3, <2>4 DEF NationalInv, SourceInv
  <2>8. HistoryInv'
    BY <1>1, <1>4, <2>3, <2>4 DEF NationalInv, HistoryInv
  <2>9. LoopInv'
    <3>1. Changing(layer)
      BY <1>4 DEF Changing
    <3>2. QED
      BY <1>1, <1>2, <2>2, <2>3, <2>4, <2>6, <3>1 DEF NationalInv, LoopInv, SameBounds
  <2>10. QED
    BY <2>1, <2>5, <2>6, <2>7, <2>8, <2>9 DEF NationalInv
<1>5. QED
  BY <1>3, <1>4 DEF commitNationalHistoryFrame

LEMMA FinalizeKeepsInv ==
  ASSUME NationalInv, finalizeNationalHistoryCommit
  PROVE  NationalInv'
<1>0. Commit \in Task /\ Reveal \in Task \ {Commit}
  BY TasksAreDistinct
<1>1. /\ task[Commit].pc = "sealing" /\ UNCHANGED <<layer, player, commit, bounds>>
      /\ layer.told[Commit] = Nothing /\ ~Awaits(layer, Commit)
      /\ TaskShape(task) /\ Shape /\ (~bounds.recoveryFailed => ~Changing(layer))
  BY DEF NationalInv, Shape, PromisesInv, UpdateInv, Changing, finalizeNationalHistoryCommit
<1>2. TaskShape(task') /\ task'[Commit].pc = "receipt" /\ task'[Reveal] = task[Reveal]
  BY <1>0, <1>1, TaskGoes DEF finalizeNationalHistoryCommit
<1>3. /\ DOMAIN app' = AppFields /\ app'.backend = commit.proposed /\ app'.unpublished
      /\ app'.shown = app.shown /\ app'.resident = app.resident /\ app'.owned = app.owned
      /\ app'.history = app.history
  BY <1>1 DEF finalizeNationalHistoryCommit, Shape, AppFields
<1>4. IsSeries(commit.proposed) /\ \A h \in app.history : \E n \in commit.proposed : h <= n
  BY <1>1, Proposal DEF NationalInv, HistoryInv
<1>5. LayerInv(layer') /\ Shape' /\ PromisesInv' /\ UpdateInv'
  BY <1>1, <1>2, <1>3 DEF NationalInv, Shape, PromisesInv, UpdateInv, Awaits, Changing
<1>6. SourceInv'
  BY <1>1, <1>2, <1>3 DEF NationalInv, SourceInv
<1>7. HistoryInv'
  BY <1>1, <1>2, <1>3, <1>4 DEF NationalInv, HistoryInv
<1>8. LoopInv'
  BY <1>1, <1>2, <1>3 DEF NationalInv, LoopInv
<1>9. QED
  BY <1>5, <1>6, <1>7, <1>8 DEF NationalInv

LEMMA PublishKeepsInv ==
  ASSUME NationalInv, publishNationalHistory
  PROVE  NationalInv'
<1>0. Commit \in Task /\ Reveal \in Task \ {Commit}
  BY TasksAreDistinct
<1>1. /\ task[Commit].pc = "receipt" /\ layer.told[Commit] = Nothing
      /\ ~Awaits(layer, Commit) /\ LayerInv(layer) /\ TaskShape(task) /\ Shape
      /\ DOMAIN player = PlayerFields /\ (~bounds.recoveryFailed => ~Changing(layer))
  BY DEF NationalInv, Shape, PromisesInv, UpdateInv, Changing, publishNationalHistory
<1>2. CASE Faulty(app.owned /\ ~CannotRecover(layer)) /\ CommitFails(layer) /\ UNCHANGED app
  <2>1. SameBounds
    <3>1. (app.owned /\ ~CannotRecover(layer)) \in BOOLEAN
      OBVIOUS
    <3>2. QED
      BY <1>1, <1>2, <3>1, BoundsKept
  <2>2. QED
    BY <1>1, <1>2, <2>1, LayerIsUnmoved, CommitFailsKeepsInv
<1>3. CASE \E receipt :
             /\ app' = [app EXCEPT !.history = app.backend, !.unpublished = FALSE]
             /\ player' = resumeAfterMutation(
                            acceptHistory(player, layer, app.backend, receipt), commit.resume)
             /\ task' = [task EXCEPT ![Commit] = NoTask] /\ commit' = NoCommit
             /\ UNCHANGED <<layer, bounds>>
  <2>1. PICK receipt :
          /\ app' = [app EXCEPT !.history = app.backend, !.unpublished = FALSE]
          /\ player' = resumeAfterMutation(
                         acceptHistory(player, layer, app.backend, receipt), commit.resume)
          /\ task' = [task EXCEPT ![Commit] = NoTask] /\ commit' = NoCommit
          /\ UNCHANGED <<layer, bounds>>
    BY <1>3
  <2> DEFINE p == acceptHistory(player, layer, app.backend, receipt)
  <2>2. /\ DOMAIN p = PlayerFields /\ p.observations = app.backend
        /\ p.disposed = player.disposed /\ p.playing = player.playing /\ p.mine = player.mine
    BY <1>1, AcceptsHistory
  <2>3. player' = resumeAfterMutation(p, commit.resume)
    BY <2>1
  <2> HIDE DEF p
  <2>4. Keeps(player', p) /\ (~(commit.resume /\ p.mine) => Calms(player', p))
    BY <2>2, <2>3, PlayerOperations
  <2>5. /\ DOMAIN app' = AppFields /\ app'.history = app.backend /\ app'.backend = app.backend
        /\ ~app'.unpublished /\ app'.shown = app.shown /\ app'.resident = app.resident
        /\ app'.owned = app.owned
    BY <1>1, <2>1 DEF Shape, AppFields
  <2>6. TaskShape(task') /\ task'[Commit].pc = "idle" /\ task'[Reveal] = task[Reveal]
    BY <1>0, <1>1, <2>1, TaskEnds
  <2>7. DOMAIN commit' = CommitFields /\ ~commit'.sealed /\ ~commit'.resume
    BY <2>1 DEF NoCommit, CommitFields
  <2>8. LayerInv(layer') /\ Shape'
    BY <1>1, <2>1, <2>4, <2>5, <2>6, <2>7 DEF Shape, Keeps
  <2>9. PromisesInv'
    BY <1>1, <2>1, <2>6 DEF NationalInv, PromisesInv, Awaits
  <2>10. UpdateInv'
    BY <1>1, <2>1, <2>7 DEF UpdateInv, Changing
  <2>11. SourceInv'
    BY <2>1, <2>2, <2>4, <2>5, <2>6, <2>7 DEF NationalInv, SourceInv, Keeps, Calms
  <2>12. HistoryInv'
    <3>1. IsSeries(app.backend)
      BY DEF NationalInv, HistoryInv
    <3>2. \A h \in app.backend : \E b \in app.backend : h <= b
      <4>1. \A h \in app.backend : h <= h
        BY <3>1 DEF IsSeries
      <4>2. QED
        BY <4>1
    <3>3. QED
      BY <2>2, <2>4, <2>5, <2>6, <3>1, <3>2 DEF HistoryInv, Keeps
  <2>13. LoopInv'
    BY <1>1, <2>1, <2>5, <2>6 DEF NationalInv, LoopInv, Retained, Changing
  <2>14. QED
    BY <2>8, <2>9, <2>10, <2>11, <2>12, <2>13 DEF NationalInv
<1>4. QED
  BY <1>2, <1>3 DEF publishNationalHistory

LEMMA RolledBackKeepsInv ==
  ASSUME NationalInv, rolledBack
  PROVE  NationalInv'
<1>1. /\ task[Commit].pc = "rollingBack" /\ ~Awaits(layer, Commit) /\ UNCHANGED <<app, bounds>>
      /\ DOMAIN player = PlayerFields /\ Shape
  BY DEF NationalInv, Shape, PromisesInv, rolledBack
<1>2. SameBounds
  BY <1>1, BoundsKept
<1>3. ~bounds.recoveryFailed => layer.awaitingExternalCommit = NoMutation
  BY <1>1 DEF NationalInv, UpdateInv
<1>4. app.resident => ~(commit.resume /\ player.mine)
  BY DEF NationalInv, SourceInv
<1>5. Calms(player, player)
  BY <1>1, PlayerOperations
<1>6. LayerInv(layer') /\ Unmoved(layer') /\ layer'.told[Commit] = Nothing
  BY LayerIsUnmoved DEF rolledBack
<1>7. QED
  BY <1>1, <1>2, <1>3, <1>4, <1>5, <1>6, UpdateEnds DEF rolledBack

-----------------------------------------------------------------------------
(* The invariant holds in every state.                                      *)

LEMMA InitEstablishesInv ==
  ASSUME Init
  PROVE  NationalInv
<1>0. {Commit, Reveal} \subseteq Task /\ First \in Nat
  BY TasksAreDistinct, BoundsAreNumbers
<1>1. LayerInv(layer) /\ layer = PaintedLayer(First)
  BY PaintedLayerInv DEF Init
<1>2. /\ layer.told = [t \in Task |-> Nothing] /\ layer.paintWaiter = NoWaiter
      /\ layer.mutation = NoMutation /\ layer.awaitingExternalCommit = NoMutation
      /\ layer.status = "painted" /\ layer.residents = {First}
  BY <1>1 DEF PaintedLayer
<1>3. Shape
  BY <1>2, IdleTask DEF Init, Shape, PlayerFields, CommitFields, NoCommit, TaskShape, AppFields,
     BoundsFields
<1>4. task[Commit].pc = "idle" /\ task[Reveal].pc = "idle"
  BY <1>0, IdleTask DEF Init
<1>5. PromisesInv
  BY <1>0, <1>2 DEF PromisesInv, Awaits
<1>6. ~Changing(layer) /\ Retained(layer) = {First}
  BY <1>2, Nulls DEF Changing, Retained
<1>7. UpdateInv
  BY <1>6 DEF Init, UpdateInv, NoCommit, Changing
<1>8. SourceInv
  BY <1>2, <1>4 DEF Init, SourceInv
<1>9. HistoryInv
  <2>1. IsSeries({First})
    BY <1>0, FS_Singleton DEF IsSeries
  <2>2. \A h \in {First} : \E b \in {First} : h <= b
    BY <1>0
  <2>3. QED
    BY <1>4, <2>1, <2>2 DEF Init, HistoryInv
<1>10. LoopInv
  BY <1>4, <1>6 DEF Init, LoopInv
<1>11. QED
  BY <1>1, <1>3, <1>5, <1>7, <1>8, <1>9, <1>10 DEF NationalInv

LEMMA StutteringKeepsInv ==
  ASSUME NationalInv, UNCHANGED vars
  PROVE  NationalInv'
<1>1. LayerInv(layer') /\ Shape' /\ PromisesInv' /\ UpdateInv'
  BY DEF vars, NationalInv, Shape, PromisesInv, UpdateInv, Awaits
<1>2. SourceInv' /\ HistoryInv' /\ LoopInv'
  BY DEF vars, NationalInv, SourceInv, HistoryInv, LoopInv
<1>3. QED
  BY <1>1, <1>2 DEF NationalInv

LEMMA UpdatesKeepInv ==
  ASSUME NationalInv, Updates
  PROVE  NationalInv'
BY PreparePredecessorKeepsInv, PrepareNewerKeepsInv, CommitsPredecessorKeepsInv,
   BeginsStagingKeepsInv, CommitsStagingKeepsInv, HistoryPaintedKeepsInv, UploadsKeepsInv,
   CommitFrameKeepsInv, FinalizeKeepsInv, PublishKeepsInv, RolledBackKeepsInv DEF Updates

(* The loop, the renderer and the histories agree as far as an update lets  *)
(* them.                                                                    *)
THEOREM NationalInvariant == Spec => []NationalInv
<1>1. Init => NationalInv
  BY InitEstablishesInv
<1>2. NationalInv /\ [Next]_vars => NationalInv'
  <2>1. SUFFICES ASSUME NationalInv, [Next]_vars PROVE NationalInv'
    OBVIOUS
  <2>2. CASE UNCHANGED vars
    BY <2>1, <2>2, StutteringKeepsInv
  <2>3. CASE Updates
    BY <2>1, <2>3, UpdatesKeepInv
  <2>4. CASE startContinues \/ startGivesUp \/ advanceOnce
             \/ \E t \in {Advance, Scrub} : selectionSettles(t)
    BY <2>1, <2>4, StartContinuesKeepsInv, StartGivesUpKeepsInv, AdvanceKeepsInv,
       SelectionSettlesKeepsInv
  <2>5. CASE scrubHeld \/ acquireNationalResidentOnlyActivity \/ scrubSelects
    BY <2>1, <2>5, ScrubHeldKeepsInv, ActivityKeepsInv, ScrubSelectsKeepsInv
  <2>6. CASE siteAccepted \/ operatorSelectsNational \/ operatorSelectsSite
    BY <2>1, <2>6, SiteAcceptedKeepsInv, OperatorSelectsNationalKeepsInv,
       OperatorSelectsSiteKeepsInv
  <2>7. CASE revealResidentNational \/ revealPainted \/ acceptRevealedNational
    BY <2>1, <2>7, RevealKeepsInv, RevealPaintedKeepsInv, AcceptRevealedKeepsInv
  <2>8. CASE togglePlayback \/ operatorScrubs
    BY <2>1, <2>8, ToggleKeepsInv, ScrubsKeepsInv
  <2>9. CASE mapRenders \/ contextLost \/ contextRestored \/ rehydrates \/ paintTimesOut
    BY <2>1, <2>9, MapRendersKeepsInv, ContextLostKeepsInv, ContextRestoredKeepsInv,
       RehydratesKeepsInv, TimesOutKeepsInv
  <2>10. QED
    BY <2>1, <2>2, <2>3, <2>4, <2>5, <2>6, <2>7, <2>8, <2>9 DEF Next
<1>3. QED
  BY <1>1, <1>2, PTL DEF Spec

(* A receipt that NationalGridLayer keeps is never older than the frame it  *)
(* has selected, the context it draws in and whether it is shown: whoever   *)
(* selects the frame that is selected may be given it at once.              *)
THEOREM ReceiptsAreTrue == Spec => []PaintReceiptsAreTrue
<1>1. NationalInv => PaintReceiptsAreTrue
  BY DEF NationalInv, LayerInv, LayerIsSound, PaintsInv, PaintReceiptsAreTrue
<1>2. QED
  BY <1>1, NationalInvariant, PTL

(* Whatever an update, its rollback, a lost context and a failed draw do to *)
(* the residents, a texture that the layer cannot free any more is that of  *)
(* an observation a commit dropped that threw, or one that was retired in   *)
(* the middle of its upload; and there is none before a context is lost.    *)
THEOREM NoTextureIsLost == Spec => []GpuHoldsReferenced
<1>1. NationalInv => GpuHoldsReferenced
  BY DEF NationalInv, LayerInv, LayerIsSound, ResidencyInv, FreshInv, Known, GpuHoldsReferenced
<1>2. QED
  BY <1>1, NationalInvariant, PTL

(* A change of the residents never outlives the update that asked for it:   *)
(* what awaits the backend is committed or rolled back.                     *)
THEOREM ChangesHaveTheirUpdate == Spec => []MutationsAreSettled
<1>1. NationalInv => MutationsAreSettled
  BY DEF NationalInv, UpdateInv, MutationsAreSettled
<1>2. QED
  BY <1>1, NationalInvariant, PTL

(* However an update ends, the controller plays the history that App.tsx    *)
(* shows and the backend keeps, and the renderer has it resident; but after *)
(* a commit that has thrown with the proposed loop assigned, as long as the *)
(* observation that it had staged is resident without its textures.         *)
THEOREM PlaysWhatIsRetained == Spec => []LoopIsRetained
<1>1. NationalInv => LoopIsRetained
  <2>1. SUFFICES ASSUME NationalInv, task[Commit].pc \in {"idle", "prepared"}, app.owned,
                        ~app.unpublished, ~bounds.recoveryFailed
                 PROVE  /\ player.observations = app.history /\ app.history = app.backend
                        /\ layer.emptied = {} => layer.residents = app.history
    BY DEF LoopIsRetained
  <2>2. ~Changing(layer)
    BY <2>1 DEF NationalInv, UpdateInv, Changing
  <2>3. Retained(layer) = layer.residents /\ RetainedEmptied(layer) = layer.emptied
    BY <2>2 DEF Retained, RetainedEmptied, Changing
  <2>4. QED
    BY <2>1, <2>3 DEF NationalInv, LoopInv, HistoryInv
<1>2. QED
  BY <1>1, NationalInvariant, PTL

(* National is hidden behind a Site at rest, and the update that held its   *)
(* loop does not start it again.                                            *)
THEOREM RestsBehindASite == Spec => []HiddenLoopRests
<1>1. NationalInv => HiddenLoopRests
  BY DEF NationalInv, SourceInv, HiddenLoopRests
<1>2. QED
  BY <1>1, NationalInvariant, PTL

(* Nobody is left to a timeout because the map was not asked to repaint.    *)
THEOREM WaitersAreDrawnFor == Spec => []DrawingIsScheduled
<1>1. NationalInv => DrawingIsScheduled
  BY DEF NationalInv, LayerInv, IsScheduled, DrawingIsScheduled
<1>2. QED
  BY <1>1, NationalInvariant, PTL

-----------------------------------------------------------------------------
(* The resident loop, as its updates rely on it.                            *)

Provisional(l) == IF Changing(l) THEN {l.residents} ELSE {}

LoopsThatFit == {S \in SUBSET Nat : IsFiniteSet(S) /\ Cardinality(S) <= Limit}

Loop == INSTANCE ReversibleLoop WITH
  Observation <- Nat,
  Loops       <- LoopsThatFit,
  settled     <- Retained(layer),
  provisional <- Provisional(layer)

LoopStep == [Loop!Next]_<<Retained(layer), Provisional(layer)>>

(* What is kept if the change is taken back stays.                          *)
FallbackStays == Retained(layer') = Retained(layer)

(* The selected frame has no textures yet: presentationFromResidents throws *)
(* when the residents have been assigned.                                   *)
CommitThrows ==
  /\ commitsStaging /\ MayCommit(layer, commit.candidate, commit.proposed)
  /\ ~CommitDraws(layer, selectionAtCommit)

FallbackMoves == commitNationalHistoryFrame(TRUE) \/ siteAccepted \/ CommitThrows

(* The least of the newest has fewer than the limit after it.               *)
LEMMA NewestFits ==
  ASSUME NEW S, IsFiniteSet(S), S \subseteq Nat, S # {}
  PROVE  Cardinality(Newest(S, Limit)) <= Limit
<1> DEFINE N == Newest(S, Limit)
           Later(m) == {q \in S : q > m}
<1>1. N \subseteq S /\ N # {} /\ IsFiniteSet(N)
  BY NewestKeepsLast
<1>2. \A n \in N : Cardinality(Later(n)) < Limit
  BY DEF Newest
<1> HIDE DEF N
<1>3. PICK m \in N : \A n \in N : m <= n
  <2>1. N \subseteq Nat
    BY <1>1
  <2>2. Min(N) \in N /\ \A n \in N : Min(N) <= n
    BY <1>1, <2>1, LeastIsMember
  <2>3. QED
    BY <2>2
<1>4. N \ {m} \subseteq Later(m)
  <2>1. ASSUME NEW n \in N \ {m} PROVE n \in S /\ n > m
    <3>1. m \in Nat /\ n \in Nat /\ m <= n /\ m # n
      BY <1>1, <1>3
    <3>2. QED
      BY <1>1, <3>1
  <2>2. QED
    BY <2>1
<1>5. IsFiniteSet(Later(m)) /\ Cardinality(Later(m)) \in Nat
  BY FS_Subset, FS_CardinalityType
<1>6. Cardinality(Later(m)) < Limit
  BY <1>2
<1> HIDE DEF Later
<1>7. Cardinality(N \ {m}) <= Cardinality(Later(m))
  BY <1>4, <1>5, FS_Subset
<1>8. Cardinality(N \ {m}) = Cardinality(N) - 1 /\ Cardinality(N) \in Nat
  BY <1>1, FS_RemoveElement, FS_CardinalityType
<1>9. QED
  BY <1>5, <1>6, <1>7, <1>8, BoundsAreNumbers DEF N

(* Whatever leaves an update alone leaves the loop alone.                   *)
LEMMA LoopStays ==
  ASSUME LeavesChanges(layer', layer)
  PROVE  LoopStep /\ FallbackStays
BY DEF LoopStep, FallbackStays, LeavesChanges, Changing, Retained, Provisional

LEMMA StandingLeaves ==
  ASSUME NEW n, NEW l, Stands(n, l)
  PROVE  LeavesChanges(n, l)
BY DEF Stands, LeavesChanges

LEMMA UnmovedLeaves ==
  ASSUME NEW n, Unmoved(n), KeepsLoop(n)
  PROVE  LeavesChanges(n, layer)
BY DEF Unmoved, KeepsLoop, LeavesChanges

LEMMA LookingAlikeLeaves ==
  ASSUME NEW n, LooksLike(n, layer)
  PROVE  LeavesChanges(n, layer)
BY DEF LooksLike, LeavesChanges

LEMMA TwiceLeft ==
  ASSUME NEW l, NEW m, NEW n, LeavesChanges(m, l), LeavesChanges(n, m)
  PROVE  LeavesChanges(n, l)
BY DEF LeavesChanges

LEMMA HearingLeaves ==
  ASSUME NationalInv, NEW t
  PROVE  LooksLike(Heard(t), layer) /\ LayerInv(Heard(t))
         /\ Heard(t).paintWaiter = layer.paintWaiter
<1> DEFINE n == Heard(t)
<1>1. LooksLike(n, layer) /\ n.repaint = layer.repaint /\ n.paintWaiter = layer.paintWaiter
  BY DEF Heard, LooksLike, LayerFields, NationalInv, LayerInv, LayerIsSound
<1> HIDE DEF n
<1>2. LayerInv(n)
  BY <1>1, Alike DEF LayerInv, IsScheduled, NationalInv, LooksLike
<1>3. QED
  BY <1>1, <1>2 DEF n

(* Drawing, losing the context, having it back and a timeout.               *)
LEMMA ProgressIsLoopStep ==
  ASSUME Progress(layer', layer)
  PROVE  LoopStep /\ FallbackStays
<1>1. CASE Changing(layer')
  BY <1>1 DEF Progress, LoopStep, FallbackStays, Provisional
<1>2. CASE ~Changing(layer') /\ Changing(layer)
  <2>1. Loop!TakeBack /\ FallbackStays
    BY <1>2 DEF Progress, Provisional, Loop!TakeBack, FallbackStays
  <2>2. QED
    BY <2>1 DEF LoopStep, Loop!Next
<1>3. CASE ~Changing(layer') /\ ~Changing(layer)
  BY <1>3 DEF Progress, LoopStep, FallbackStays, Provisional
<1>4. QED
  BY <1>1, <1>2, <1>3

LEMMA MapIsLoopStep ==
  ASSUME NationalInv,
         mapRenders \/ contextLost \/ contextRestored \/ rehydrates \/ paintTimesOut
  PROVE  LoopStep /\ FallbackStays
<1>0. LayerInv(layer)
  BY DEF NationalInv
<1>1. CASE mapRenders
  <2>1. PICK fence \in {"signalled", "waiting", "failed"}, draws_ \in BOOLEAN :
          layer' = render(layer, fence, draws_)
    BY <1>1 DEF mapRenders
  <2>2. QED
    BY <1>0, <1>1, <2>1, RenderInv, ProgressIsLoopStep DEF mapRenders
<1>2. CASE contextLost
  BY <1>0, <1>2, LostInv, ProgressIsLoopStep DEF contextLost
<1>3. CASE contextRestored
  BY <1>0, <1>3, AddedInv, ProgressIsLoopStep DEF contextRestored
<1>4. CASE rehydrates
  <2>1. CASE \E following \in FollowingUpload(layer) : layer' = Rehydrates(layer, following)
    BY <1>0, <1>4, <2>1, RehydratesInv, ProgressIsLoopStep DEF rehydrates
  <2>2. CASE layer' = fail([layer EXCEPT !.uploading = None, !.uploads = {}])
    <3> DEFINE m == [layer EXCEPT !.uploading = None, !.uploads = {}, !.status = "error"]
    <3>1. DOMAIN m = LayerFields /\ m.residents = layer.residents
          /\ m.emptied = layer.emptied /\ m.mutation = layer.mutation
          /\ m.awaitingExternalCommit = layer.awaitingExternalCommit
          /\ m.status = "error" /\ layer.status # "removed"
      BY <1>0, <1>4 DEF LayerInv, LayerIsSound, OffMapInv, LayerFields, rehydrates
    <3>2. layer' = rejectPaintWaiter(m)
      BY <1>0, <2>2 DEF fail, LayerInv, LayerIsSound, LayerFields
    <3> HIDE DEF m
    <3>3. LooksLike(layer', m)
      BY <3>1, <3>2, Rejecting
    <3>4. LeavesChanges(layer', layer)
      BY <3>1, <3>3 DEF LooksLike, LeavesChanges
    <3>5. QED
      BY <3>4, LoopStays
  <2>3. QED
    BY <1>4, <2>1, <2>2 DEF rehydrates
<1>5. CASE paintTimesOut
  BY <1>0, <1>5, ExpiresProgress, ProgressIsLoopStep DEF paintTimesOut
<1>6. QED
  BY <1>1, <1>2, <1>3, <1>4, <1>5

(* Selections, the source and a reveal.                                     *)
LEMMA OperatorIsLoopStep ==
  ASSUME NationalInv,
         \/ advanceOnce \/ scrubSelects \/ \E t \in {Advance, Scrub} : selectionSettles(t)
         \/ revealResidentNational \/ revealPainted \/ acceptRevealedNational
  PROVE  LoopStep /\ FallbackStays
<1>0. LayerInv(layer)
  BY DEF NationalInv
<1>1. CASE \E t, o, p : select(t, o, p)
  BY <1>0, <1>1, SelectInv, LoopStays DEF select
<1>2. CASE UNCHANGED layer
  BY <1>2, LoopStays DEF LeavesChanges
<1>3. CASE \E t : layer' = Heard(t)
  BY <1>3, HearingLeaves, LookingAlikeLeaves, LoopStays
<1>4. ASSUME NEW l, LayerInv(l), LeavesChanges(l, layer), l.paintWaiter = layer.paintWaiter,
             task[Reveal].pc = "painting" => ~Awaits(layer, Reveal), task[Reveal].pc # "idle",
             RevealFails(l)
      PROVE  LoopStep /\ FallbackStays
  <2>1. ~Awaits(layer, Reveal)
    BY <1>4 DEF NationalInv, PromisesInv
  <2>2. ~(l.paintWaiter # NoWaiter /\ l.paintWaiter.requirePresented)
    BY <1>4, <2>1, NoneMustSee
  <2>3. Stands([layer' EXCEPT !.visibility = l.visibility], l) /\ DOMAIN layer' = LayerFields
    BY <1>4, <2>2, VisibilityInv DEF RevealFails, LayerInv, LayerIsSound
  <2> DEFINE n == [layer' EXCEPT !.visibility = l.visibility]
  <2>4. /\ n.status = layer'.status /\ n.mutation = layer'.mutation
        /\ n.awaitingExternalCommit = layer'.awaitingExternalCommit
        /\ n.residents = layer'.residents /\ n.emptied = layer'.emptied
    BY <2>3 DEF LayerFields
  <2>5. Stands(n, l)
    BY <2>3
  <2> HIDE DEF n
  <2>6. LeavesChanges(layer', l)
    BY <2>4, <2>5 DEF Stands, LeavesChanges
  <2>7. QED
    BY <1>4, <2>6, TwiceLeft, LoopStays
<1>5. LeavesChanges(layer, layer)
  BY DEF LeavesChanges
<1>6. CASE advanceOnce
  BY <1>1, <1>2, <1>6 DEF advanceOnce
<1>7. CASE scrubSelects
  BY <1>1, <1>2, <1>7 DEF scrubSelects
<1>8. CASE \E t \in {Advance, Scrub} : selectionSettles(t)
  BY <1>3, <1>8 DEF selectionSettles
<1>9. CASE revealResidentNational
  <2>1. task[Reveal].pc = "busy"
    BY <1>9 DEF revealResidentNational
  <2>2. layer.visibility = "resident"
    BY <2>1, <1>9 DEF NationalInv, SourceInv
  <2>3. CASE MayReveal(layer) /\ layer' = revealAndWait(layer, Reveal, task[Reveal].target)
    BY <1>0, <2>2, <2>3, RevealInv, LoopStays
  <2>4. CASE RevealFails(layer)
    BY <1>0, <1>4, <1>5, <2>1, <2>4
  <2>5. QED
    BY <1>9, <2>3, <2>4 DEF revealResidentNational
<1>10. CASE revealPainted
  <2>1. task[Reveal].pc = "painting" /\ layer.told[Reveal] # Nothing
    BY <1>10 DEF revealPainted
  <2>2. ~Awaits(layer, Reveal)
    BY <2>1 DEF NationalInv, PromisesInv
  <2>3. CASE RevealFails(Heard(Reveal))
    <3>1. LayerInv(Heard(Reveal)) /\ LeavesChanges(Heard(Reveal), layer)
          /\ Heard(Reveal).paintWaiter = layer.paintWaiter
      BY HearingLeaves, LookingAlikeLeaves
    <3>2. QED
      BY <1>4, <2>1, <2>2, <2>3, <3>1
  <2>4. QED
    BY <1>3, <1>10, <2>3 DEF revealPainted
<1>11. CASE acceptRevealedNational
  <2>1. task[Reveal].pc = "fading"
    BY <1>11 DEF acceptRevealedNational
  <2>2. CASE RevealFails(layer)
    BY <1>0, <1>4, <1>5, <2>1, <2>2
  <2>3. QED
    BY <1>2, <1>11, <2>2 DEF acceptRevealedNational
<1>12. QED
  BY <1>6, <1>7, <1>8, <1>9, <1>10, <1>11

(* A Site is accepted: National is hidden, or removed with its loop.        *)
LEMMA SiteIsLoopStep ==
  ASSUME NationalInv, siteAccepted
  PROVE  LoopStep
<1>0. LayerInv(layer) /\ ~Awaits(layer, Reveal)
  BY DEF NationalInv, SourceInv, PromisesInv, siteAccepted
<1>1. CASE layer' = setVisibility(layer, "resident")
  <2>1. Stands([layer' EXCEPT !.visibility = layer.visibility], layer)
        /\ DOMAIN layer' = LayerFields
    BY <1>0, <1>1, NoneMustSee, VisibilityInv DEF LayerInv, LayerIsSound
  <2>2. QED
    BY <2>1, StandsStands, LoopStays
<1>2. CASE layer' = layer
  BY <1>2, LoopStays DEF LeavesChanges
<1>3. CASE layer' = onRemove(layer) /\ layer.added
  <2>1. LayerInv(layer') /\ layer'.status = "removed"
    BY <1>0, <1>3, RemovedInv
  <2>2. layer'.residents = {} /\ ~Changing(layer')
    BY <2>1, Nulls DEF LayerInv, LayerIsSound, OffMapInv, Changing
  <2>3. Loop!Remove
    BY <2>2 DEF Loop!Remove, Provisional, Retained, Changing
  <2>4. QED
    BY <2>3 DEF LoopStep, Loop!Next
<1>4. QED
  BY <1>1, <1>2, <1>3 DEF siteAccepted

(* An update that fails leaves the change or takes it back.                 *)
LEMMA FailureIsLoopStep ==
  ASSUME NationalInv, NEW l, LayerInv(l), Unmoved(l), KeepsLoop(l), CommitFails(l)
  PROVE  LoopStep /\ FallbackStays
<1>1. LeavesChanges(l, layer)
  BY UnmovedLeaves
<1>2. CASE layer' = l
  BY <1>1, <1>2, LoopStays
<1>3. CASE l.awaitingExternalCommit # NoMutation /\ layer' = rollbackHistoryMutation(l, Commit)
  <2>1. /\ layer'.residents = l.awaitingExternalCommit.residents
        /\ layer'.mutation = NoMutation /\ layer'.awaitingExternalCommit = NoMutation
        /\ l.mutation = NoMutation
    BY <1>3, TakenBackInv
  <2>2. ~Changing(layer') /\ Retained(layer') = layer'.residents
    BY <2>1, Nulls DEF Changing, Retained
  <2>3. Changing(layer) /\ Retained(layer) = layer'.residents
    BY <1>3, <2>1, Nulls DEF Changing, Retained, Unmoved
  <2>4. Loop!TakeBack /\ FallbackStays
    BY <2>2, <2>3 DEF Loop!TakeBack, Provisional, FallbackStays
  <2>5. QED
    BY <2>4 DEF LoopStep, Loop!Next
<1>4. QED
  BY <1>2, <1>3 DEF CommitFails

(* The commit that throws puts the loop that was proposed in its place.     *)
LEMMA ThrowIsLoopStep ==
  ASSUME NationalInv, task[Commit].pc \in {"held", "refused"}, app.owned,
         MayCommit(layer, commit.candidate, commit.proposed),
         ~CommitDraws(layer, selectionAtCommit),
         CommitFails(commitStagedResidencyThrows(layer, commit.proposed))
  PROVE  LoopStep
<1> DEFINE n == commitStagedResidencyThrows(layer, commit.proposed)
           S == app.history \cup {commit.candidate}
           kept == commit.proposed \cap Retained(layer)
<1>1. /\ commit.proposed = Newest(S, Limit) /\ commit.candidate \in commit.proposed
      /\ commit.candidate \in Nat /\ IsSeries(commit.proposed)
      /\ IsFiniteSet(S) /\ S \subseteq Nat /\ S # {}
  BY Proposal, FS_AddElement DEF NationalInv, HistoryInv, IsSeries
<1>2. /\ LayerInv(n) /\ Unmoved(n) /\ n.told = layer.told
      /\ n.residents = commit.proposed /\ ~Changing(layer) /\ ~Changing(n)
      /\ n.awaitingExternalCommit = NoMutation
  BY ThrowsUnmoved
<1>3. CommitFails(n)
  OBVIOUS
<1> HIDE DEF n, S
<1>4. layer' = n
  BY <1>2, <1>3 DEF CommitFails
<1>5. /\ Retained(layer) = layer.residents /\ Retained(layer') = commit.proposed
      /\ Provisional(layer) = {} /\ Provisional(layer') = {}
  BY <1>2, <1>4 DEF Changing, Retained, Provisional
<1>6. commit.proposed = kept \cup {commit.candidate} /\ kept \in SUBSET Retained(layer)
  BY <1>1, <1>5 DEF MayCommit
<1>7. commit.proposed \in LoopsThatFit
  BY <1>1, NewestFits DEF LoopsThatFit, IsSeries
<1> HIDE DEF kept
<1>8. Loop!Slip(commit.candidate)
  BY <1>5, <1>6, <1>7 DEF Loop!Slip
<1>9. QED
  BY <1>1, <1>8 DEF LoopStep, Loop!Next

(* The step that begins a change, the one that settles it, and the one that *)
(* makes it without a change to take back.                                  *)
LEMMA UpdateIsLoopStep ==
  ASSUME NationalInv, Updates
  PROVE  LoopStep /\ (FallbackStays \/ FallbackMoves)
<1> USE DEF FallbackMoves
<1>0. LayerInv(layer) /\ Unmoved(layer) /\ KeepsLoop(layer)
      /\ LayerInv(rollbackStaging(layer)) /\ Unmoved(rollbackStaging(layer))
      /\ LayerInv(Heard(Commit)) /\ Unmoved(Heard(Commit))
      /\ KeepsLoop(rollbackStaging(layer)) /\ KeepsLoop(Heard(Commit))
  BY LayerIsUnmoved DEF NationalInv
<1>1. CASE \/ CommitFails(layer) \/ CommitFails(rollbackStaging(layer))
           \/ CommitFails(Heard(Commit))
  BY <1>0, <1>1, FailureIsLoopStep
<1>2. CASE UNCHANGED layer \/ layer' = Heard(Commit) \/ layer' = rollbackStaging(layer)
  BY <1>0, <1>2, UnmovedLeaves, LoopStays
<1>3. CASE /\ MayStage(layer) /\ app.owned
           /\ layer' = beginStaging(layer, commit.candidate)
  <2>1. layer.status # "removed"
    BY <1>3 DEF NationalInv, SourceInv
  <2>2. QED
    BY <1>0, <1>3, <2>1, StagingInv, StandingLeaves, LoopStays
<1>4. CASE layer.staging # None /\ layer' = uploadStagedChunks(layer)
  BY <1>0, <1>4, UploadedInv, StandingLeaves, LoopStays
<1>5. CASE commitsStaging /\ app.owned /\ MayCommit(layer, commit.candidate, commit.proposed)
           /\ layer' = commitHistoryStaging(layer, Commit, commit.proposed, selectionAtCommit)
  <2> DEFINE S == app.history \cup {commit.candidate}
  <2>1. task[Commit].pc \in {"held", "refused"}
    BY <1>5 DEF commitsStaging
  <2>2. /\ commit.proposed = Newest(S, Limit) /\ commit.candidate \in commit.proposed
        /\ commit.candidate \in Nat /\ IsSeries(commit.proposed)
        /\ IsFiniteSet(S) /\ S \subseteq Nat /\ S # {}
    BY <2>1, Proposal, FS_AddElement DEF NationalInv, HistoryInv, IsSeries
  <2>3. selectionAtCommit \in commit.proposed
    BY <2>2, LeastIsMember DEF selectionAtCommit, IsSeries
  <2>4. layer.status # "removed"
    BY <1>5 DEF NationalInv, SourceInv
  <2> HIDE DEF S
  <2>5. /\ layer'.residents = commit.proposed /\ layer'.mutation.defers
        /\ layer'.mutation.residents = layer.residents
        /\ layer.mutation = NoMutation /\ layer.awaitingExternalCommit = NoMutation
    <3>1. LayerInv(layer) /\ MayCommit(layer, commit.candidate, commit.proposed)
          /\ layer' = commitHistoryStaging(layer, Commit, commit.proposed, selectionAtCommit)
      BY <1>0, <1>5
    <3>2. commit.candidate \in commit.proposed /\ commit.candidate \in Nat
      BY <2>2
    <3> DEFINE n == commitHistoryStaging(layer, Commit, commit.proposed, selectionAtCommit)
    <3>3. /\ LayerInv(n) /\ n.told = layer.told /\ n.visibility = layer.visibility
          /\ n.paintWaiter = [task |-> Commit, requirePresented |-> FALSE]
          /\ n.status = "ready" /\ n.residents = commit.proposed
          /\ n.mutation.defers /\ n.mutation.residents = layer.residents
          /\ n.mutation.emptied = layer.emptied
          /\ n.awaitingExternalCommit = NoMutation
          /\ layer.mutation = NoMutation /\ layer.awaitingExternalCommit = NoMutation
          /\ layer.paintWaiter = NoWaiter
      BY <2>3, <2>4, <3>1, <3>2, CommitInv
    <3> HIDE DEF n
    <3>4. layer' = n
      BY <3>1 DEF n
    <3>5. QED
      BY <3>3, <3>4
  <2>6. Changing(layer') /\ ~Changing(layer) /\ Retained(layer) = layer.residents
        /\ Retained(layer') = layer.residents
    BY <2>5, Nulls DEF Changing, Retained
  <2> DEFINE kept == commit.proposed \cap Retained(layer)
  <2>7. commit.proposed = kept \cup {commit.candidate}
    BY <1>5, <2>2, <2>6 DEF MayCommit
  <2>8. commit.proposed \in LoopsThatFit
    BY <2>2, NewestFits DEF LoopsThatFit, IsSeries
  <2> HIDE DEF kept
  <2>9. kept \in SUBSET Retained(layer)
    BY DEF kept
  <2>10. Loop!Propose(commit.candidate) /\ FallbackStays
    BY <2>5, <2>6, <2>7, <2>8, <2>9 DEF Loop!Propose, Provisional, FallbackStays
  <2>11. QED
    BY <2>2, <2>10 DEF LoopStep, Loop!Next
<1>6. CASE /\ commitNationalHistoryFrame(TRUE) /\ layer.awaitingExternalCommit # NoMutation
           /\ layer' = finalizeHistoryMutation(layer)
  <2> DEFINE n == [layer' EXCEPT !.awaitingExternalCommit = layer.awaitingExternalCommit]
  <2>1. Stands(n, layer) /\ layer'.awaitingExternalCommit = NoMutation
        /\ DOMAIN layer' = LayerFields
    BY <1>0, <1>6, FinalInv DEF LayerInv, LayerIsSound
  <2>2. n.mutation = layer'.mutation /\ n.residents = layer'.residents
    BY <2>1 DEF LayerFields
  <2> HIDE DEF n
  <2>3. layer'.mutation = layer.mutation /\ layer'.residents = layer.residents
    BY <2>1, <2>2 DEF Stands
  <2>4. layer.mutation = NoMutation
    BY <1>0, <1>6 DEF LayerInv, LayerIsSound, ChangesInv
  <2>5. Changing(layer) /\ ~Changing(layer') /\ Retained(layer') = layer.residents
    BY <1>6, <2>1, <2>3, <2>4, Nulls DEF Changing, Retained
  <2>6. Loop!Settle
    BY <2>5 DEF Loop!Settle, Provisional
  <2>7. QED
    BY <1>6, <2>6 DEF LoopStep, Loop!Next
<1>7. CASE prepareNationalHistoryPredecessor \/ prepareNationalHistoryNewer
           \/ commitsPredecessor \/ finalizeNationalHistoryCommit
  BY <1>2, <1>7 DEF prepareNationalHistoryPredecessor, prepareNationalHistoryNewer, prepares,
     commitsPredecessor, finalizeNationalHistoryCommit
<1>8. CASE beginsStaging
  BY <1>1, <1>3, <1>8 DEF beginsStaging
<1>9. CASE \E succeeds \in BOOLEAN : uploads(succeeds)
  BY <1>1, <1>4, <1>9 DEF uploads
<1>10. CASE commitsStaging
  <2>1. CASE /\ app.owned /\ MayCommit(layer, commit.candidate, commit.proposed)
             /\ ~CommitDraws(layer, selectionAtCommit)
             /\ CommitFails(commitStagedResidencyThrows(layer, commit.proposed))
    <3>1. task[Commit].pc \in {"held", "refused"} /\ CommitThrows
      BY <1>10, <2>1 DEF commitsStaging, CommitThrows
    <3>2. LoopStep
      BY <2>1, <3>1, ThrowIsLoopStep
    <3>3. QED
      BY <3>1, <3>2
  <2>2. CASE \/ CommitFails(rollbackStaging(layer)) \/ layer' = rollbackStaging(layer)
             \/ /\ app.owned /\ MayCommit(layer, commit.candidate, commit.proposed)
                /\ layer' = commitHistoryStaging(layer, Commit, commit.proposed,
                                                 selectionAtCommit)
    BY <1>1, <1>2, <1>5, <1>10, <2>2
  <2>3. QED
    BY <1>10, <2>1, <2>2 DEF commitsStaging
<1>11. CASE historyPainted
  BY <1>1, <1>2, <1>11 DEF historyPainted
<1>12. CASE \E succeeds \in BOOLEAN : commitNationalHistoryFrame(succeeds)
  <2>1. PICK succeeds \in BOOLEAN : commitNationalHistoryFrame(succeeds)
    BY <1>12
  <2>2. CASE succeeds
    <3>1. commitNationalHistoryFrame(TRUE)
      BY <2>1, <2>2
    <3>2. CommitFails(layer) \/ /\ layer.awaitingExternalCommit # NoMutation
                                /\ layer' = finalizeHistoryMutation(layer)
      BY <3>1 DEF commitNationalHistoryFrame
    <3>3. QED
      BY <1>1, <1>6, <3>1, <3>2
  <2>3. CASE ~succeeds
    <3>1. CommitFails(layer)
      BY <2>1, <2>3 DEF commitNationalHistoryFrame
    <3>2. QED
      BY <1>1, <3>1
  <2>4. QED
    BY <2>2, <2>3
<1>13. CASE publishNationalHistory
  BY <1>1, <1>2, <1>13 DEF publishNationalHistory
<1>14. CASE rolledBack
  BY <1>2, <1>14 DEF rolledBack
<1>15. QED
  BY <1>7, <1>8, <1>9, <1>10, <1>11, <1>12, <1>13, <1>14 DEF Updates

(* Every step of National, as a step of the loop.                           *)
LEMMA StepOfLoop ==
  ASSUME NationalInv, [Next]_vars
  PROVE  LoopStep /\ (FallbackStays \/ FallbackMoves)
<1>1. CASE UNCHANGED layer
  BY <1>1, LoopStays DEF LeavesChanges
<1>2. CASE Updates
  BY <1>2, UpdateIsLoopStep
<1>3. CASE startContinues \/ startGivesUp \/ scrubHeld \/ operatorSelectsNational
           \/ acquireNationalResidentOnlyActivity \/ operatorSelectsSite
           \/ togglePlayback \/ operatorScrubs \/ UNCHANGED vars
  BY <1>1, <1>3 DEF startContinues, startGivesUp, scrubHeld, operatorSelectsNational,
     acquireNationalResidentOnlyActivity, operatorSelectsSite, togglePlayback, operatorScrubs,
     vars, site
<1>4. CASE \/ advanceOnce \/ scrubSelects \/ \E t \in {Advance, Scrub} : selectionSettles(t)
           \/ revealResidentNational \/ revealPainted \/ acceptRevealedNational
  BY <1>4, OperatorIsLoopStep
<1>5. CASE siteAccepted
  BY <1>5, SiteIsLoopStep DEF FallbackMoves
<1>6. CASE mapRenders \/ contextLost \/ contextRestored \/ rehydrates \/ paintTimesOut
  BY <1>6, MapIsLoopStep
<1>7. QED
  BY <1>2, <1>3, <1>4, <1>5, <1>6 DEF Next

(* NationalGridLayer gives the updates of App.tsx what they rely on: its    *)
(* loop gains one observation at a time and fits the limit, the change can  *)
(* be taken back until the backend has committed it, and a timeout, a       *)
(* failed draw or a lost context takes all of it back or nothing. The one   *)
(* change that nothing takes back is that of a commit that throws.          *)
THEOREM RendererIsReversible == Spec => Loop!Spec
<1>1. Init => Loop!Init
  <2>1. SUFFICES ASSUME Init PROVE Loop!Init
    OBVIOUS
  <2>2. layer.residents = {First} /\ layer.mutation = NoMutation
        /\ layer.awaitingExternalCommit = NoMutation
    BY <2>1 DEF Init, PaintedLayer
  <2>3. Retained(layer) = {First} /\ Provisional(layer) = {}
    BY <2>2, Nulls DEF Retained, Provisional, Changing
  <2>4. First \in Nat
    BY BoundsAreNumbers
  <2>5. QED
    BY <2>3, <2>4 DEF Loop!Init
<1>2. NationalInv /\ [Next]_vars => LoopStep
  BY StepOfLoop
<1>3. QED
  BY <1>1, <1>2, NationalInvariant, PTL DEF Spec, Loop!Spec, LoopStep, Loop!loop

(* Neither the paint of a proposed loop nor a timeout, a lost context or a  *)
(* hidden layer changes what NationalGridLayer would go back to: that is    *)
(* done by the finalization, which App.tsx calls when the backend has       *)
(* committed, by the teardown of National for a Site, and by the commit     *)
(* that throws where its selection has no textures yet.                     *)
THEOREM FallbackIsKept == Spec => [][FallbackStays \/ FallbackMoves]_vars
<1>1. NationalInv /\ [Next]_vars => [FallbackStays \/ FallbackMoves]_vars
  BY StepOfLoop
<1>2. QED
  BY <1>1, NationalInvariant, PTL DEF Spec
=============================================================================
