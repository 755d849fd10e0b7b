---------------------------- MODULE DesktopProofs ----------------------------
(***************************************************************************)
(* Proofs about Frames and Targeting, for any sessions, windows, bounds    *)
(* and limits: their types; an act accepted under the strict policy runs   *)
(* on the newest frame of its own session; a result reported as stable was *)
(* sampled quiet for as long as the configuration asks; a session keeps    *)
(* the window its start resolved; and what an agent is given lies in that  *)
(* window.  Last, that the three parts of MCDesktop are typed together.    *)
(***************************************************************************)
EXTENDS MCDesktop, ActuationProofs

-----------------------------------------------------------------------------
(* Frames: types. *)

SettingsTyped == rule \in Rules /\ scoped \in BOOLEAN

ScreenTyped == where \in 1..2 /\ looks \in 1..2 /\ there \in BOOLEAN /\ changes \in 0..MaxChanges

ViewersTyped ==
  /\ viewing \in Viewers \union {NoViewer} /\ over \in SUBSET Viewers
  /\ queued \in [Viewers -> 0..MaxQueued] /\ doing \in [Viewers -> Doings]

LooksTyped ==
  /\ crop \in [Viewers -> Regions]
  /\ fresh \in [Viewers -> FrameOK] /\ aim \in [Viewers -> FrameOK]
  /\ baseline \in [Viewers -> [at : Regions, shows : Pictures]]

SamplesTyped ==
  /\ samples \in [Viewers -> Seq(Pictures)] /\ quiet \in [Viewers -> 0..Required]
  /\ settled \in [Viewers -> Settlings]

ShelfTyped ==
  /\ minted \in 0..MaxFrames /\ frame \in [FrameIds -> FrameOK]
  /\ stored \in Seq(FrameIds) /\ Len(stored) <= StoreLimit
  /\ current \in [Viewers -> 0..MaxFrames]

\* What a stage of a request leaves behind for the next one.  A frame that is
\* being taken has its number and its session; the act has a frame; and outside
\* the settling of an act nothing is counted.
RequestFits(v) ==
  /\ doing[v] \in {"refresh", "print", "store", "name"} => fresh[v].id # 0 /\ fresh[v].of = v
  /\ doing[v] \in {"look", "locate", "compare", "run", "settle", "after"} => aim[v].id # 0
  /\ doing[v] \notin {"settle", "after"} => quiet[v] = 0 /\ settled[v] = "none"
  /\ doing[v] = "settle" => settled[v] = "none" /\ quiet[v] < Required /\ samples[v] # <<>>

RequestsFit == \A v \in Viewers : RequestFits(v)

\* A number in the store's order is that of a frame it holds.
Shelved == \A f \in FrameIds : IsStored(f) => frame[f].id = f

FramesTypes ==
  /\ SettingsTyped /\ ScreenTyped /\ ViewersTyped /\ LooksTyped /\ SamplesTyped
  /\ ShelfTyped /\ RequestsFit /\ Shelved

LEMMA FramesTypesSplit == FramesTypes => FramesTypeOK
BY DEF FramesTypes, FramesTypeOK, SettingsTyped, ScreenTyped, ViewersTyped, LooksTyped,
   SamplesTyped, ShelfTyped

\* A picture of a region is one of the pictures.
LEMMA ShownIsPicture ==
  ASSUME ScreenTyped, NEW r \in Regions
  PROVE  Shown(r) \in Pictures
BY DEF ScreenTyped, Shown, Pictures, Regions

LEMMA NothingIsFramed == NoFrame \in FrameOK /\ NoPrint \in [at : Regions, shows : Pictures]
BY FramesAssumption DEF NoFrame, NoPrint, FrameOK, Regions, Whole, Pictures

\* What the store keeps is the latest of what it held.
LEMMA EvictionTyped ==
  ASSUME NEW ids \in Seq(FrameIds)
  PROVE  /\ Evicts(ids) \in Seq(FrameIds) /\ Len(Evicts(ids)) <= StoreLimit
         /\ \A i \in 1..Len(Evicts(ids)) : \E j \in 1..Len(ids) : Evicts(ids)[i] = ids[j]
<1> USE FramesAssumption
<1>1. CASE Len(ids) > StoreLimit
  <2>1. Evicts(ids) = SubSeq(ids, Len(ids) - StoreLimit + 1, Len(ids))
    BY <1>1 DEF Evicts
  <2>2. Len(ids) \in Nat /\ Len(ids) - StoreLimit + 1 \in 1..Len(ids)
    BY <1>1
  <2>3. /\ Evicts(ids) \in Seq(FrameIds) /\ Len(Evicts(ids)) = StoreLimit
        /\ \A i \in 1..StoreLimit : Evicts(ids)[i] = ids[Len(ids) - StoreLimit + i]
    BY <2>1, <2>2
  <2> QED BY <2>2, <2>3
<1>2. CASE ~(Len(ids) > StoreLimit)
  BY <1>2 DEF Evicts
<1> QED BY <1>1, <1>2

LEMMA FramesTypesInit == FramesInit => FramesTypes
<1> SUFFICES ASSUME FramesInit PROVE FramesTypes
  OBVIOUS
<1> USE FramesAssumption
<1>1. SettingsTyped
  BY Zenon DEF FramesInit, SettingsTyped
<1>2. ScreenTyped
  BY DEF FramesInit, ScreenTyped
<1>3. ViewersTyped
  BY DEF FramesInit, ViewersTyped, Doings
<1>4. LooksTyped
  BY NothingIsFramed DEF FramesInit, LooksTyped, Regions, Whole
<1>5. SamplesTyped
  BY DEF FramesInit, SamplesTyped, Settlings
<1>6. ShelfTyped
  BY NothingIsFramed DEF FramesInit, ShelfTyped
<1>7. RequestsFit /\ Shelved
  BY DEF FramesInit, RequestsFit, RequestFits, Shelved, IsStored
<1> QED BY <1>1, <1>2, <1>3, <1>4, <1>5, <1>6, <1>7 DEF FramesTypes

\* The screen changes under the requests.
LEMMA TypesOnScreen ==
  ASSUME FramesTypes, ScreenChanges
  PROVE  FramesTypes'
<1> USE FramesAssumption
<1> USE DEF FramesTypes, ScreenChanges, WindowRedraws, WindowMoves, WindowCloses, Changed,
        sessionSet, lookVars, settleVars, shelfVars
<1>1. ScreenTyped'
  <2>1. where' \in 1..2 /\ looks' \in 1..2 /\ changes' \in 0..MaxChanges
    BY DEF ScreenTyped
  <2>2. there' \in BOOLEAN
    BY Zenon DEF ScreenTyped
  <2> QED BY <2>1, <2>2 DEF ScreenTyped
<1>2. SettingsTyped' /\ ViewersTyped' /\ LooksTyped'
  BY DEF SettingsTyped, ViewersTyped, LooksTyped
<1>3. SamplesTyped' /\ ShelfTyped' /\ RequestsFit' /\ Shelved'
  BY DEF SamplesTyped, ShelfTyped, RequestsFit, RequestFits, Shelved, IsStored
<1> QED BY <1>1, <1>2, <1>3

\* A session starts, is stopped, or has an observe queued.
LEMMA TypesOnSession ==
  ASSUME FramesTypes, NEW v \in Viewers,
         ViewerStarts(v) \/ ViewerStops(v) \/ ObserveQueued(v) \/ Inspects(v)
  PROVE  FramesTypes'
<1> USE FramesAssumption
<1> USE DEF FramesTypes, ViewerStarts, ViewerStops, ObserveQueued, Inspects, Resolves,
        screenVars, sessionSet, lookVars, settleVars, shelfVars
<1>1. SettingsTyped' /\ ScreenTyped'
  BY DEF SettingsTyped, ScreenTyped
<1>2. ViewersTyped'
  BY DEF ViewersTyped
<1>3. LooksTyped'
  BY DEF LooksTyped, ScreenTyped, Regions, Whole
<1>4. SamplesTyped' /\ ShelfTyped' /\ RequestsFit' /\ Shelved'
  BY DEF SamplesTyped, ShelfTyped, RequestsFit, RequestFits, Shelved, IsStored
<1> QED BY <1>1, <1>2, <1>3, <1>4

\* The steps of an observe.
LEMMA TypesOnObserve ==
  ASSUME FramesTypes, NEW v \in Viewers,
         \/ ObserveBegins(v) \/ ObserveRefreshes(v) \/ Prints(v)
         \/ ObserveFails(v) \/ Stores(v) \/ Names(v)
  PROVE  FramesTypes'
<1> USE FramesAssumption
<1> USE DEF FramesTypes, Proceeds, screenVars, sessionSet, settleVars, shelfVars
<1>1. CASE ObserveBegins(v)
  <2>0. fresh' \in [Viewers -> FrameOK]
    <3>1. [NoFrame EXCEPT !.id = minted + 1, !.of = v] \in FrameOK
      <4>1. minted + 1 \in 0..MaxFrames
        BY <1>1 DEF ObserveBegins, Mints, ShelfTyped
      <4> QED BY <4>1, NothingIsFramed DEF FrameOK
    <3>2. fresh' = [fresh EXCEPT ![v] = [NoFrame EXCEPT !.id = minted + 1, !.of = v]]
      BY <1>1 DEF ObserveBegins, Mints
    <3> QED BY <3>1, <3>2 DEF LooksTyped
  <2>1. SettingsTyped' /\ ScreenTyped' /\ ViewersTyped'
    BY <1>1 DEF ObserveBegins, SettingsTyped, ScreenTyped, ViewersTyped, Doings
  <2>2. LooksTyped' /\ ShelfTyped' /\ SamplesTyped'
    BY <1>1, <2>0 DEF ObserveBegins, Mints, LooksTyped, ShelfTyped, SamplesTyped
  <2>3. RequestsFit'
    BY <1>1 DEF ObserveBegins, Mints, RequestsFit, RequestFits, NoFrame, ViewersTyped,
       LooksTyped, ShelfTyped
  <2>4. Shelved'
    BY <1>1 DEF ObserveBegins, Mints, Shelved, IsStored
  <2> QED BY <2>1, <2>2, <2>3, <2>4
<1>2. CASE ObserveRefreshes(v)
  <2>0. crop' \in [Viewers -> Regions] /\ fresh' \in [Viewers -> FrameOK]
    BY <1>2 DEF ObserveRefreshes, Resolves, LooksTyped, ScreenTyped, FrameOK, Regions, Whole
  <2>1. SettingsTyped' /\ ScreenTyped' /\ ViewersTyped'
    BY <1>2 DEF ObserveRefreshes, SettingsTyped, ScreenTyped, ViewersTyped, Doings
  <2>2. LooksTyped' /\ ShelfTyped' /\ SamplesTyped'
    BY <1>2, <2>0 DEF ObserveRefreshes, LooksTyped, ShelfTyped, SamplesTyped
  <2>3. RequestsFit'
    BY <1>2 DEF ObserveRefreshes, RequestsFit, RequestFits, ViewersTyped, LooksTyped, FrameOK
  <2>4. Shelved'
    BY <1>2 DEF ObserveRefreshes, Shelved, IsStored
  <2> QED BY <2>1, <2>2, <2>3, <2>4
<1>3. CASE Prints(v)
  <2>0. fresh' \in [Viewers -> FrameOK]
    BY <1>3, ShownIsPicture DEF Prints, LooksTyped, FrameOK
  <2>1. SettingsTyped' /\ ScreenTyped' /\ ViewersTyped'
    BY <1>3 DEF Prints, SettingsTyped, ScreenTyped, ViewersTyped, Doings
  <2>2. LooksTyped' /\ ShelfTyped' /\ SamplesTyped'
    BY <1>3, <2>0 DEF Prints, LooksTyped, ShelfTyped, SamplesTyped
  <2>3. RequestsFit'
    BY <1>3 DEF Prints, RequestsFit, RequestFits, ViewersTyped, LooksTyped, FrameOK
  <2>4. Shelved'
    BY <1>3 DEF Prints, Shelved, IsStored
  <2> QED BY <2>1, <2>2, <2>3, <2>4
<1>4. CASE ObserveFails(v) \/ Names(v)
  <2>1. SettingsTyped' /\ ScreenTyped' /\ ViewersTyped'
    BY <1>4 DEF ObserveFails, Names, SettingsTyped, ScreenTyped, ViewersTyped, Doings
  <2>2. LooksTyped'
    BY <1>4, NothingIsFramed DEF ObserveFails, Names, LooksTyped
  <2>0. ShelfTyped'
    <3>1. fresh[v].id \in 0..MaxFrames
      BY DEF LooksTyped, FrameOK
    <3> QED BY <1>4, <3>1 DEF ObserveFails, Names, ShelfTyped
  <2>4. SamplesTyped'
    BY <1>4 DEF ObserveFails, Names, SamplesTyped
  <2>3. RequestsFit'
    BY <1>4 DEF ObserveFails, Names, RequestsFit, RequestFits, ViewersTyped, LooksTyped
  <2>5. Shelved'
    BY <1>4 DEF ObserveFails, Names, Shelved, IsStored
  <2> QED BY <2>0, <2>1, <2>2, <2>3, <2>4, <2>5
<1>5. CASE Stores(v)
  <2> DEFINE ids == Append(stored, fresh[v].id)
  <2>0. fresh[v].id \in FrameIds
    BY <1>5 DEF Stores, RequestsFit, RequestFits, LooksTyped, FrameOK, FrameIds
  <2>1. ids \in Seq(FrameIds)
    BY <2>0 DEF ShelfTyped
  <2>2. stored' \in Seq(FrameIds) /\ Len(stored') <= StoreLimit
    <3>1. stored' = Evicts(ids)
      BY <1>5 DEF Stores
    <3> QED BY <3>1, <2>1, EvictionTyped
  <2>3. frame' \in [FrameIds -> FrameOK]
    BY <1>5, NothingIsFramed DEF Stores, ShelfTyped, LooksTyped
  <2>4. SettingsTyped' /\ ScreenTyped' /\ ViewersTyped'
    BY <1>5 DEF Stores, SettingsTyped, ScreenTyped, ViewersTyped, Doings
  <2>5. LooksTyped' /\ SamplesTyped' /\ ShelfTyped'
    BY <1>5, <2>2, <2>3 DEF Stores, LooksTyped, SamplesTyped, ShelfTyped, lookVars
  <2>6. RequestsFit'
    BY <1>5 DEF Stores, RequestsFit, RequestFits, ViewersTyped, lookVars
  <2>7. Shelved'
    <3> SUFFICES ASSUME NEW f \in FrameIds, IsStored(f)'
                 PROVE  frame'[f].id = f
      BY DEF Shelved
    <3>1. CASE f = fresh[v].id
      BY <1>5, <3>1 DEF Stores, LooksTyped
    <3>2. CASE f # fresh[v].id
      <4>1. frame'[f] = frame[f]
        BY <1>5, <3>2 DEF Stores, IsStored
      <4>2. PICK i \in 1..Len(stored') : stored'[i] = f
        BY DEF IsStored
      <4>3. stored' = Evicts(ids)
        BY <1>5 DEF Stores
      <4>4. PICK j \in 1..Len(ids) : ids[j] = f
        BY <4>2, <4>3, <2>1, EvictionTyped
      <4>5. j \in 1..Len(stored) /\ stored[j] = f
        BY <4>4, <3>2, <2>0 DEF ShelfTyped
      <4> QED BY <4>1, <4>5 DEF Shelved, IsStored
    <3> QED BY <3>1, <3>2
  <2> QED BY <2>4, <2>5, <2>6, <2>7
<1> QED BY <1>1, <1>2, <1>3, <1>4, <1>5

\* The steps of an act up to its batch.
LEMMA TypesOnAct ==
  ASSUME FramesTypes, NEW v \in Viewers,
         \/ ActBegins(v) \/ ActRefreshes(v) \/ ActPrints(v) \/ ActAccepted(v) \/ ActRuns(v)
  PROVE  FramesTypes'
<1> USE FramesAssumption
<1> USE DEF FramesTypes, Proceeds, screenVars, sessionSet, lookVars, settleVars, shelfVars
<1>1. SettingsTyped' /\ ScreenTyped'
  BY DEF ActBegins, ActRefreshes, ActPrints, ActAccepted, ActRuns, SettingsTyped, ScreenTyped
<1>2. ViewersTyped'
  BY DEF ActBegins, ActRefreshes, ActPrints, ActAccepted, ActRuns, ViewersTyped, Doings
<1>3. ShelfTyped' /\ Shelved'
  BY DEF ActBegins, ActRefreshes, ActPrints, ActAccepted, ActRuns, ShelfTyped, Shelved, IsStored
<1>4. CASE ActBegins(v)
  <2>1. LooksTyped' /\ SamplesTyped'
    BY <1>4 DEF ActBegins, LooksTyped, SamplesTyped, ShelfTyped
  <2>2. RequestsFit'
    BY <1>4 DEF ActBegins, RequestsFit, RequestFits, ViewersTyped, LooksTyped, Shelved, FrameIds
  <2> QED BY <1>1, <1>2, <1>3, <2>1, <2>2
<1>5. CASE ActRefreshes(v) \/ ActAccepted(v)
  <2>1. SamplesTyped'
    BY <1>5 DEF ActRefreshes, ActAccepted, SamplesTyped
  <2>3. crop' \in [Viewers -> Regions]
    BY <1>5 DEF ActRefreshes, ActAccepted, Resolves, LooksTyped, ScreenTyped, Regions, Whole
  <2>4. LooksTyped'
    BY <1>5, <2>3 DEF ActRefreshes, ActAccepted, LooksTyped
  <2>2. RequestsFit'
    BY <1>5 DEF ActRefreshes, ActAccepted, RequestsFit, RequestFits, ViewersTyped
  <2> QED BY <1>1, <1>2, <1>3, <2>1, <2>2, <2>4
<1>6. CASE ActPrints(v)
  <2>1. [at |-> crop[v], shows |-> Shown(crop[v])] \in [at : Regions, shows : Pictures]
    BY ShownIsPicture DEF LooksTyped
  <2>2. LooksTyped' /\ SamplesTyped'
    BY <1>6, <2>1 DEF ActPrints, LooksTyped, SamplesTyped
  <2>3. RequestsFit'
    BY <1>6 DEF ActPrints, RequestsFit, RequestFits, ViewersTyped
  <2> QED BY <1>1, <1>2, <1>3, <2>2, <2>3
<1>7. CASE ActRuns(v)
  <2>0. <<baseline[v].shows>> \in Seq(Pictures) /\ <<baseline[v].shows>> # <<>>
    BY DEF LooksTyped
  <2>1. LooksTyped'
    BY <1>7 DEF ActRuns, LooksTyped
  <2>2. SamplesTyped'
    <3>1. samples' \in [Viewers -> Seq(Pictures)]
      BY <1>7, <2>0 DEF ActRuns, SamplesTyped
    <3> QED BY <1>7, <3>1 DEF ActRuns, SamplesTyped
  <2>3. RequestsFit'
    <3>1. samples'[v] # <<>> \/ doing'[v] = "after"
      BY <1>7, <2>0 DEF ActRuns, SamplesTyped, ViewersTyped
    <3>2. RequestFits(v)'
      BY <1>7, <3>1 DEF ActRuns, RequestsFit, RequestFits, ViewersTyped
    <3>3. ASSUME NEW u \in Viewers \ {v} PROVE RequestFits(u)'
      BY <1>7, <3>3 DEF ActRuns, RequestsFit, RequestFits, ViewersTyped, SamplesTyped
    <3> QED BY <3>2, <3>3 DEF RequestsFit
  <2> QED BY <1>1, <1>2, <1>3, <2>1, <2>2, <2>3
<1> QED BY <1>4, <1>5, <1>6, <1>7

\* The stabilizer.
LEMMA TypesOnSettle ==
  ASSUME FramesTypes, NEW v \in Viewers, SampleTaken(v) \/ SettleTimesOut(v)
  PROVE  FramesTypes'
<1> USE FramesAssumption
<1> USE DEF FramesTypes, Proceeds, screenVars, sessionSet, lookVars, shelfVars
<1>1. SettingsTyped' /\ ScreenTyped' /\ LooksTyped'
  BY DEF SampleTaken, SettleTimesOut, SettingsTyped, ScreenTyped, LooksTyped
<1>2. ViewersTyped'
  BY DEF SampleTaken, SettleTimesOut, ViewersTyped, Doings
<1>3. ShelfTyped' /\ Shelved'
  BY DEF SampleTaken, SettleTimesOut, ShelfTyped, Shelved, IsStored
<1>4. CASE SampleTaken(v)
  <2> DEFINE now == Shown(baseline[v].at)
  <2>1. now \in Pictures
    BY ShownIsPicture DEF LooksTyped
  <2>2. Counts(v, now) \in 0..Required
    BY <1>4 DEF Counts, SampleTaken, RequestsFit, RequestFits, SamplesTyped
  <2>3. SamplesTyped'
    <3>1. samples' \in [Viewers -> Seq(Pictures)]
      BY <1>4, <2>1 DEF SampleTaken, SamplesTyped
    <3>2. quiet' \in [Viewers -> 0..Required]
      BY <1>4, <2>2 DEF SampleTaken, SamplesTyped
    <3>3. settled' \in [Viewers -> Settlings]
      BY <1>4 DEF SampleTaken, SamplesTyped, Settlings
    <3> QED BY <3>1, <3>2, <3>3 DEF SamplesTyped
  <2>4. samples'[v] # <<>>
    BY <1>4, <2>1 DEF SampleTaken, SamplesTyped, Settlings
  <2>5. RequestsFit'
    BY <1>4, <2>2, <2>4 DEF SampleTaken, RequestsFit, RequestFits, ViewersTyped, SamplesTyped
  <2> QED BY <1>1, <1>2, <1>3, <2>3, <2>5
<1>5. CASE SettleTimesOut(v)
  <2>1. SamplesTyped' /\ RequestsFit'
    BY <1>5 DEF SettleTimesOut, SamplesTyped, Settlings, RequestsFit, RequestFits, ViewersTyped
  <2> QED BY <1>1, <1>2, <1>3, <2>1
<1> QED BY <1>4, <1>5

\* The ends of an act.
LEMMA TypesOnAnswer ==
  ASSUME FramesTypes, NEW v \in Viewers,
         ActRefused(v) \/ SettleAborts(v) \/ ActReturns(v) \/ ActObserves(v)
  PROVE  FramesTypes'
<1> USE FramesAssumption
<1> USE DEF FramesTypes, Answered, Proceeds, screenVars, sessionSet, shelfVars
<1>1. SettingsTyped' /\ ScreenTyped' /\ ViewersTyped'
  BY DEF ActRefused, SettleAborts, ActReturns, ActObserves, SettingsTyped, ScreenTyped,
     ViewersTyped, Doings
<1>2. SamplesTyped'
  <2>0. samples' = [samples EXCEPT ![v] = <<>>]
    BY DEF ActRefused, SettleAborts, ActReturns, ActObserves
  <2>1. samples' \in [Viewers -> Seq(Pictures)]
    BY <2>0 DEF SamplesTyped
  <2>2. quiet' \in [Viewers -> 0..Required]
    BY DEF ActRefused, SettleAborts, ActReturns, ActObserves, SamplesTyped
  <2>3. settled' \in [Viewers -> Settlings]
    BY DEF ActRefused, SettleAborts, ActReturns, ActObserves, SamplesTyped, Settlings
  <2> QED BY <2>1, <2>2, <2>3 DEF SamplesTyped
<1>3. CASE ActRefused(v) \/ SettleAborts(v) \/ ActReturns(v)
  <2>1. LooksTyped'
    <3>1. aim' \in [Viewers -> FrameOK]
      BY <1>3, NothingIsFramed DEF ActRefused, SettleAborts, ActReturns, LooksTyped
    <3>2. baseline' \in [Viewers -> [at : Regions, shows : Pictures]]
      BY <1>3, NothingIsFramed DEF ActRefused, SettleAborts, ActReturns, LooksTyped
    <3> QED BY <1>3, <3>1, <3>2 DEF ActRefused, SettleAborts, ActReturns, LooksTyped
  <2>2. ShelfTyped' /\ Shelved'
    BY <1>3 DEF ActRefused, SettleAborts, ActReturns, ShelfTyped, Shelved, IsStored
  <2>3. RequestsFit'
    <3>1. doing'[v] = "idle" /\ quiet'[v] = 0 /\ settled'[v] = "none"
      BY <1>3 DEF ActRefused, SettleAborts, ActReturns, ViewersTyped, SamplesTyped
    <3>2. ASSUME NEW u \in Viewers \ {v} PROVE RequestFits(u)'
      BY <1>3, <3>2 DEF ActRefused, SettleAborts, ActReturns, RequestsFit, RequestFits,
         ViewersTyped, SamplesTyped, LooksTyped
    <3> QED BY <3>1, <3>2 DEF RequestsFit, RequestFits
  <2> QED BY <1>1, <1>2, <2>1, <2>2, <2>3
<1>4. CASE ActObserves(v)
  <2>1. minted + 1 \in 0..MaxFrames
    BY <1>4 DEF ActObserves, Mints, ShelfTyped
  <2>2. [NoFrame EXCEPT !.id = minted + 1, !.of = v] \in FrameOK
    BY <2>1, NothingIsFramed DEF FrameOK
  <2>3. LooksTyped'
    BY <1>4, <2>2, NothingIsFramed DEF ActObserves, Mints, LooksTyped
  <2>4. ShelfTyped' /\ Shelved'
    BY <1>4, <2>1 DEF ActObserves, Mints, ShelfTyped, Shelved, IsStored
  <2>5. RequestsFit'
    BY <1>4 DEF ActObserves, Mints, RequestsFit, RequestFits, ViewersTyped, LooksTyped,
       SamplesTyped, ShelfTyped, NoFrame
  <2> QED BY <1>1, <1>2, <2>3, <2>4, <2>5
<1> QED BY <1>3, <1>4

LEMMA FramesTypesStep == FramesTypes /\ [FramesNext]_frameVars => FramesTypes'
<1>1. ASSUME FramesTypes, UNCHANGED frameVars PROVE FramesTypes'
  BY <1>1 DEF frameVars, screenVars, sessionSet, lookVars, settleVars, shelfVars, FramesTypes,
     SettingsTyped, ScreenTyped, ViewersTyped, LooksTyped, SamplesTyped, ShelfTyped,
     RequestsFit, RequestFits, Shelved, IsStored
<1>2. ASSUME FramesTypes, FramesNext PROVE FramesTypes'
  BY <1>2, TypesOnScreen, TypesOnSession, TypesOnObserve, TypesOnAct, TypesOnSettle,
     TypesOnAnswer DEF FramesNext, ObserveActs, ActSteps
<1> QED BY <1>1, <1>2

\* Every variable of the frame store, of the requests on it and of the
\* stabilizer has its type, and the store keeps its limit, for any sessions,
\* limits and sampling.
THEOREM FramesAreTyped == FramesSpec => []FramesTypeOK
<1>1. FramesSpec => []FramesTypes
  BY FramesTypesInit, FramesTypesStep, PTL DEF FramesSpec
<1> QED BY <1>1, FramesTypesSplit, PTL

-----------------------------------------------------------------------------
(* Frames: whose a number is. *)

\* A number was taken by a session: it names a frame of that session, being
\* taken, kept or copied by an act, or it is the session's current one.
TakenBy(i, v) ==
  /\ i # 0
  /\ \/ \E u \in Viewers : fresh[u].id = i /\ fresh[u].of = v
     \/ \E f \in FrameIds : frame[f].id = i /\ frame[f].of = v
     \/ \E u \in Viewers : aim[u].id = i /\ aim[u].of = v
     \/ v \in Viewers /\ current[v] = i

\* No number is two sessions', and none is taken before it was minted.
OneTaker ==
  \A i \in 1..MaxFrames, v, w \in Viewers \union {NoViewer} :
    TakenBy(i, v) => i <= minted /\ (TakenBy(i, w) => v = w)

FramesInv == FramesTypes /\ OneTaker /\ RunsOnNewestView

\* A step hands numbers on, except the one it mints.
TakersKept ==
  \A i \in 1..MaxFrames, w \in Viewers \union {NoViewer} : TakenBy(i, w)' => TakenBy(i, w)

LEMMA KeptTakersAreOne ==
  ASSUME FramesTypes, OneTaker, TakersKept, minted' = minted
  PROVE  OneTaker'
BY DEF OneTaker, TakersKept

LEMMA MintingKeepsOneTaker ==
  ASSUME FramesTypes, OneTaker, NEW v \in Viewers, Mints(v),
         aim' = aim \/ aim' = [aim EXCEPT ![v] = NoFrame]
  PROVE  OneTaker'
<1> USE FramesAssumption
<1>1. minted \in Nat /\ minted' = minted + 1 /\ frame' = frame /\ current' = current
  BY DEF Mints, FramesTypes, ShelfTyped
<1>2. /\ \A u \in Viewers \ {v} : fresh'[u] = fresh[u]
      /\ fresh'[v].id = minted + 1 /\ fresh'[v].of = v
  BY DEF Mints, FramesTypes, LooksTyped, NoFrame
<1>3. \A u \in Viewers : aim'[u] = aim[u] \/ aim'[u].id = 0
  BY DEF FramesTypes, LooksTyped, NoFrame
<1>4. ASSUME NEW i \in 1..MaxFrames, NEW w \in Viewers \union {NoViewer}, TakenBy(i, w)'
      PROVE  TakenBy(i, w) \/ (i = minted + 1 /\ w = v)
  BY <1>1, <1>2, <1>3, <1>4 DEF TakenBy
<1> QED BY <1>1, <1>4 DEF OneTaker

\* The steps that touch no number.
QuietStep(v) ==
  \/ ViewerStarts(v) \/ ViewerStops(v) \/ ObserveQueued(v) \/ Inspects(v)
  \/ ObserveRefreshes(v) \/ Prints(v) \/ ActRefreshes(v) \/ ActPrints(v) \/ ActAccepted(v)
  \/ ActRuns(v) \/ SampleTaken(v) \/ SettleTimesOut(v)

LEMMA NumbersOnQuietStep ==
  ASSUME FramesTypes, NEW v \in Viewers, QuietStep(v)
  PROVE  /\ aim' = aim /\ current' = current /\ frame' = frame /\ minted' = minted
         /\ \A u \in Viewers : fresh'[u].id = fresh[u].id /\ fresh'[u].of = fresh[u].of
<1>1. aim' = aim /\ current' = current /\ frame' = frame /\ minted' = minted
  BY DEF QuietStep, ViewerStarts, ViewerStops, ObserveQueued, Inspects, ObserveRefreshes, Prints,
     ActRefreshes, ActPrints, ActAccepted, ActRuns, SampleTaken, SettleTimesOut, lookVars, shelfVars
<1>2. CASE ObserveRefreshes(v) \/ Prints(v)
  <2>1. \A u \in Viewers : fresh'[u] = fresh[u] \/ u = v
    BY <1>2 DEF ObserveRefreshes, Prints, FramesTypes, LooksTyped
  <2>2. \/ fresh'[v] = [fresh[v] EXCEPT !.at = crop'[v]]
        \/ fresh'[v] = [fresh[v] EXCEPT !.shows = Shown(fresh[v].at)]
    BY <1>2 DEF ObserveRefreshes, Prints, FramesTypes, LooksTyped
  <2>3. fresh[v] \in [id : 0..MaxFrames, of : Viewers \cup {NoViewer}, at : Regions,
                      shows : Pictures]
    BY DEF FramesTypes, LooksTyped, FrameOK
  <2>4. fresh'[v].id = fresh[v].id /\ fresh'[v].of = fresh[v].of
    BY <2>2, <2>3
  <2> QED BY <1>1, <2>1, <2>4
<1>3. CASE ~(ObserveRefreshes(v) \/ Prints(v))
  BY <1>1, <1>3 DEF QuietStep, ViewerStarts, ViewerStops, ObserveQueued, Inspects, ActRefreshes,
     ActPrints, ActAccepted, ActRuns, SampleTaken, SettleTimesOut, lookVars
<1> QED BY <1>2, <1>3

\* An accepted act was compared with the session's current number, which is its own.
LEMMA AcceptedIsOwn ==
  ASSUME FramesTypes, OneTaker, NEW v \in Viewers, ActAccepted(v), rule = "strict"
  PROVE  aim[v].of = v /\ aim[v].id = current[v]
<1>1. aim[v].id = current[v] /\ aim[v].id # 0 /\ doing[v] = "compare"
  BY DEF ActAccepted, IsFresh, Proceeds, FramesTypes, RequestsFit, RequestFits
<1>2. aim[v].id \in 1..MaxFrames /\ aim[v].of \in Viewers \union {NoViewer}
  BY <1>1 DEF FramesTypes, LooksTyped, FrameOK
<1>3. TakenBy(aim[v].id, v) /\ TakenBy(aim[v].id, aim[v].of)
  BY <1>1 DEF TakenBy
<1> QED BY <1>1, <1>2, <1>3 DEF OneTaker

LEMMA FramesInvOnQuietStep ==
  ASSUME FramesInv, NEW v \in Viewers, QuietStep(v)
  PROVE  OneTaker' /\ RunsOnNewestView'
<1> USE DEF FramesInv
<1>1. OneTaker'
  BY NumbersOnQuietStep, KeptTakersAreOne DEF TakersKept, TakenBy
<1>2. rule' = rule
  BY DEF QuietStep, ViewerStarts, ViewerStops, ObserveQueued, Inspects, ObserveRefreshes, Prints,
     ActRefreshes, ActPrints, ActAccepted, ActRuns, SampleTaken, SettleTimesOut, Proceeds
<1>3. \A u \in Viewers :
        \/ doing'[u] \notin {"run", "settle", "after"}
        \/ doing[u] \in {"run", "settle", "after"}
        \/ u = v /\ ActAccepted(v)
  BY DEF QuietStep, ViewerStarts, ViewerStops, ObserveQueued, Inspects, ObserveRefreshes, Prints,
     ActRefreshes, ActPrints, ActAccepted, ActRuns, SampleTaken, SettleTimesOut, Proceeds,
     FramesTypes, ViewersTyped
<1> QED BY <1>1, <1>2, <1>3, AcceptedIsOwn, NumbersOnQuietStep DEF RunsOnNewestView

\* The steps that mint a number.
LEMMA FramesInvOnMinting ==
  ASSUME FramesInv, NEW v \in Viewers, ObserveBegins(v) \/ ActObserves(v)
  PROVE  OneTaker' /\ RunsOnNewestView'
<1> USE DEF FramesInv
<1>1. Mints(v) /\ rule' = rule /\ current' = current
      /\ (aim' = aim \/ aim' = [aim EXCEPT ![v] = NoFrame])
  BY DEF ObserveBegins, ActObserves, Answered, Proceeds, Mints
<1>2. OneTaker'
  BY <1>1, MintingKeepsOneTaker
<1>3. \A u \in Viewers :
        \/ doing'[u] \notin {"run", "settle", "after"}
        \/ doing'[u] = doing[u] /\ aim'[u] = aim[u]
  BY <1>1 DEF ObserveBegins, ActObserves, Answered, Proceeds, FramesTypes, ViewersTyped, LooksTyped
<1> QED BY <1>1, <1>2, <1>3 DEF RunsOnNewestView

\* The steps that hand a number on or forget one.
LEMMA FramesInvOnHandover ==
  ASSUME FramesInv, NEW v \in Viewers,
         \/ ObserveFails(v) \/ Stores(v) \/ Names(v)
         \/ ActBegins(v) \/ ActRefused(v) \/ SettleAborts(v) \/ ActReturns(v)
  PROVE  OneTaker' /\ RunsOnNewestView'
<1> USE DEF FramesInv
<1>1. minted' = minted /\ rule' = rule
  BY DEF ObserveFails, Stores, Names, ActBegins, ActRefused, SettleAborts, ActReturns, Answered,
     Proceeds, lookVars, shelfVars
<1>2. \A u \in Viewers :
        \/ doing'[u] \notin {"run", "settle", "after"}
        \/ doing'[u] = doing[u] /\ aim'[u] = aim[u] /\ current'[u] = current[u]
  BY DEF ObserveFails, Stores, Names, ActBegins, ActRefused, SettleAborts, ActReturns, Answered,
     Proceeds, lookVars, shelfVars, FramesTypes, ViewersTyped, LooksTyped, ShelfTyped
<1>3. RunsOnNewestView'
  BY <1>1, <1>2 DEF RunsOnNewestView
<1>4. TakersKept
  <2> SUFFICES ASSUME NEW i \in 1..MaxFrames, NEW w \in Viewers \union {NoViewer}, TakenBy(i, w)'
               PROVE  TakenBy(i, w)
    BY DEF TakersKept
  <2>0. NoFrame.id = 0
    BY DEF NoFrame
  <2>1. CASE ObserveFails(v)
    <3>1. aim' = aim /\ current' = current /\ frame' = frame
      BY <2>1 DEF ObserveFails, shelfVars
    <3>2. \A u \in Viewers : fresh'[u] = fresh[u] \/ fresh'[u].id = 0
      BY <2>1, <2>0 DEF ObserveFails, FramesTypes, LooksTyped
    <3> QED BY <3>1, <3>2 DEF TakenBy
  <2>2. CASE Stores(v)
    <3>1. aim' = aim /\ current' = current /\ fresh' = fresh
      BY <2>2 DEF Stores, lookVars
    <3>2. \A f \in FrameIds : frame'[f] = frame[f] \/ frame'[f] = fresh[v] \/ frame'[f].id = 0
      BY <2>2, <2>0 DEF Stores
    <3> QED BY <3>1, <3>2 DEF TakenBy
  <2>3. CASE Names(v)
    <3>1. aim' = aim /\ frame' = frame
      BY <2>3 DEF Names
    <3>2. \A u \in Viewers : fresh'[u] = fresh[u] \/ fresh'[u].id = 0
      BY <2>3, <2>0 DEF Names, FramesTypes, LooksTyped
    <3>3. \A u \in Viewers : current'[u] = current[u] \/ (u = v /\ current'[u] = fresh[v].id)
      BY <2>3 DEF Names, FramesTypes, ShelfTyped
    <3>4. fresh[v].of = v
      BY <2>3 DEF Names, Proceeds, FramesTypes, RequestsFit, RequestFits
    <3> QED BY <3>1, <3>2, <3>3, <3>4 DEF TakenBy
  <2>4. CASE ActBegins(v)
    <3>1. fresh' = fresh /\ frame' = frame /\ current' = current
      BY <2>4 DEF ActBegins, shelfVars
    <3>2. \A u \in Viewers : aim'[u] = aim[u] \/ \E f \in FrameIds : aim'[u] = frame[f]
      BY <2>4 DEF ActBegins, FramesTypes, LooksTyped
    <3> QED BY <3>1, <3>2 DEF TakenBy
  <2>5. CASE ActRefused(v) \/ SettleAborts(v) \/ ActReturns(v)
    <3>1. fresh' = fresh /\ frame' = frame /\ current' = current
      BY <2>5 DEF ActRefused, SettleAborts, ActReturns, shelfVars
    <3>2. \A u \in Viewers : aim'[u] = aim[u] \/ aim'[u].id = 0
      BY <2>5, <2>0 DEF ActRefused, SettleAborts, ActReturns, Answered, FramesTypes, LooksTyped
    <3> QED BY <3>1, <3>2 DEF TakenBy
  <2> QED BY <2>1, <2>2, <2>3, <2>4, <2>5
<1> QED BY <1>1, <1>3, <1>4, KeptTakersAreOne

LEMMA FramesInvInit == FramesInit => FramesInv
<1>1. FramesInit => OneTaker
  BY DEF FramesInit, OneTaker, TakenBy, NoFrame
<1>2. FramesInit => RunsOnNewestView
  BY DEF FramesInit, RunsOnNewestView
<1> QED BY <1>1, <1>2, FramesTypesInit DEF FramesInv

LEMMA FramesInvStep == FramesInv /\ [FramesNext]_frameVars => FramesInv'
<1> SUFFICES ASSUME FramesInv, [FramesNext]_frameVars PROVE FramesInv'
  OBVIOUS
<1>0. FramesTypes'
  BY FramesTypesStep DEF FramesInv
<1>1. ASSUME UNCHANGED frameVars \/ ScreenChanges PROVE OneTaker' /\ RunsOnNewestView'
  <2>1. /\ rule' = rule /\ doing' = doing /\ aim' = aim /\ fresh' = fresh /\ minted' = minted
        /\ frame' = frame /\ current' = current
    BY <1>1 DEF frameVars, sessionSet, lookVars, settleVars, shelfVars, ScreenChanges,
       WindowRedraws, WindowMoves, WindowCloses, Changed
  <2> QED BY <2>1 DEF FramesInv, OneTaker, TakenBy, RunsOnNewestView
<1>2. ASSUME FramesNext, ~ScreenChanges PROVE OneTaker' /\ RunsOnNewestView'
  BY <1>2, FramesInvOnQuietStep, FramesInvOnMinting, FramesInvOnHandover
     DEF FramesNext, ObserveActs, ActSteps, QuietStep
<1> QED BY <1>0, <1>1, <1>2 DEF FramesInv

\* Under the strict policy a batch runs on the newest view of its own session,
\* for any sessions that share the store: the frame was cloned out of it steps
\* before, by a number alone.
THEOREM ActsOnNewestView == FramesSpec => []RunsOnNewestView
<1>1. FramesInv => RunsOnNewestView
  BY DEF FramesInv
<1>2. FramesSpec => []FramesInv
  BY FramesInvInit, FramesInvStep, PTL DEF FramesSpec
<1> QED BY <1>1, <1>2, PTL

-----------------------------------------------------------------------------
(* Frames: the stabilizer. *)

\* The last k samples are the same as the one before them.
SameFor(s, k) == k < Len(s) /\ \A i \in (Len(s) - k)..Len(s) : s[i] = s[Len(s)]

\* The count of quiet samples is that of the samples it counted.
QuietCounted ==
  \A v \in Viewers :
    /\ doing[v] = "settle" => SameFor(samples[v], quiet[v])
    /\ settled[v] = "stable" => quiet[v] = Required /\ SameFor(samples[v], Required)

LEMMA OneMoreQuiet ==
  ASSUME NEW s \in Seq(Pictures), NEW k \in Nat, SameFor(s, k), s # <<>>, NEW now \in Pictures
  PROVE  /\ now = LatestOf(s) => SameFor(Append(s, now), k + 1)
         /\ SameFor(Append(s, now), 0)
<1> DEFINE t == Append(s, now)
<1>1. Len(s) \in Nat /\ Len(t) = Len(s) + 1 /\ t[Len(s) + 1] = now
      /\ \A i \in 1..Len(s) : t[i] = s[i]
  OBVIOUS
<1>2. Len(s) > 0
  OBVIOUS
<1>3. \A i \in Len(t)..Len(t) : i = Len(t)
  BY <1>1
<1>4. SameFor(t, 0)
  BY <1>1, <1>3 DEF SameFor
<1>5. ASSUME now = LatestOf(s) PROVE SameFor(t, k + 1)
  <2>1. k + 1 < Len(t)
    BY <1>1 DEF SameFor
  <2>2. ASSUME NEW i \in (Len(t) - (k + 1))..Len(t) PROVE t[i] = t[Len(t)]
    <3>1. CASE i = Len(t)
      BY <3>1
    <3>2. CASE i # Len(t)
      <4>1. i \in (Len(s) - k)..Len(s) /\ i \in 1..Len(s)
        BY <3>2, <1>1 DEF SameFor
      <4>2. s[i] = s[Len(s)]
        BY <4>1 DEF SameFor
      <4>3. t[i] = now
        BY <4>1, <4>2, <1>1, <1>5 DEF LatestOf
      <4> QED BY <4>3, <1>1
    <3> QED BY <3>1, <3>2
  <2> HIDE DEF t
  <2> QED BY <2>1, <2>2 DEF SameFor
<1> QED BY <1>4, <1>5

LEMMA QuietCountedStep ==
  ASSUME FramesTypes, FramesTypes', QuietCounted, [FramesNext]_frameVars
  PROVE  QuietCounted'
<1> USE FramesAssumption
<1> USE DEF QuietCounted
<1>1. ASSUME NEW v \in Viewers, SampleTaken(v)
      PROVE  QuietCounted'
  <2> DEFINE now == Shown(baseline[v].at)
  <2>1. now \in Pictures
    BY ShownIsPicture DEF FramesTypes, LooksTyped
  <2>2. /\ samples[v] \in Seq(Pictures) /\ samples[v] # <<>> /\ quiet[v] \in Nat
        /\ quiet[v] < Required /\ settled[v] = "none" /\ doing[v] = "settle"
    BY <1>1 DEF SampleTaken, FramesTypes, SamplesTyped, RequestsFit, RequestFits
  <2>3. SameFor(Append(samples[v], now), Counts(v, now))
    BY <2>1, <2>2, OneMoreQuiet DEF Counts
  <2>4. samples'[v] = Append(samples[v], now) /\ quiet'[v] = Counts(v, now)
    BY <1>1 DEF SampleTaken, FramesTypes, SamplesTyped
  <2>5. Counts(v, now) \in 0..Required
    BY <2>2 DEF Counts
  <2>6. settled'[v] = "stable" => Counts(v, now) = Required
    BY <1>1, <2>2, <2>5 DEF SampleTaken, FramesTypes, SamplesTyped
  <2>7. \A u \in Viewers \ {v} : /\ doing'[u] = doing[u] /\ settled'[u] = settled[u]
                                 /\ samples'[u] = samples[u] /\ quiet'[u] = quiet[u]
    BY <1>1 DEF SampleTaken, Proceeds, FramesTypes, SamplesTyped, ViewersTyped
  <2> HIDE DEF now
  <2> QED BY <2>3, <2>4, <2>6, <2>7
<1>2. ASSUME NEW v \in Viewers, ActRuns(v)
      PROVE  QuietCounted'
  <2>1. quiet'[v] = 0 /\ settled'[v] = "none"
    BY <1>2 DEF ActRuns, Proceeds, settleVars, FramesTypes, RequestsFit, RequestFits
  <2>2. doing'[v] = "settle" => samples'[v] = <<baseline[v].shows>>
    BY <1>2 DEF ActRuns, Proceeds, FramesTypes, SamplesTyped, ViewersTyped
  <2>3. SameFor(<<baseline[v].shows>>, 0)
    <3>1. Len(<<baseline[v].shows>>) = 1 /\ \A i \in (1 - 0)..1 : i = 1
      OBVIOUS
    <3> QED BY <3>1 DEF SameFor
  <2>4. \A u \in Viewers \ {v} : /\ doing'[u] = doing[u] /\ settled'[u] = settled[u]
                                 /\ samples'[u] = samples[u] /\ quiet'[u] = quiet[u]
    BY <1>2 DEF ActRuns, Proceeds, settleVars, FramesTypes, SamplesTyped, ViewersTyped
  <2> QED BY <2>1, <2>2, <2>3, <2>4
<1>3. ASSUME NEW v \in Viewers, SettleTimesOut(v)
      PROVE  QuietCounted'
  <2>1. doing'[v] = "after" /\ settled'[v] = "timed_out"
    BY <1>3 DEF SettleTimesOut, Proceeds, FramesTypes, SamplesTyped, ViewersTyped
  <2>2. \A u \in Viewers \ {v} : /\ doing'[u] = doing[u] /\ settled'[u] = settled[u]
                                 /\ samples'[u] = samples[u] /\ quiet'[u] = quiet[u]
    BY <1>3 DEF SettleTimesOut, Proceeds, FramesTypes, SamplesTyped, ViewersTyped
  <2> QED BY <2>1, <2>2
<1>4. ASSUME NEW v \in Viewers, ActRefused(v) \/ SettleAborts(v) \/ ActReturns(v) \/ ActObserves(v)
      PROVE  QuietCounted'
  <2>1. doing'[v] # "settle" /\ settled'[v] = "none"
    BY <1>4 DEF ActRefused, SettleAborts, ActReturns, ActObserves, Answered, Proceeds, FramesTypes,
       SamplesTyped, ViewersTyped
  <2>2. \A u \in Viewers \ {v} : /\ doing'[u] = doing[u] /\ settled'[u] = settled[u]
                                 /\ samples'[u] = samples[u] /\ quiet'[u] = quiet[u]
    BY <1>4 DEF ActRefused, SettleAborts, ActReturns, ActObserves, Answered, Proceeds, FramesTypes,
       SamplesTyped, ViewersTyped
  <2> QED BY <2>1, <2>2
<1>5. ASSUME NEW v \in Viewers, \/ ViewerStarts(v) \/ ViewerStops(v) \/ ObserveActs(v)
                                \/ ActBegins(v) \/ ActRefreshes(v) \/ ActPrints(v) \/ ActAccepted(v)
      PROVE  QuietCounted'
  <2>1. samples' = samples /\ quiet' = quiet /\ settled' = settled
    BY <1>5 DEF ViewerStarts, ViewerStops, ObserveActs, ObserveQueued, ObserveBegins,
       ObserveRefreshes, Prints, ObserveFails, Stores, Names, Inspects, ActBegins, ActRefreshes,
       ActPrints, ActAccepted, settleVars
  <2>2. \A u \in Viewers : doing'[u] = "settle" => doing[u] = "settle"
    BY <1>5 DEF ViewerStarts, ViewerStops, ObserveActs, ObserveQueued, ObserveBegins,
       ObserveRefreshes, Prints, ObserveFails, Stores, Names, Inspects, ActBegins, ActRefreshes,
       ActPrints, ActAccepted, Proceeds, FramesTypes, ViewersTyped
  <2> QED BY <2>1, <2>2
<1>6. ASSUME UNCHANGED frameVars \/ ScreenChanges
      PROVE  QuietCounted'
  <2>1. samples' = samples /\ quiet' = quiet /\ settled' = settled /\ doing' = doing
    BY <1>6 DEF frameVars, settleVars, ScreenChanges, WindowRedraws, WindowMoves, WindowCloses,
       Changed
  <2> QED BY <2>1
<1> QED BY <1>1, <1>2, <1>3, <1>4, <1>5, <1>6 DEF FramesNext, ActSteps

\* "stable" means that the screen did not change over as many samples as the
\* configuration asks for, however often it changed before.
THEOREM StableWasQuiet == FramesSpec => []StableMeansQuiet
<1>1. FramesInit => FramesTypes /\ QuietCounted
  BY FramesTypesInit DEF FramesInit, QuietCounted
<1>2. FramesTypes /\ QuietCounted /\ [FramesNext]_frameVars => (FramesTypes /\ QuietCounted)'
  BY FramesTypesStep, QuietCountedStep
<1>3. FramesTypes /\ QuietCounted => StableMeansQuiet
  <2> SUFFICES ASSUME FramesTypes, QuietCounted, NEW v \in Viewers, settled[v] = "stable"
               PROVE  LET n == Len(samples[v])
                      IN  n > Required /\ \A i \in (n - Required)..n : samples[v][i] = samples[v][n]
    BY DEF StableMeansQuiet
  <2>1. SameFor(samples[v], Required) /\ Len(samples[v]) \in Nat
    BY DEF QuietCounted, FramesTypes, SamplesTyped
  <2> QED BY <2>1, FramesAssumption DEF SameFor
<1> QED BY <1>1, <1>2, <1>3, PTL DEF FramesSpec

-----------------------------------------------------------------------------
(* Targeting *)

\* A bound session looks for the window and the process that were found at its
\* start, and for some bundle.
TargetPinned ==
  /\ target.window = meant.window /\ target.window # Nothing
  /\ target.pid = meant.pid /\ target.pid # Nothing
  /\ target.bundle # Nothing

TargetInv ==
  /\ bundle \in [Pids -> Bundles \union {"unknown"}]
  /\ owner \in [WindowIds -> Pids \union {Nothing}]
  /\ resolved # NoField => TargetPinned
  /\ resolved = NoField => meant = NoField
  /\ NeverRescoped

\* A window that answers a target is that of the target in all that it says,
\* but for the bundle beside a pid.
LEMMA ResolvedAnswers ==
  ASSUME TargetInv, NEW t \in Fields, NEW r \in Resolutions(t)
  PROVE  /\ r \in [bundle : Bundles, pid : Pids, window : WindowIds]
         /\ t.window \in {Nothing, r.window} /\ t.pid \in {Nothing, r.pid}
<1>1. PICK w \in Answering(t) : r = Identity(w) /\ bundle[owner[w]] # "unknown"
  BY DEF Resolutions, Frontmost
<1>2. w \in WindowIds /\ owner[w] \in Pids
  BY DEF Answering, Open, TargetInv
<1>3. bundle[owner[w]] \in Bundles
  BY <1>1, <1>2 DEF TargetInv
<1>4. t.window \in {Nothing, w} /\ t.pid \in {Nothing, owner[w]}
  BY DEF Answering
<1> QED BY <1>1, <1>2, <1>3, <1>4 DEF Identity

LEMMA StartPinsTarget ==
  ASSUME TargetInv, NEW t \in Fields, SessionStarts(t)
  PROVE  TargetInv'
<1>1. PICK r \in Resolutions(t) : resolved' = r /\ meant' = r /\ target' = Backfilled(t, r)
  BY DEF SessionStarts
<1>2. /\ r \in [bundle : Bundles, pid : Pids, window : WindowIds]
      /\ t.window \in {Nothing, r.window} /\ t.pid \in {Nothing, r.pid}
  BY ResolvedAnswers
<1>3. r.window # Nothing /\ r.pid # Nothing /\ r.bundle # Nothing
  BY <1>2, TargetingAssumption
<1>4. Or(t.window, r.window) = r.window /\ Or(t.pid, r.pid) = r.pid /\ Or(t.bundle, r.bundle) # Nothing
  BY <1>2, <1>3 DEF Or
<1>5. TargetPinned' /\ NeverRescoped'
  BY <1>1, <1>3, <1>4 DEF TargetPinned, NeverRescoped, Backfilled
<1>6. resolved' # NoField
  BY <1>1, <1>3 DEF NoField
<1>7. bundle' = bundle /\ owner' = owner
  BY DEF SessionStarts, deskVars
<1> QED BY <1>5, <1>6, <1>7 DEF TargetInv

LEMMA RefreshKeepsTarget ==
  ASSUME TargetInv, Refreshed, target \in Fields
  PROVE  TargetInv'
<1>1. PICK r \in Resolutions(target) :
        /\ \A f \in {"bundle", "pid", "window"} : target[f] \in {Nothing, r[f]}
        /\ resolved' = r
  BY DEF Refreshed
<1>2. /\ resolved # NoField /\ bundle' = bundle /\ owner' = owner
      /\ target' = target /\ meant' = meant
  BY DEF Refreshed, deskVars
<1>3. TargetPinned
  BY <1>2 DEF TargetInv
<1>4. r.window = meant.window /\ r.pid = meant.pid /\ r.bundle = target.bundle
  BY <1>1, <1>3 DEF TargetPinned
<1>5. resolved' # NoField
  BY <1>1, <1>3, <1>4 DEF TargetPinned, NoField
<1> QED BY <1>1, <1>2, <1>3, <1>4, <1>5 DEF TargetInv, TargetPinned, NeverRescoped

\* The fields of a target are those of a caller or of a window.
LEMMA BackfilledIsTarget ==
  ASSUME TargetInv, NEW t \in Fields, SessionStarts(t)
  PROVE  target' \in Fields
<1>1. PICK r \in Resolutions(t) : target' = Backfilled(t, r)
  BY DEF SessionStarts
<1>2. r \in [bundle : Bundles, pid : Pids, window : WindowIds]
  BY ResolvedAnswers
<1> QED BY <1>1, <1>2 DEF Backfilled, Or, Fields

DesktopStep ==
  \/ \E w \in WindowIds : WindowRaised(w) \/ WindowClosed(w)
  \/ \E w \in WindowIds, b \in Boxes : WindowMoved(w, b)
  \/ \E w \in WindowIds, p \in Pids : WindowOpened(w, p)
  \/ \E p \in Pids, b \in Bundles \union {"unknown"} : PidRecycled(p, b)

LEMMA DesktopKeepsTarget ==
  ASSUME TargetInv, target \in Fields, DesktopStep
  PROVE  TargetInv' /\ target' \in Fields
<1>1. resolved' = resolved /\ meant' = meant /\ target' = target
  BY DEF DesktopStep, WindowRaised, WindowClosed, WindowMoved, WindowOpened, PidRecycled, Shuffled,
     scopeVars
<1>2. bundle' \in [Pids -> Bundles \union {"unknown"}]
  BY DEF DesktopStep, WindowRaised, WindowClosed, WindowMoved, WindowOpened, PidRecycled, TargetInv
<1>3. owner' \in [WindowIds -> Pids \union {Nothing}]
  BY DEF DesktopStep, WindowRaised, WindowClosed, WindowMoved, WindowOpened, PidRecycled, TargetInv
<1> QED BY <1>1, <1>2, <1>3 DEF TargetInv, TargetPinned, NeverRescoped

LEMMA TargetInvStep ==
  ASSUME TargetInv, target \in Fields, [TargetNext]_targetVars
  PROVE  TargetInv' /\ target' \in Fields
<1>1. CASE UNCHANGED targetVars
  BY <1>1 DEF targetVars, deskVars, scopeVars, TargetInv, TargetPinned, NeverRescoped
<1>2. ASSUME NEW t \in Fields, SessionStarts(t) PROVE TargetInv' /\ target' \in Fields
  BY <1>2, StartPinsTarget, BackfilledIsTarget
<1>3. CASE Refreshed
  BY <1>3, RefreshKeepsTarget DEF Refreshed
<1>4. CASE ObserveDisplay
  BY <1>4 DEF ObserveDisplay, deskVars, scopeVars, TargetInv, TargetPinned, NeverRescoped
<1>5. CASE DesktopStep
  BY <1>5, DesktopKeepsTarget
<1> QED BY <1>1, <1>2, <1>3, <1>4, <1>5 DEF TargetNext, DesktopStep, Observe, Inspect, Act

\* A session keeps the window its start resolved, for any windows, processes and
\* bundles on the desktop and whatever becomes of them.
THEOREM SessionsKeepWindow == TargetSpec => []NeverRescoped
<1>1. TargetInit => TargetInv /\ target \in Fields
  BY DEF TargetInit, TargetInv, NeverRescoped, NoField, Fields
<1>2. TargetInv /\ target \in Fields /\ [TargetNext]_targetVars => (TargetInv /\ target \in Fields)'
  BY TargetInvStep
<1>3. TargetInv /\ target \in Fields => NeverRescoped
  BY DEF TargetInv
<1> QED BY <1>1, <1>2, <1>3, PTL DEF TargetSpec

-----------------------------------------------------------------------------
(* Targeting: the arithmetic of pixels. *)

\* What \div rounds down.
LEMMA DivIsNear ==
  ASSUME NEW a \in Int, NEW b \in Nat \ {0}
  PROVE  /\ a \div b \in Int
         /\ b * (a \div b) <= a
         /\ a < b * (a \div b) + b
OBVIOUS

\* The nearest integer is half a unit away at most.
LEMMA RoundedIsNear ==
  ASSUME NEW n \in Int, NEW d \in Nat \ {0}
  PROVE  /\ Rounded(n, d) \in Int
         /\ 2 * (Rounded(n, d) * d) <= 2 * n + d
         /\ 2 * n < 2 * (Rounded(n, d) * d) + d
<1>1. 2 * n + d \in Int /\ 2 * d \in Nat \ {0}
  OBVIOUS
<1>2. PICK k \in Int : k = Rounded(n, d) /\ (2 * d) * k <= 2 * n + d /\ 2 * n + d < (2 * d) * k + 2 * d
  BY <1>1, DivIsNear DEF Rounded
<1>3. (2 * d) * k = 2 * (k * d) /\ k * d \in Int
  OBVIOUS
<1>4. 2 * (k * d) <= 2 * n + d /\ 2 * n < 2 * (k * d) + d
  BY <1>2, <1>3
<1> QED BY <1>2, <1>4

\* On one axis, in units of an image pixel's fraction: what is left of a side that
\* starts at pixel lo of an image at o, cut down to a window from a to z.
LEMMA CutIsInside ==
  ASSUME NEW o \in Int, NEW B \in Nat \ {0}, NEW lo \in Int, NEW a \in Int, NEW z \in Int,
         NEW g \in Int, NEW h \in Int, g = Larger(o + lo * B, a), h <= z, g < h,
         NEW k \in Int, k = Rounded(g - o, B), NEW m \in Int, m = Larger(Rounded(h - o, B) - k, 1)
  PROVE  Inside(o + k * B, m * B, a, z, B)
<1>1. 2 * (k * B) <= 2 * (g - o) + B /\ 2 * (g - o) < 2 * (k * B) + B /\ k * B \in Int
  <2>1. g - o \in Int /\ k * B \in Int
    OBVIOUS
  <2>2. /\ 2 * (Rounded(g - o, B) * B) <= 2 * (g - o) + B
        /\ 2 * (g - o) < 2 * (Rounded(g - o, B) * B) + B
    BY <2>1, RoundedIsNear
  <2> QED BY <2>1, <2>2
<1> DEFINE n == Rounded(h - o, B)
<1>2. n \in Int /\ n * B \in Int /\ 2 * (n * B) <= 2 * (h - o) + B
  <2>1. h - o \in Int
    OBVIOUS
  <2>2. n \in Int /\ 2 * (n * B) <= 2 * (h - o) + B
    BY <2>1, RoundedIsNear
  <2> QED BY <2>2
<1> HIDE DEF n
<1>3. o + k * B >= a - B
  BY <1>1 DEF Larger
<1>4. CASE n - k > 1
  <2>1. m = n - k
    BY <1>2, <1>4 DEF Larger, n
  <2>2. k * B + m * B = n * B
    <3>1. (n - k) * B = n * B - k * B /\ k * B \in Int
      BY <1>2
    <3> QED BY <1>2, <2>1, <3>1
  <2> QED BY <1>1, <1>2, <1>3, <2>2 DEF Inside
<1>5. CASE ~(n - k > 1)
  <2>1. m = 1 /\ m * B = B
    BY <1>2, <1>5 DEF Larger, n
  <2>2. CASE g = o + lo * B
    <3>1. 2 * (k * B) <= 2 * (lo * B) + B /\ lo * B \in Int
      BY <1>1, <2>2
    <3>2. k <= lo
      <4> SUFFICES ASSUME k >= lo + 1 PROVE FALSE
        OBVIOUS
      <4>1. k * B >= (lo + 1) * B /\ (lo + 1) * B = lo * B + B
        OBVIOUS
      <4> QED BY <3>1, <4>1
    <3>3. k * B <= lo * B
      BY <3>2
    <3> QED BY <1>1, <1>3, <2>1, <2>2, <3>1, <3>3 DEF Inside
  <2>3. CASE g = a
    BY <1>1, <1>3, <2>1, <2>3 DEF Inside
  <2> QED BY <2>2, <2>3 DEF Larger
<1> QED BY <1>4, <1>5
-----------------------------------------------------------------------------
(* Targeting: what an agent is given lies in its window. *)

BoxOK == Boxes \cup {Display}

\* A stored frame has pixels, and is of a window or of the display.
Viewed(v) == v.width \in Nat \ {0} /\ v.height \in Int /\ v.box \in BoxOK

LEMMA BoxesAreBoxes ==
  \A b \in BoxOK : b.x \in Int /\ b.y \in Int /\ b.w \in Nat \ {0} /\ b.h \in Nat \ {0}
BY TargetingAssumption DEF BoxOK

\* A capture of a window is a frame with pixels.
LEMMA CapturesAreViewed ==
  ASSUME NEW box \in BoxOK, NEW r, r.x \in Int, r.y \in Int, r.w \in Int, r.h \in Int
  PROVE  Viewed(FrameOf(box, Captured(r)))
<1> DEFINE shot == Captured(r)
<1>1. Display.w * Scale \in Nat \ {0} /\ Display.h * Scale \in Int
  <2>1. Display.w \in Nat \ {0} /\ Display.h \in Nat \ {0} /\ Scale \in Nat \ {0}
    BY TargetingAssumption
  <2> QED BY <2>1
<1>2. shot.span[1] \in Nat \ {0} /\ shot.span[2] \in Int
  BY <1>1 DEF Captured, Larger, Smaller
<1> HIDE DEF shot
<1>3. MaxWidth \in Nat
  BY TargetingAssumption
<1> DEFINE out == OutputSize(shot.span[1], shot.span[2])
<1>4. out[1] \in Nat \ {0} /\ out[2] \in Int
  <2>1. ASSUME NEW w \in Nat \ {0}, NEW h \in Int PROVE (h * MaxWidth) \div w \in Int
    <3>1. h * MaxWidth \in Int
      BY <1>3
    <3> QED BY <3>1, DivIsNear
  <2> QED BY <1>2, <1>3, <2>1 DEF OutputSize
<1> HIDE DEF out
<1>5. FrameOf(box, shot) = [box |-> box, width |-> out[1], height |-> out[2],
                            from |-> shot.from, span |-> shot.span]
  BY DEF FrameOf, out
<1> QED BY <1>4, <1>5 DEF Viewed, shot

LEMMA CropsAreWhole ==
  ASSUME NEW b \in BoxOK
  PROVE  LET r == CropRegion(b) IN r.x \in Int /\ r.y \in Int /\ r.w \in Int /\ r.h \in Int
<1>1. b.x \in Int /\ b.y \in Int /\ b.w \in Int /\ b.h \in Int
  BY BoxesAreBoxes
<1>2. Display.x \in Int /\ Display.y \in Int /\ Scale \in Int
  BY TargetingAssumption
<1> QED BY <1>1, <1>2 DEF CropRegion

LEMMA PixelsAreWhole ==
  ASSUME NEW v, Viewed(v), NEW space, NEW x \in Int, NEW y \in Int
  PROVE  PixelOf(v, space, x, y)[1] \in Int /\ PixelOf(v, space, x, y)[2] \in Int
<1>1. x * v.width \in Int /\ y * v.height \in Int /\ v.width - 1 \in Int /\ v.height - 1 \in Int
  BY DEF Viewed
<1>2. \A n \in Int : Rounded(n, 1000) \in Int
  <2>1. 1000 \in Nat \ {0}
    OBVIOUS
  <2> QED BY <2>1, RoundedIsNear
<1> QED BY <1>1, <1>2 DEF PixelOf, Clamped, Larger, Smaller

\* One axis of the clamp, from k on for m pixels, of a frame that starts at o and is
\* W pixels wide for B points, to a window that starts at p and is n points long.
ClampedSide(o, W, B, lo, hi, p, n, k, m) ==
  LET g == Larger(o * W + lo * B, p * W)
      h == Smaller(o * W + hi * B, (p + n) * W)
  IN  g < h /\ k = Rounded(g - o * W, B) /\ m = Larger(Rounded(h - o * W, B) - k, 1)
        => Inside(o * W + k * B, m * B, p * W, (p + n) * W, B)

LEMMA ClampedSideIsInside ==
  ASSUME NEW o \in Int, NEW W \in Nat \ {0}, NEW B \in Nat \ {0}, NEW lo \in Int, NEW hi \in Int,
         NEW p \in Int, NEW n \in Nat \ {0}, NEW k, NEW m
  PROVE  ClampedSide(o, W, B, lo, hi, p, n, k, m)
<1> DEFINE g == Larger(o * W + lo * B, p * W)
           h == Smaller(o * W + hi * B, (p + n) * W)
<1> SUFFICES ASSUME g < h, k = Rounded(g - o * W, B), m = Larger(Rounded(h - o * W, B) - k, 1)
             PROVE  Inside(o * W + k * B, m * B, p * W, (p + n) * W, B)
  BY DEF ClampedSide
<1>1. o * W \in Int /\ lo * B \in Int /\ hi * B \in Int /\ p * W \in Int /\ (p + n) * W \in Int
  OBVIOUS
<1>2. g \in Int /\ h \in Int /\ h <= (p + n) * W
  BY <1>1 DEF Larger, Smaller
<1>3. k \in Int /\ Rounded(h - o * W, B) \in Int
  <2>1. g - o * W \in Int /\ h - o * W \in Int
    BY <1>1, <1>2
  <2>2. \A i \in Int : Rounded(i, B) \in Int
    BY RoundedIsNear
  <2> QED BY <2>1, <2>2
<1>4. m \in Int
  BY <1>3 DEF Larger
<1> QED BY <1>1, <1>2, <1>3, <1>4, CutIsInside

LEMMA ClampedIsInside ==
  ASSUME NEW v, Viewed(v), NEW q \in Asked, NEW b \in BoxOK, ClampedToWindow(v, q, b).meets
  PROVE  LET c == ClampedToWindow(v, q, b)
         IN  /\ Inside(GlobalX(v, c.x), c.w * v.box.w, b.x * v.width, (b.x + b.w) * v.width, v.box.w)
             /\ Inside(GlobalY(v, c.y), c.h * v.box.w, b.y * v.width, (b.y + b.h) * v.width, v.box.w)
<1> DEFINE lo == PixelOf(v, q.space, q.x, q.y)
           hi == PixelOf(v, q.space, q.x + q.w, q.y + q.h)
           gx0 == Larger(GlobalX(v, lo[1]), b.x * v.width)
           gy0 == Larger(GlobalY(v, lo[2]), b.y * v.width)
           gx1 == Smaller(GlobalX(v, hi[1]), (b.x + b.w) * v.width)
           gy1 == Smaller(GlobalY(v, hi[2]), (b.y + b.h) * v.width)
           c == ClampedToWindow(v, q, b)
<1>1. lo[1] \in Int /\ lo[2] \in Int /\ hi[1] \in Int /\ hi[2] \in Int
  <2>1. q.x \in Int /\ q.y \in Int /\ q.x + q.w \in Int /\ q.y + q.h \in Int
    BY TargetingAssumption
  <2> QED BY <2>1, PixelsAreWhole
<1>2. /\ v.width \in Nat \ {0} /\ v.box.x \in Int /\ v.box.y \in Int /\ v.box.w \in Nat \ {0}
      /\ b.x \in Int /\ b.y \in Int /\ b.w \in Nat \ {0} /\ b.h \in Nat \ {0}
  BY BoxesAreBoxes DEF Viewed
<1> HIDE DEF lo, hi
<1>3. /\ gx0 < gx1 /\ gy0 < gy1
      /\ c.x = PixelX(v, gx0) /\ c.w = Larger(PixelX(v, gx1) - PixelX(v, gx0), 1)
      /\ c.y = PixelY(v, gy0) /\ c.h = Larger(PixelY(v, gy1) - PixelY(v, gy0), 1)
  BY DEF ClampedToWindow, Intersected, lo, hi
<1> HIDE DEF c
<1>4. Inside(GlobalX(v, c.x), c.w * v.box.w, b.x * v.width, (b.x + b.w) * v.width, v.box.w)
  <2>1. ClampedSide(v.box.x, v.width, v.box.w, lo[1], hi[1], b.x, b.w, c.x, c.w)
    BY <1>1, <1>2, ClampedSideIsInside
  <2> QED BY <1>3, <2>1, Zenon DEF ClampedSide, GlobalX, PixelX
<1>5. Inside(GlobalY(v, c.y), c.h * v.box.w, b.y * v.width, (b.y + b.h) * v.width, v.box.w)
  <2>1. ClampedSide(v.box.y, v.width, v.box.w, lo[2], hi[2], b.y, b.h, c.y, c.h)
    BY <1>1, <1>2, ClampedSideIsInside
  <2> QED BY <1>3, <2>1, Zenon DEF ClampedSide, GlobalY, PixelY
<1> QED BY <1>4, <1>5 DEF c

PlaceInv ==
  /\ TargetInv /\ target \in Fields
  /\ bounds \in [WindowIds -> Boxes]
  /\ view = NoView \/ Viewed(view)
  /\ GivenInsideWindow

\* A refresh that succeeds finds the window where it is.
LEMMA RefreshedIsSomewhere ==
  ASSUME PlaceInv, Refreshed
  PROVE  tbounds' \in Boxes /\ bounds' = bounds
<1>1. PICK r \in Resolutions(target) : tbounds' = bounds[r.window]
  BY DEF Refreshed
<1>2. r.window \in WindowIds
  BY ResolvedAnswers DEF PlaceInv
<1> QED BY <1>1, <1>2 DEF PlaceInv, Refreshed, deskVars

LEMMA PlacedByObserve ==
  ASSUME PlaceInv, Observe
  PROVE  view' = NoView \/ Viewed(view')
<1>1. tbounds' \in BoxOK
  BY RefreshedIsSomewhere DEF Observe, BoxOK
<1>2. view' = view \/ view' = FrameOf(tbounds', Captured(CropRegion(tbounds')))
  BY DEF Observe
<1>3. \A box \in BoxOK : Viewed(FrameOf(box, Captured(CropRegion(box))))
  BY CropsAreWhole, CapturesAreViewed
<1> QED BY <1>1, <1>2, <1>3 DEF PlaceInv

LEMMA PlacedByDisplay ==
  ASSUME ObserveDisplay
  PROVE  Viewed(view')
<1> DEFINE all == [x |-> 0, y |-> 0, w |-> 0, h |-> 0]
<1>1. Captured(all) = [from |-> <<0, 0>>, span |-> <<Display.w * Scale, Display.h * Scale>>]
  BY TargetingAssumption DEF Captured, Larger, Smaller
<1>2. Viewed(FrameOf(Display, Captured(all)))
  BY CapturesAreViewed DEF BoxOK
<1> QED BY <1>1, <1>2 DEF ObserveDisplay

LEMMA GivenByInspect ==
  ASSUME PlaceInv, NEW q \in Asked, Inspect(q)
  PROVE  GivenInsideWindow'
<1> DEFINE c == ClampedToWindow(view, q, tbounds')
<1>1. Viewed(view) /\ tbounds' \in BoxOK
  BY RefreshedIsSomewhere DEF Inspect, PlaceInv, BoxOK
<1>2. CASE RegionFits(view, q, c)
  <2>1. c.meets
    BY <1>2 DEF RegionFits
  <2>2. got' = [area |-> [x |-> GlobalX(view, c.x), y |-> GlobalY(view, c.y),
                          w |-> c.w * view.box.w, h |-> c.h * view.box.w],
                unit |-> view.width, slack |-> view.box.w, within |-> tbounds']
    BY <1>2 DEF Inspect
  <2>3. /\ Inside(GlobalX(view, c.x), c.w * view.box.w, tbounds'.x * view.width,
                  (tbounds'.x + tbounds'.w) * view.width, view.box.w)
        /\ Inside(GlobalY(view, c.y), c.h * view.box.w, tbounds'.y * view.width,
                  (tbounds'.y + tbounds'.h) * view.width, view.box.w)
    BY <1>1, <2>1, ClampedIsInside
  <2> HIDE DEF c
  <2> QED BY <2>2, <2>3 DEF GivenInsideWindow, Inside
<1>3. CASE ~RegionFits(view, q, c)
  BY <1>3 DEF Inspect, PlaceInv, GivenInsideWindow
<1> QED BY <1>2, <1>3

LEMMA GivenByAct ==
  ASSUME PlaceInv, NEW q \in Asked, Act(q)
  PROVE  GivenInsideWindow'
<1> DEFINE p == PixelOf(view, q.space, q.x, q.y)
           gx == GlobalX(view, p[1])
           gy == GlobalY(view, p[2])
<1>1. Viewed(view) /\ tbounds' \in BoxOK
  BY RefreshedIsSomewhere DEF Act, PlaceInv, BoxOK
<1>2. gx \in Int /\ gy \in Int
  <2>1. p[1] \in Int /\ p[2] \in Int
    <3>1. q.x \in Int /\ q.y \in Int
      BY TargetingAssumption
    <3> QED BY <1>1, <3>1, PixelsAreWhole
  <2>2. view.width \in Int /\ view.box.x \in Int /\ view.box.y \in Int /\ view.box.w \in Int
    BY <1>1, BoxesAreBoxes DEF Viewed
  <2> HIDE DEF p
  <2> QED BY <2>1, <2>2 DEF GlobalX, GlobalY
<1> HIDE DEF gx, gy, p
<1>3. CASE got' = got
  BY <1>3 DEF PlaceInv, GivenInsideWindow
<1>4. CASE got' # got
  <2>1. /\ ContainsGlobal(tbounds', view.width, gx, gy)
        /\ got' = [area |-> [x |-> gx, y |-> gy, w |-> 0, h |-> 0],
                   unit |-> view.width, slack |-> 0, within |-> tbounds']
    BY <1>4 DEF Act, gx, gy, p
  <2>2. /\ tbounds'.x * view.width \in Int /\ (tbounds'.x + tbounds'.w) * view.width \in Int
        /\ tbounds'.y * view.width \in Int /\ (tbounds'.y + tbounds'.h) * view.width \in Int
        /\ tbounds'.x * view.width <= (tbounds'.x + tbounds'.w) * view.width
        /\ tbounds'.y * view.width <= (tbounds'.y + tbounds'.h) * view.width
    <3>1. /\ view.width \in Nat /\ tbounds'.x \in Int /\ tbounds'.y \in Int
          /\ tbounds'.w \in Nat /\ tbounds'.h \in Nat
      BY <1>1, BoxesAreBoxes DEF Viewed
    <3> QED BY <3>1
  <2>3. /\ Inside(gx, 0, tbounds'.x * view.width, (tbounds'.x + tbounds'.w) * view.width, 0)
        /\ Inside(gy, 0, tbounds'.y * view.width, (tbounds'.y + tbounds'.h) * view.width, 0)
    BY <1>2, <2>1, <2>2 DEF ContainsGlobal, Inside
  <2> QED BY <2>1, <2>3 DEF GivenInsideWindow, Inside
<1> QED BY <1>3, <1>4

LEMMA PlaceInvInit == TargetInit => PlaceInv
BY DEF TargetInit, PlaceInv, TargetInv, NeverRescoped, NoField, Fields, GivenInsideWindow,
   Inside, NoGot, NoBox

LEMMA PlaceInvStep ==
  ASSUME PlaceInv, [TargetNext]_targetVars
  PROVE  PlaceInv'
<1>1. TargetInv' /\ target' \in Fields
  BY TargetInvStep DEF PlaceInv
<1>2. CASE UNCHANGED targetVars
  BY <1>1, <1>2 DEF targetVars, deskVars, PlaceInv, GivenInsideWindow, Inside
<1>3. ASSUME NEW t \in Fields, SessionStarts(t) PROVE PlaceInv'
  BY <1>1, <1>3 DEF SessionStarts, deskVars, PlaceInv, GivenInsideWindow, Inside
<1>4. CASE Observe
  BY <1>1, <1>4, RefreshedIsSomewhere, PlacedByObserve DEF Observe, PlaceInv, GivenInsideWindow, Inside
<1>5. CASE ObserveDisplay
  BY <1>1, <1>5, PlacedByDisplay DEF ObserveDisplay, deskVars, PlaceInv, GivenInsideWindow, Inside
<1>6. ASSUME NEW q \in Asked, Inspect(q) PROVE PlaceInv'
  BY <1>1, <1>6, GivenByInspect, RefreshedIsSomewhere DEF Inspect, PlaceInv
<1>7. ASSUME NEW q \in Asked, Act(q) PROVE PlaceInv'
  BY <1>1, <1>7, GivenByAct, RefreshedIsSomewhere DEF Act, PlaceInv
<1>8. CASE DesktopStep
  <2>1. bounds' \in [WindowIds -> Boxes] /\ view' = view /\ got' = got
    BY <1>8 DEF DesktopStep, WindowRaised, WindowClosed, WindowMoved, WindowOpened, PidRecycled,
       Shuffled, PlaceInv
  <2> QED BY <1>1, <2>1 DEF PlaceInv, GivenInsideWindow, Inside
<1> QED BY <1>2, <1>3, <1>4, <1>5, <1>6, <1>7, <1>8 DEF TargetNext, DesktopStep

\* What an inspect returns and an action touches lies in its window, for any
\* windows, displays, scales and regions asked for.
THEOREM GivenLiesInside == TargetSpec => []GivenInsideWindow
<1>1. PlaceInv => GivenInsideWindow
  BY DEF PlaceInv
<1>2. PlaceInv /\ [TargetNext]_targetVars => PlaceInv'
  BY PlaceInvStep
<1> QED BY <1>1, <1>2, PlaceInvInit, PTL DEF TargetSpec

-----------------------------------------------------------------------------
(* Targeting: types. *)

\* The order of some windows alone is one of them, and one in front of them
\* makes another.
LEMMA StacksStay ==
  ASSUME NEW t, NEW s \in SUBSET t, Stacks(above, t)
  PROVE  /\ Stacks(Only(s), s)
         /\ \A w : w \notin s => Stacks(Raised(w, s), s \cup {w})
<1>1. Stacks(Only(s), s)
  BY DEF Stacks, Only
<1> SUFFICES ASSUME NEW w, w \notin s PROVE Stacks(Raised(w, s), s \cup {w})
  BY <1>1
<1> DEFINE r == Raised(w, s)
<1>2. \A u, v : <<u, v>> \in r <=> \/ <<u, v>> \in above /\ u \in s /\ v \in s
                                   \/ u = w /\ v \in s
  BY DEF Raised, Only
<1>3. r \subseteq (s \cup {w}) \X (s \cup {w})
  BY DEF Raised, Only
<1> HIDE DEF r
<1>4. \A u \in s : <<u, u>> \notin above
  BY Zenon DEF Stacks
<1>5. \A u, v \in s : u # v => (<<u, v>> \in above) # (<<v, u>> \in above)
  BY Zenon DEF Stacks
<1>6. \A u, x, v \in s : <<u, x>> \in above /\ <<x, v>> \in above => <<u, v>> \in above
  BY Zenon DEF Stacks
<1>7. ASSUME NEW u \in s \cup {w} PROVE <<u, u>> \notin r
  <2>1. <<u, u>> \in r => u \in s /\ (<<u, u>> \in above \/ u = w)
    BY <1>2, Zenon
  <2> QED BY <1>4, <2>1
<1>8. \A u, v \in s \cup {w} : u # v => (<<u, v>> \in r) # (<<v, u>> \in r)
  BY <1>2, <1>5
<1>9. \A u, x, v \in s \cup {w} : <<u, x>> \in r /\ <<x, v>> \in r => <<u, v>> \in r
  BY <1>2, <1>6
<1> QED BY <1>3, <1>7, <1>8, <1>9 DEF Stacks, r

StackTyped ==
  /\ bundle \in [Pids -> Bundles \cup {"unknown"}]
  /\ owner \in [WindowIds -> Pids \cup {Nothing}]
  /\ bounds \in [WindowIds -> Boxes]
  /\ Stacks(above, Open) /\ shuffles \in 0..MaxShuffles

GivenTyped == got.unit \in Nat /\ got.slack \in Nat /\ got.within \in Boxes \cup {NoBox}

TargetTypes ==
  /\ PlaceInv /\ StackTyped /\ GivenTyped
  /\ {resolved, meant} \subseteq Fields
  /\ tbounds \in Boxes \cup {NoBox}

LEMMA DesktopStaysTyped ==
  ASSUME StackTyped, DesktopStep
  PROVE  StackTyped'
<1>1. shuffles' \in 0..MaxShuffles
  <2>1. Shuffled
    BY DEF DesktopStep, WindowRaised, WindowClosed, WindowMoved, WindowOpened, PidRecycled
  <2> QED BY <2>1, TargetingAssumption DEF StackTyped, Shuffled
<1>2. Nothing \notin Pids
  BY TargetingAssumption
<1>3. ASSUME NEW w \in WindowIds, WindowRaised(w) PROVE StackTyped'
  <2>1. Open' = Open /\ w \in Open /\ above' = Raised(w, Open \ {w})
    BY <1>3 DEF WindowRaised, Open
  <2>2. Stacks(above, Open) /\ Open \ {w} \in SUBSET Open /\ (Open \ {w}) \cup {w} = Open
    BY <2>1 DEF StackTyped
  <2>3. Stacks(Raised(w, Open \ {w}), Open)
    BY <2>2, StacksStay
  <2>4. Stacks(above', Open')
    BY <2>1, <2>3
  <2> QED BY <1>1, <1>3, <2>4 DEF StackTyped, WindowRaised
<1>4. ASSUME NEW w \in WindowIds, NEW p \in Pids, WindowOpened(w, p) PROVE StackTyped'
  <2>1. owner' = [owner EXCEPT ![w] = p] /\ w \notin Open /\ above' = Raised(w, Open)
    BY <1>4 DEF WindowOpened
  <2>2. Open' = Open \cup {w}
    BY <1>2, <2>1 DEF Open, StackTyped
  <2>3. Stacks(Raised(w, Open), Open \cup {w})
    BY <2>1, StacksStay DEF StackTyped
  <2>4. Stacks(above', Open')
    BY <2>1, <2>2, <2>3
  <2> QED BY <1>1, <1>4, <2>4 DEF StackTyped, WindowOpened
<1>5. ASSUME NEW w \in WindowIds, WindowClosed(w) PROVE StackTyped'
  <2>1. owner' = [owner EXCEPT ![w] = Nothing] /\ above' = Only(Open \ {w})
    BY <1>5 DEF WindowClosed
  <2>2. Open' = Open \ {w}
    BY <2>1 DEF Open, StackTyped
  <2>3. Stacks(Only(Open \ {w}), Open \ {w})
    <3>1. Open \ {w} \in SUBSET Open /\ Stacks(above, Open)
      BY DEF StackTyped
    <3> QED BY <3>1, StacksStay
  <2>4. Stacks(above', Open')
    BY <2>1, <2>2, <2>3
  <2> QED BY <1>1, <1>5, <2>4 DEF StackTyped, WindowClosed
<1>6. ASSUME NEW p \in Pids, NEW b \in Bundles \cup {"unknown"}, PidRecycled(p, b) PROVE StackTyped'
  <2> DEFINE others == {w \in Open : owner[w] # p}
  <2>1. /\ owner' = [w \in WindowIds |-> IF owner[w] = p THEN Nothing ELSE owner[w]]
        /\ above' = Only(others)
    BY <1>6 DEF PidRecycled
  <2>2. Open' = others
    BY <2>1 DEF Open
  <2>3. Stacks(Only(others), others)
    <3>1. others \in SUBSET Open /\ Stacks(above, Open)
      BY DEF StackTyped
    <3> QED BY <3>1, StacksStay
  <2>4. Stacks(above', Open')
    BY <2>1, <2>2, <2>3
  <2> QED BY <1>1, <1>6, <2>1, <2>4 DEF StackTyped, PidRecycled
<1>7. ASSUME NEW w \in WindowIds, NEW b \in Boxes, WindowMoved(w, b) PROVE StackTyped'
  <2>1. owner' = owner /\ Open' = Open /\ above' = above
    BY <1>7 DEF WindowMoved, Open
  <2>2. Stacks(above', Open')
    BY <2>1 DEF StackTyped
  <2> QED BY <1>1, <1>7, <2>2 DEF StackTyped, WindowMoved
<1> QED BY <1>3, <1>4, <1>5, <1>6, <1>7 DEF DesktopStep

LEMMA ScopeStaysTyped ==
  ASSUME TargetTypes, Refreshed \/ \E t \in Fields : SessionStarts(t)
  PROVE  /\ {resolved', meant'} \subseteq Fields /\ tbounds' \in Boxes
         /\ UNCHANGED deskVars
<1>1. ASSUME NEW t \in Fields, NEW r \in Resolutions(t)
      PROVE  r \in Fields /\ bounds[r.window] \in Boxes
  <2>1. r \in [bundle : Bundles, pid : Pids, window : WindowIds]
    BY ResolvedAnswers DEF TargetTypes, PlaceInv
  <2> QED BY <2>1 DEF Fields, TargetTypes, StackTyped
<1>2. CASE Refreshed
  BY <1>1, <1>2 DEF Refreshed, TargetTypes, PlaceInv
<1>3. ASSUME NEW t \in Fields, SessionStarts(t)
      PROVE  {resolved', meant'} \subseteq Fields /\ tbounds' \in Boxes /\ UNCHANGED deskVars
  BY <1>1, <1>3 DEF SessionStarts
<1> QED BY <1>2, <1>3

LEMMA GivenStaysTyped ==
  ASSUME TargetTypes, NEW q \in Asked, Inspect(q) \/ Act(q)
  PROVE  GivenTyped'
<1>1. view.width \in Nat /\ view.box.w \in Nat /\ tbounds' \in Boxes
  BY RefreshedIsSomewhere, BoxesAreBoxes DEF TargetTypes, PlaceInv, Viewed, Inspect, Act
<1>2. \/ got' = got
      \/ got'.unit = view.width /\ got'.slack \in {0, view.box.w} /\ got'.within = tbounds'
  BY DEF Inspect, Act
<1> QED BY <1>1, <1>2 DEF GivenTyped, TargetTypes

\* Every variable of the desktop and of the session's target has its type, for
\* any windows, processes, bundles, bounds and changes of the desktop.
THEOREM TargetsAreTyped == TargetSpec => []TargetTypeOK
<1>1. TargetInit => TargetTypes
  <2> SUFFICES ASSUME TargetInit PROVE TargetTypes
    OBVIOUS
  <2>1. PlaceInv
    BY PlaceInvInit
  <2>2. StackTyped
    BY TargetingAssumption DEF TargetInit, StackTyped
  <2>3. GivenTyped
    BY DEF TargetInit, GivenTyped, NoGot
  <2> QED BY <2>1, <2>2, <2>3 DEF TargetInit, TargetTypes, NoField, Fields
<1>2. TargetTypes /\ [TargetNext]_targetVars => TargetTypes'
  <2> SUFFICES ASSUME TargetTypes, [TargetNext]_targetVars PROVE TargetTypes'
    OBVIOUS
  <2>1. PlaceInv'
    BY PlaceInvStep DEF TargetTypes
  <2>2. CASE UNCHANGED targetVars
    BY <2>1, <2>2 DEF targetVars, deskVars, scopeVars, TargetTypes, StackTyped, GivenTyped, Open
  <2>3. ASSUME UNCHANGED deskVars PROVE StackTyped'
    BY <2>3 DEF deskVars, TargetTypes, StackTyped, Open
  <2>4. ASSUME NEW t \in Fields, SessionStarts(t) PROVE TargetTypes'
    BY <2>1, <2>3, <2>4, ScopeStaysTyped DEF SessionStarts, TargetTypes, GivenTyped
  <2>5. CASE Observe
    BY <2>1, <2>3, <2>5, ScopeStaysTyped DEF Observe, TargetTypes, GivenTyped
  <2>6. CASE ObserveDisplay
    BY <2>1, <2>3, <2>6 DEF ObserveDisplay, scopeVars, TargetTypes, GivenTyped
  <2>7. ASSUME NEW q \in Asked, Inspect(q) \/ Act(q) PROVE TargetTypes'
    <3>1. Refreshed
      BY <2>7 DEF Inspect, Act
    <3> QED BY <2>1, <2>3, <2>7, <3>1, ScopeStaysTyped, GivenStaysTyped DEF TargetTypes
  <2>8. CASE DesktopStep
    <3>1. UNCHANGED <<scopeVars, view, got>>
      BY <2>8 DEF DesktopStep, WindowRaised, WindowClosed, WindowMoved, WindowOpened, PidRecycled,
         Shuffled
    <3> QED BY <2>1, <2>8, <3>1, DesktopStaysTyped DEF scopeVars, TargetTypes, GivenTyped
  <2> QED BY <2>2, <2>4, <2>5, <2>6, <2>7, <2>8 DEF TargetNext, DesktopStep
<1>3. TargetTypes => TargetTypeOK
  <2> SUFFICES ASSUME TargetTypes PROVE TargetTypeOK
    OBVIOUS
  <2>1. view.box \in Boxes \cup {NoBox, Display} /\ view.width \in Nat /\ view.height \in Int
    BY DEF TargetTypes, PlaceInv, Viewed, NoView, BoxOK
  <2> QED BY <2>1 DEF TargetTypes, PlaceInv, StackTyped, GivenTyped, TargetTypeOK
<1> QED BY <1>1, <1>2, <1>3, PTL DEF TargetSpec

-----------------------------------------------------------------------------
(* The three parts together. *)

\* The run of the three parts is a run of each of them, and no fairness is
\* needed for what never happens.
LEMMA DesktopRunsItsParts ==
  DesktopSpec => FramesSpec /\ TargetSpec /\ ActuationInit /\ [][ActuationNext]_actuationVars
<1>1. DesktopInit => FramesInit /\ TargetInit /\ ActuationInit
  BY DEF DesktopInit
<1>2. [DesktopNext]_desktopVars =>
        /\ [FramesNext]_frameVars /\ [TargetNext]_targetVars /\ [ActuationNext]_actuationVars
  BY DEF DesktopNext, desktopVars
<1> QED BY <1>1, <1>2, PTL DEF DesktopSpec, FramesSpec, TargetSpec

\* Every variable of the batch and its input, of the frames and of the targets
\* has its type when the three run side by side.
THEOREM DesktopIsTyped == DesktopSpec => []DesktopTypeOK
<1>1. ActuationInv /\ FramesTypeOK /\ TargetTypeOK => DesktopTypeOK
  BY DEF DesktopTypeOK, ActuationInv
<1> QED BY <1>1, DesktopRunsItsParts, ActuationInvInit, ActuationInvStep, FramesAreTyped,
           TargetsAreTyped, PTL

=============================================================================
