--------------------- MODULE RequestCancellationProofs ---------------------
(***************************************************************************)
(* Proofs about RequestCancellation, for any number of clients, acts and   *)
(* cancels, and any limit of the tombstones: its types, that a cancel ends *)
(* the act it names and no other, before, during or after it ran, and that *)
(* the client gets what PreciseCancel promises.                            *)
(***************************************************************************)
EXTENDS RequestCancellation, FiniteSetTheorems, TLAPS

\* No two acts share a key.
LEMMA KeysDiffer ==
  \A a, b \in Acts : Key(a) = Key(b) => a = b
BY RequestCancellationAssumption DEF Key

\* The key of an act is one of the keys, and there are no others.
LEMMA KeyOfAct ==
  /\ \A a \in Acts : Key(a) \in Keys
  /\ \A k \in Keys : \E a \in Acts : k = Key(a)
BY DEF Keys

-----------------------------------------------------------------------------
(* Types.                                                                  *)

\* TypeOK is inductive once the tombstones are known to be finite.
Typed == TypeOK /\ IsFiniteSet(tombstones)

\* Sending a cancel keeps the type.
LEMMA CancelTyped ==
  ASSUME Typed, NEW a \in Acts, NEW o \in Origins, NEW v \in Cancels,
         cancel' = [cancel EXCEPT ![a][o] = v]
  PROVE  cancel' \in [Acts -> [Origins -> Cancels]]
<1>1. [cancel[a] EXCEPT ![o] = v] \in [Origins -> Cancels]
  BY DEF Typed, TypeOK
<1>2. cancel' = [cancel EXCEPT ![a] = [cancel[a] EXCEPT ![o] = v]]
  OBVIOUS
<1> QED BY <1>1, <1>2 DEF Typed, TypeOK

\* ... and changes one cancel only.
LEMMA CancelMoves ==
  ASSUME Typed, NEW a \in Acts, NEW o \in Origins, NEW v \in Cancels,
         cancel' = [cancel EXCEPT ![a][o] = v]
  PROVE  /\ cancel'[a][o] = v
         /\ \A b \in Acts, q \in Origins :
              b # a \/ q # o => cancel'[b][q] = cancel[b][q]
<1>1. /\ cancel'[a] = [cancel[a] EXCEPT ![o] = v]
      /\ \A b \in Acts \ {a} : cancel'[b] = cancel[b]
  BY DEF Typed, TypeOK
<1>2. \A q \in Origins : cancel'[a][q] = IF q = o THEN v ELSE cancel[a][q]
  BY <1>1 DEF Typed, TypeOK
<1> QED BY <1>1, <1>2

\* What is remembered of a missed cancel stays within the limit.
LEMMA RememberedFits ==
  ASSUME Typed, NEW k \in Keys, NEW T \in Remembered(k)
  PROVE  T \subseteq Keys /\ IsFiniteSet(T) /\ Cardinality(T) <= MaxTombstones
<1> DEFINE all == tombstones \cup {k}
<1>1. IsFiniteSet(tombstones) /\ tombstones \subseteq Keys
  BY DEF Typed, TypeOK
<1>2. /\ Cardinality(tombstones) \in Nat
      /\ Cardinality(tombstones) <= MaxTombstones
      /\ MaxTombstones \in Nat
  BY <1>1, FS_CardinalityType, RequestCancellationAssumption DEF Typed, TypeOK
<1>3. /\ IsFiniteSet(all) /\ all \subseteq Keys
      /\ Cardinality(all) \in Nat
      /\ Cardinality(all) <= Cardinality(tombstones) + 1
  <2>1. /\ IsFiniteSet(all)
        /\ Cardinality(all) = IF k \in tombstones THEN Cardinality(tombstones)
                              ELSE Cardinality(tombstones) + 1
    BY <1>1, FS_AddElement
  <2> QED BY <1>1, <1>2, <2>1
<1>4. CASE Cardinality(all) > MaxTombstones
  <2>1. PICK t \in all : T = all \ {t}
    BY <1>4 DEF Remembered
  <2>2. IsFiniteSet(T) /\ Cardinality(T) = Cardinality(all) - 1
    BY <1>3, <2>1, FS_RemoveElement
  <2> QED BY <1>2, <1>3, <2>1, <2>2
<1>5. CASE ~(Cardinality(all) > MaxTombstones)
  <2>1. T = all
    BY <1>5 DEF Remembered
  <2> QED BY <1>2, <1>3, <1>5, <2>1
<1> QED BY <1>4, <1>5

LEMMA TypedInit == Init => Typed
<1> SUFFICES ASSUME Init PROVE Typed
  OBVIOUS
<1>1. IsFiniteSet(tombstones) /\ Cardinality(tombstones) <= MaxTombstones
  BY FS_EmptySet, RequestCancellationAssumption DEF Init
<1> QED BY <1>1 DEF Init, Typed, TypeOK, Phases, Points, Cancels

LEMMA TypedStep == Typed /\ [Next]_vars => Typed'
<1> SUFFICES ASSUME Typed, [Next]_vars PROVE Typed'
  OBVIOUS
<1> USE DEF Typed, TypeOK, Phases, Points, Cancels, Origins
<1>1. ASSUME NEW a \in Acts, ClientStep(a) PROVE Typed'
  <2>1. CASE Send(a)
    BY <2>1 DEF Send, registryVars, historyVars
  <2>2. CASE WriteFails(a)
    BY <2>2 DEF WriteFails, Settle, registryVars, historyVars
  <2>3. CASE Answer(a)
    BY <2>3 DEF Answer, Settle, registryVars, historyVars
  <2>4. CASE Abort(a)
    <3>1. cancel' \in [Acts -> [Origins -> Cancels]]
      <4>1. CASE cancel' = [cancel EXCEPT ![a]["abort"] = "sent"]
        BY <4>1, CancelTyped
      <4>2. CASE cancel' = cancel
        BY <4>2
      <4> QED BY <2>4, <4>1, <4>2 DEF Abort
    <3>2. /\ Settle(a)
          /\ UNCHANGED <<confirmed, closed, at, reply, registryVars,
                         historyVars>>
      BY <2>4 DEF Abort
    <3> QED BY <3>1, <3>2 DEF Settle, registryVars, historyVars
  <2>5. CASE Timeout(a)
    <3>1. cancel' \in [Acts -> [Origins -> Cancels]]
      <4>1. CASE cancel' = [cancel EXCEPT ![a]["timeout"] = "sent"]
        BY <4>1, CancelTyped
      <4>2. CASE cancel' = cancel
        BY <4>2
      <4> QED BY <2>5, <4>1, <4>2 DEF Timeout
    <3>2. /\ \/ phase' = [phase EXCEPT ![a] = "confirming"] /\ UNCHANGED settles
             \/ Settle(a)
          /\ UNCHANGED <<confirmed, closed, at, reply, registryVars,
                         historyVars>>
      BY <2>5 DEF Timeout
    <3>3. phase' \in [Acts -> Phases] /\ settles' \in [Acts -> Nat]
      BY <3>2 DEF Settle
    <3> QED BY <3>1, <3>2, <3>3 DEF registryVars, historyVars
  <2>6. CASE Confirm(a)
    BY <2>6 DEF Confirm, Settle, registryVars, historyVars
  <2>7. CASE GiveUp(a)
    BY <2>7 DEF GiveUp, Settle, registryVars, historyVars
  <2>8. CASE UserCancel(a)
    BY <2>8 DEF UserCancel, clientVars, registryVars, historyVars
  <2> QED
    BY <1>1, <2>1, <2>2, <2>3, <2>4, <2>5, <2>6, <2>7, <2>8 DEF ClientStep
<1>2. ASSUME NEW a \in Acts, DaemonStep(a) PROVE Typed'
  <2>1. CASE Receive(a)
    BY <2>1 DEF Receive, clientVars, registryVars, historyVars
  <2>2. CASE Refuse(a)
    BY <2>2 DEF Refuse, clientVars, registryVars, historyVars
  <2>3. CASE Register(a)
    <3>1. IsFiniteSet(tombstones') /\ Cardinality(tombstones') <= MaxTombstones
      <4>1. tombstones' = tombstones \ {Key(a)}
        BY <2>3 DEF Register
      <4>2. Cardinality(tombstones) \in Nat
        BY FS_CardinalityType
      <4>3. /\ IsFiniteSet(tombstones')
            /\ Cardinality(tombstones')
                 = IF Key(a) \in tombstones THEN Cardinality(tombstones) - 1
                   ELSE Cardinality(tombstones)
        BY <4>1, FS_RemoveElement
      <4> QED BY <4>2, <4>3, RequestCancellationAssumption
    <3> QED BY <2>3, <3>1, KeyOfAct DEF Register, clientVars, historyVars
  <2>4. CASE Start(a)
    BY <2>4 DEF Start, clientVars, registryVars, historyVars
  <2>5. CASE End(a)
    BY <2>5, KeyOfAct DEF End, clientVars, historyVars
  <2>6. ASSUME NEW o \in Origins, CancelLands(a, o) PROVE Typed'
    <3>1. Key(a) \in Keys
      BY KeyOfAct
    <3>2. CASE handles[Key(a)] # None
      BY <2>6, <3>1, <3>2 DEF CancelLands, Reported, clientVars
    <3>3. CASE handles[Key(a)] = None
      <4>1. /\ tombstones' \subseteq Keys /\ IsFiniteSet(tombstones')
            /\ Cardinality(tombstones') <= MaxTombstones
        BY <2>6, <3>1, <3>3, RememberedFits DEF CancelLands
      <4> QED BY <2>6, <3>1, <3>3, <4>1 DEF CancelLands, Reported, clientVars
    <3> QED BY <3>2, <3>3
  <2>7. ASSUME NEW o \in Origins, CancelRefused(a, o) PROVE Typed'
    BY <2>7 DEF CancelRefused, clientVars, registryVars, historyVars
  <2> QED BY <1>2, <2>1, <2>2, <2>3, <2>4, <2>5, <2>6, <2>7 DEF DaemonStep
<1>3. ASSUME NEW c \in Connections, Close(c) PROVE Typed'
  BY <1>3 DEF Close, registryVars, historyVars
<1>4. CASE UNCHANGED vars
  BY <1>4 DEF vars, clientVars, registryVars, historyVars
<1> QED BY <1>1, <1>2, <1>3, <1>4 DEF Next

\* Every reachable state is well typed; the tombstones never exceed their
\* limit (RequestRegistry::cancel).
THEOREM CancellationTypes == Spec => []TypeOK
<1>1. Typed => TypeOK
  BY DEF Typed
<1> QED BY TypedInit, TypedStep, <1>1, PTL DEF Spec

-----------------------------------------------------------------------------
(* The promise of the client.                                              *)

\* SettledOnce is inductive with: only a settled promise has been settled, or
\* confirmed.
SettleInv ==
  \A a \in Acts :
    /\ settles[a] <= 1
    /\ phase[a] # "settled" => settles[a] = 0 /\ ~confirmed[a]

LEMMA SettleStep == Typed /\ SettleInv /\ [Next]_vars => SettleInv'
<1> SUFFICES ASSUME Typed, SettleInv, [Next]_vars PROVE SettleInv'
  OBVIOUS
<1> USE DEF Typed, TypeOK, Phases, SettleInv
<1>1. ASSUME NEW a \in Acts, Settle(a), phase[a] # "settled",
             \A b \in Acts \ {a} : confirmed'[b] = confirmed[b]
      PROVE  SettleInv'
  BY <1>1 DEF Settle
<1>2. ASSUME UNCHANGED <<phase, settles, confirmed>> PROVE SettleInv'
  BY <1>2
<1>3. ASSUME NEW a \in Acts, ClientStep(a) PROVE SettleInv'
  <2>1. CASE Send(a)
    BY <2>1 DEF Send
  <2>2. CASE WriteFails(a)
    BY <2>2, <1>1 DEF WriteFails
  <2>3. CASE Answer(a)
    BY <2>3, <1>1, <1>2 DEF Answer
  <2>4. CASE Abort(a)
    BY <2>4, <1>1 DEF Abort
  <2>5. CASE Timeout(a)
    <3>1. CASE phase' = [phase EXCEPT ![a] = "confirming"] /\ UNCHANGED settles
      BY <2>5, <3>1 DEF Timeout
    <3> QED BY <2>5, <3>1, <1>1 DEF Timeout
  <2>6. CASE Confirm(a)
    BY <2>6, <1>1 DEF Confirm
  <2>7. CASE GiveUp(a)
    BY <2>7, <1>1 DEF GiveUp
  <2>8. CASE UserCancel(a)
    BY <2>8, <1>2 DEF UserCancel, clientVars
  <2> QED
    BY <1>3, <2>1, <2>2, <2>3, <2>4, <2>5, <2>6, <2>7, <2>8 DEF ClientStep
<1>4. ASSUME NEW a \in Acts, DaemonStep(a) PROVE SettleInv'
  <2>1. UNCHANGED clientVars
    BY <1>4 DEF DaemonStep, Receive, Refuse, Register, Start, End, CancelLands,
                CancelRefused
  <2> QED BY <2>1, <1>2 DEF clientVars
<1>5. ASSUME NEW c \in Connections, Close(c) PROVE SettleInv'
  BY <1>5 DEF Close
<1>6. CASE UNCHANGED vars
  BY <1>6, <1>2 DEF vars, clientVars
<1> QED BY <1>3, <1>4, <1>5, <1>6 DEF Next

\* The answer, the deadline, the abort signal and the end of the connection
\* settle a promise at most once between them (settlePending).
THEOREM PromiseSettledOnce == Spec => []SettledOnce
<1>1. Init => SettleInv
  BY DEF Init, SettleInv
<1>2. SettleInv => SettledOnce
  BY DEF SettleInv, SettledOnce
<1> QED BY TypedInit, TypedStep, SettleStep, <1>1, <1>2, PTL DEF Spec

-----------------------------------------------------------------------------
(* The registry.                                                           *)

\* An early cancel is a tombstone until the act registers, and a fired token
\* from then on.
EarlyKept ==
  \A a \in early :
    Key(a) \notin evicted =>
      /\ at[a] \in {"none", "received"} => Key(a) \in tombstones
      /\ at[a] = "queued" => fired[a]
      /\ at[a] # "running"

CancelInv ==
  /\ \A a \in Acts : handles[Key(a)] \in {a, None}
  /\ RegistryMirrorsActs
  /\ \A a \in Acts, o \in Origins : cancel[a][o] = "true" => fired[a]
  /\ ConfirmedIsCancelled
  /\ EarlyKept

LEMMA CancelInit == Init => CancelInv
BY KeyOfAct, RequestCancellationAssumption
   DEF Init, CancelInv, RegistryMirrorsActs,
       ConfirmedIsCancelled, EarlyKept

\* A client's step: it sends cancels, and confirms only what was answered.
LEMMA ClientKeepsCancelInv ==
  ASSUME Typed, CancelInv, NEW a \in Acts, ClientStep(a)
  PROVE  CancelInv'
<1> USE DEF CancelInv, RegistryMirrorsActs,
            ConfirmedIsCancelled, EarlyKept
<1>1. UNCHANGED <<at, fired, handles, tombstones, early, evicted>>
  BY DEF ClientStep, Send, WriteFails, Answer, Abort, Timeout, Confirm, GiveUp,
         UserCancel, registryVars, historyVars
<1>2. \/ UNCHANGED cancel
      \/ \E o \in Origins : cancel' = [cancel EXCEPT ![a][o] = "sent"]
  BY DEF ClientStep, Send, WriteFails, Answer, Abort, Timeout, Confirm, GiveUp,
         UserCancel, Origins
<1>3. \A b \in Acts, o \in Origins : cancel'[b][o] = "true" => fired[b]
  <2>1. ASSUME NEW o \in Origins, cancel' = [cancel EXCEPT ![a][o] = "sent"]
        PROVE  \A b \in Acts, q \in Origins :
                 cancel'[b][q] = cancel[b][q] \/ cancel'[b][q] = "sent"
    BY <2>1 DEF Typed, TypeOK
  <2> QED BY <1>2, <2>1
<1>4. \A b \in Acts : confirmed'[b] => fired[b]
  <2>1. CASE Confirm(a)
    BY <2>1 DEF Confirm, Typed, TypeOK, Origins
  <2>2. CASE ~Confirm(a)
    <3>1. UNCHANGED confirmed
      BY <2>2 DEF ClientStep, Send, WriteFails, Answer, Abort, Timeout, GiveUp,
                  UserCancel, clientVars
    <3> QED BY <3>1
  <2> QED BY <2>1, <2>2
<1> QED BY <1>1, <1>3, <1>4

\* Registration consumes the act's own tombstone and no other.
LEMMA RegisterKeepsCancelInv ==
  ASSUME Typed, CancelInv, NEW a \in Acts, Register(a)
  PROVE  CancelInv'
<1> USE KeysDiffer, KeyOfAct, RequestCancellationAssumption
    DEF CancelInv, RegistryMirrorsActs,
        ConfirmedIsCancelled, EarlyKept, Typed, TypeOK, Register, Points
<1>1. UNCHANGED <<confirmed, cancel, early, evicted>>
  BY DEF clientVars, historyVars
<1>2. /\ at'[a] = "queued" /\ handles'[Key(a)] = a
      /\ fired'[a] = (fired[a] \/ Key(a) \in tombstones)
      /\ \A b \in Acts \ {a} :
           /\ at'[b] = at[b] /\ handles'[Key(b)] = handles[Key(b)]
           /\ fired'[b] = fired[b]
           /\ Key(b) \in tombstones' <=> Key(b) \in tombstones
      /\ tombstones' \subseteq tombstones
  OBVIOUS
<1>3. \A b \in Acts : fired[b] => fired'[b]
  BY <1>2
<1>4. EarlyKept'
  <2> SUFFICES ASSUME NEW b \in early, Key(b) \notin evicted
               PROVE  /\ at'[b] \in {"none", "received"}
                           => Key(b) \in tombstones'
                      /\ at'[b] = "queued" => fired'[b]
                      /\ at'[b] # "running"
    BY <1>1
  <2>1. CASE b = a
    <3>1. Key(a) \in tombstones
      BY <2>1
    <3> QED BY <1>2, <2>1, <3>1
  <2>2. CASE b # a
    BY <1>2, <2>2
  <2> QED BY <2>1, <2>2
<1> QED BY <1>1, <1>2, <1>3, <1>4

\* A cancel that lands fires the token of the act it names, or leaves a
\* tombstone under that act's key.
LEMMA LandingKeepsCancelInv ==
  ASSUME Typed, CancelInv, NEW a \in Acts, NEW o \in Origins, CancelLands(a, o)
  PROVE  CancelInv'
<1> USE KeysDiffer, KeyOfAct, RequestCancellationAssumption
    DEF CancelInv, RegistryMirrorsActs,
        ConfirmedIsCancelled, EarlyKept
<1>1. /\ UNCHANGED <<confirmed, at, handles>>
      /\ cancel' = [cancel EXCEPT ![a][o] = Reported(Key(a))]
      /\ early' = IF at[a] \in {"none", "received"} THEN early \cup {a}
                  ELSE early
  BY DEF CancelLands, clientVars
<1>2. \A b \in Acts, q \in Origins :
        \/ cancel'[b][q] = cancel[b][q]
        \/ b = a /\ cancel'[b][q] = Reported(Key(a))
  <2>1. Reported(Key(a)) \in Cancels
    BY DEF Reported, Cancels
  <2> QED BY <1>1, <2>1, CancelMoves
<1>3. CASE handles[Key(a)] # None
  <2>1. handles[Key(a)] = a /\ at[a] \in {"queued", "running"}
    BY <1>3
  <2>2. /\ fired' = [fired EXCEPT ![a] = TRUE]
        /\ UNCHANGED <<tombstones, evicted>> /\ early' = early
    BY <1>1, <1>3, <2>1 DEF CancelLands
  <2>3. fired'[a] /\ \A b \in Acts \ {a} : fired'[b] = fired[b]
    BY <2>2 DEF Typed, TypeOK
  <2>4. \A b \in Acts, q \in Origins : cancel'[b][q] = "true" => fired'[b]
    BY <1>2, <2>3
  <2> QED BY <1>1, <2>2, <2>3, <2>4
<1>4. CASE handles[Key(a)] = None
  <2>1. /\ UNCHANGED fired
        /\ tombstones' \in Remembered(Key(a))
        /\ evicted' = evicted \cup ((tombstones \cup {Key(a)}) \ tombstones')
    BY <1>4 DEF CancelLands
  <2>2. tombstones' \subseteq tombstones \cup {Key(a)}
    BY <2>1 DEF Remembered
  <2>3. \A b \in Acts, q \in Origins : cancel'[b][q] = "true" => fired'[b]
    BY <1>2, <1>4, <2>1 DEF Reported
  <2>4. EarlyKept'
    <3>1. at[a] \notin {"queued", "running"}
      BY <1>4
    <3> QED BY <1>1, <2>1, <2>2, <3>1 DEF Typed, TypeOK
  <2> QED BY <1>1, <2>1, <2>2, <2>3, <2>4
<1> QED BY <1>3, <1>4

LEMMA CancelStep == Typed /\ CancelInv /\ [Next]_vars => CancelInv'
<1> SUFFICES ASSUME Typed, CancelInv, [Next]_vars PROVE CancelInv'
  OBVIOUS
<1> USE KeysDiffer, KeyOfAct, RequestCancellationAssumption
    DEF CancelInv, RegistryMirrorsActs,
        ConfirmedIsCancelled, EarlyKept, Typed, TypeOK, Points
<1>1. ASSUME NEW a \in Acts, DaemonStep(a) PROVE CancelInv'
  <2>1. CASE Receive(a)
    BY <2>1 DEF Receive, clientVars, registryVars, historyVars
  <2>2. CASE Refuse(a)
    BY <2>2 DEF Refuse, clientVars, registryVars, historyVars
  <2>3. CASE Register(a)
    BY <2>3, RegisterKeepsCancelInv
  <2>4. CASE Start(a)
    BY <2>4 DEF Start, clientVars, registryVars, historyVars
  <2>5. CASE End(a)
    BY <2>5 DEF End, clientVars, historyVars
  <2>6. ASSUME NEW o \in Origins, CancelLands(a, o) PROVE CancelInv'
    BY <2>6, LandingKeepsCancelInv
  <2>7. ASSUME NEW o \in Origins, CancelRefused(a, o) PROVE CancelInv'
    BY <2>7 DEF CancelRefused, clientVars, registryVars, historyVars
  <2> QED BY <1>1, <2>1, <2>2, <2>3, <2>4, <2>5, <2>6, <2>7 DEF DaemonStep
<1>2. ASSUME NEW c \in Connections, Close(c) PROVE CancelInv'
  BY <1>2 DEF Close, registryVars, historyVars
<1>3. CASE UNCHANGED vars
  BY <1>3 DEF vars, clientVars, registryVars, historyVars
<1> QED BY <1>1, <1>2, <1>3, ClientKeepsCancelInv DEF Next

LEMMA CancelInvariant == Spec => []CancelInv
BY TypedInit, TypedStep, CancelInit, CancelStep, PTL DEF Spec

\* A timeout reported as confirmed is that of an act whose token has fired
\* (handleRequestTimeout).
THEOREM ConfirmedMeansCancelled == Spec => []ConfirmedIsCancelled
<1>1. CancelInv => ConfirmedIsCancelled
  BY DEF CancelInv
<1> QED BY CancelInvariant, <1>1, PTL

\* The registry holds the acts between registration and end, and no other
\* (BatchScope).
THEOREM RegistryExact == Spec => []RegistryMirrorsActs
<1>1. CancelInv => RegistryMirrorsActs
  BY DEF CancelInv
<1> QED BY CancelInvariant, <1>1, PTL

\* A cancel that came before registration keeps the act from running, unless
\* its tombstone was thrown out (RequestRegistry::register).
THEOREM EarlyCancelHolds == Spec => []EarlyCancelPreventsRun
<1>1. CancelInv => EarlyCancelPreventsRun
  BY DEF CancelInv, EarlyKept, EarlyCancelPreventsRun
<1> QED BY CancelInvariant, <1>1, PTL

-----------------------------------------------------------------------------
(* Which cancel it was.                                                    *)

\* Whatever is cancelled, or will be, was named by a cancel of its client.
OnlyNamed ==
  \A a \in Acts : fired[a] \/ Key(a) \in tombstones => Named(a)

\* A cancel that was sent stays sent, whatever becomes of it.
LEMMA NamedStays ==
  ASSUME Typed, [Next]_vars, NEW a \in Acts, Named(a)
  PROVE  Named(a)'
<1>1. ASSUME NEW b \in Acts, NEW o \in Origins, NEW v \in Cancels \ {"none"},
             cancel' = [cancel EXCEPT ![b][o] = v]
      PROVE  Named(a)'
  <2>1. PICK q \in Origins : cancel[a][q] # "none"
    BY DEF Named
  <2>2. cancel'[a][q] # "none"
    BY <1>1, <2>1, CancelMoves
  <2> QED BY <2>2 DEF Named
<1>2. ASSUME UNCHANGED cancel PROVE Named(a)'
  BY <1>2 DEF Named
<1>3. ASSUME NEW b \in Acts, ClientStep(b) PROVE Named(a)'
  <2>1. \/ UNCHANGED cancel
        \/ \E o \in Origins : cancel' = [cancel EXCEPT ![b][o] = "sent"]
    BY <1>3 DEF ClientStep, Send, WriteFails, Answer, Abort, Timeout, Confirm,
                GiveUp, UserCancel, Origins
  <2> QED BY <2>1, <1>1, <1>2 DEF Cancels
<1>4. ASSUME NEW b \in Acts, DaemonStep(b) PROVE Named(a)'
  <2>1. \/ UNCHANGED cancel
        \/ \E o \in Origins :
              \/ cancel' = [cancel EXCEPT ![b][o] = "refused"]
              \/ cancel' = [cancel EXCEPT ![b][o] = Reported(Key(b))]
    BY <1>4 DEF DaemonStep, Receive, Refuse, Register, Start, End, CancelLands,
                CancelRefused
  <2>2. Reported(Key(b)) \in Cancels \ {"none"}
    BY DEF Reported, Cancels
  <2> QED BY <2>1, <2>2, <1>1, <1>2 DEF Cancels
<1>5. ASSUME NEW c \in Connections, Close(c) PROVE Named(a)'
  BY <1>5, <1>2 DEF Close
<1>6. CASE UNCHANGED vars
  BY <1>6, <1>2 DEF vars
<1> QED BY <1>3, <1>4, <1>5, <1>6 DEF Next

LEMMA OnlyNamedStep ==
  Typed /\ CancelInv /\ OnlyNamed /\ [Next]_vars => OnlyNamed'
<1> SUFFICES ASSUME Typed, CancelInv, OnlyNamed, [Next]_vars,
                    NEW a \in Acts, fired'[a] \/ Key(a) \in tombstones'
             PROVE  Named(a)'
  BY DEF OnlyNamed
<1>1. ASSUME fired[a] \/ Key(a) \in tombstones PROVE Named(a)'
  BY <1>1, NamedStays DEF OnlyNamed
<1>2. ASSUME UNCHANGED registryVars PROVE Named(a)'
  BY <1>1, <1>2 DEF registryVars
<1>3. ASSUME NEW b \in Acts, ClientStep(b) PROVE Named(a)'
  <2>1. UNCHANGED registryVars
    BY <1>3 DEF ClientStep, Send, WriteFails, Answer, Abort, Timeout, Confirm,
                GiveUp, UserCancel
  <2> QED BY <2>1, <1>2
<1>4. ASSUME NEW b \in Acts, Register(b) PROVE Named(a)'
  BY <1>4, <1>1 DEF Register, Typed, TypeOK
<1>5. ASSUME NEW b \in Acts, End(b) PROVE Named(a)'
  BY <1>5, <1>1 DEF End
<1>6. ASSUME NEW b \in Acts, NEW o \in Origins, CancelLands(b, o)
      PROVE  Named(a)'
  <2>1. CASE a = b
    <3>1. cancel[a][o] # "none"
      BY <1>6, <2>1 DEF CancelLands, Dispatched
    <3> QED BY <3>1, NamedStays DEF Named
  <2>2. CASE a # b
    <3>1. Key(a) # Key(b) /\ handles[Key(b)] \in {b, None}
      BY <2>2, KeysDiffer DEF CancelInv
    <3>2. CASE handles[Key(b)] # None
      BY <1>6, <1>1, <2>2, <3>1, <3>2 DEF CancelLands, Typed, TypeOK
    <3>3. CASE handles[Key(b)] = None
      <4>1. tombstones' \subseteq tombstones \cup {Key(b)} /\ UNCHANGED fired
        BY <1>6, <3>3 DEF CancelLands, Remembered
      <4> QED BY <4>1, <3>1, <1>1
    <3> QED BY <3>2, <3>3
  <2> QED BY <2>1, <2>2
<1>7. ASSUME NEW b \in Acts,
             \/ Receive(b) \/ Refuse(b) \/ Start(b)
             \/ \E o \in Origins : CancelRefused(b, o)
      PROVE  Named(a)'
  <2>1. UNCHANGED registryVars
    BY <1>7 DEF Receive, Refuse, Start, CancelRefused
  <2> QED BY <2>1, <1>2
<1>8. ASSUME NEW c \in Connections, Close(c) PROVE Named(a)'
  BY <1>8, <1>2 DEF Close
<1>9. CASE UNCHANGED vars
  BY <1>9, <1>2 DEF vars
<1> QED BY <1>3, <1>4, <1>5, <1>6, <1>7, <1>8, <1>9 DEF Next, DaemonStep

\* Only a cancel that a client of the same connection sent, and that names the
\* act's id, fires its token, now or when the act registers, whatever ids other
\* clients use (RequestRegistry, RequestKey).
THEOREM OnlyNamedActsCancelled == Spec => []OnlyNamed
<1>1. Init => OnlyNamed
  BY DEF Init, OnlyNamed
<1> QED
  BY TypedInit, TypedStep, CancelInit, CancelStep, OnlyNamedStep, <1>1, PTL
     DEF Spec

-----------------------------------------------------------------------------
(* The promise to the client: PreciseCancel.                               *)

\* A cancel that is sent or answered names its act and no other.
LEMMA NamedMoves ==
  ASSUME Typed, NEW a \in Acts, NEW o \in Origins,
         NEW v \in Cancels \ {"none"},
         cancel' = [cancel EXCEPT ![a][o] = v]
  PROVE  {b \in Acts : Named(b)}' = {b \in Acts : Named(b)} \cup {a}
<1>1. cancel'[a] = [cancel[a] EXCEPT ![o] = v]
  BY DEF Typed, TypeOK
<1>2. /\ cancel'[a][o] = v
      /\ \A b \in Acts \ {a} : cancel'[b] = cancel[b]
  BY <1>1 DEF Typed, TypeOK
<1>3. \A b \in Acts : Named(b)' <=> Named(b) \/ b = a
  BY <1>1, <1>2 DEF Named
<1> QED BY <1>3

\* Settling a promise that is not settled is the client's one answer.
LEMMA SettlesOnce ==
  ASSUME Typed, SettleInv, NEW a \in Acts, Settle(a), phase[a] # "settled"
  PROVE  Promise!Answered({a})
<1>1. settles[a] = 0
  BY DEF SettleInv
<1>2. settles' = [b \in Acts |-> IF b \in {a} THEN 1 ELSE settles[b]]
  <2>1. settles' = [settles EXCEPT ![a] = settles[a] + 1]
    BY DEF Settle
  <2>2. settles' = [settles EXCEPT ![a] = 1]
    BY <1>1, <2>1
  <2> QED BY <2>2 DEF Typed, TypeOK
<1> QED BY <1>1, <1>2 DEF Promise!Answered

\* The tombstones after a cancel stand for the acts that were remembered, with
\* the one it names, or for all of these but one.
LEMMA RememberedIsKept ==
  ASSUME NEW a \in Acts, NEW T \in Remembered(Key(a))
  PROVE  {b \in Acts : Key(b) \in T /\ Coming(b)}
           \in Promise!Kept({b \in Acts : /\ Key(b) \in tombstones \cup {Key(a)}
                                          /\ Coming(b)})
<1> DEFINE all == tombstones \cup {Key(a)}
           Of(S) == {b \in Acts : Key(b) \in S /\ Coming(b)}
<1>1. CASE T = all
  BY <1>1 DEF Promise!Kept
<1>2. ASSUME NEW t \in all, T = all \ {t}
      PROVE  Of(T) \in Promise!Kept(Of(all))
  <2>1. CASE \E b \in Of(all) : Key(b) = t
    <3>1. PICK b \in Of(all) : Key(b) = t
      BY <2>1
    <3>2. Of(T) = Of(all) \ {b}
      BY <1>2, <3>1, KeysDiffer
    <3> QED BY <3>1, <3>2 DEF Promise!Kept
  <2>2. CASE \A b \in Of(all) : Key(b) # t
    <3>1. Of(T) = Of(all)
      BY <1>2, <2>2
    <3> QED BY <3>1 DEF Promise!Kept
  <2> QED BY <2>1, <2>2
<1> QED BY <1>1, <1>2 DEF Remembered

\* A client's step settles a promise, asks for a cancel, or confirms one.
LEMMA ClientKeepsPromise ==
  ASSUME Typed, SettleInv, CancelInv, NEW a \in Acts, ClientStep(a)
  PROVE  [Promise!Next]_(Promise!promiseVars)
<1> USE DEF Promise!Next, Promise!promiseVars
<1>1. UNCHANGED <<at, fired, tombstones>>
  BY DEF ClientStep, Send, WriteFails, Answer, Abort, Timeout, Confirm, GiveUp,
         UserCancel, registryVars
<1>2. /\ UNCHANGED {b \in Acts : Key(b) \in tombstones /\ Coming(b)}
      /\ UNCHANGED [b \in Acts |-> IF Coming(b) THEN "coming" ELSE at[b]]
      /\ UNCHANGED {b \in Acts : fired[b]}
  BY <1>1 DEF Coming
<1>3. ASSUME Settle(a), phase[a] # "settled", UNCHANGED <<cancel, confirmed>>
      PROVE  Promise!Settle({a})
  BY <1>2, <1>3, SettlesOnce DEF Promise!Settle, Named
<1>4. ASSUME NEW o \in Origins, cancel' = [cancel EXCEPT ![a][o] = "sent"],
             \/ Settle(a) /\ phase[a] # "settled"
             \/ UNCHANGED settles,
             UNCHANGED confirmed
      PROVE  Promise!Ask(a)
  <2>1. {b \in Acts : Named(b)}' = {b \in Acts : Named(b)} \cup {a}
    BY <1>4, NamedMoves DEF Cancels
  <2>2. Promise!Answered({a}) \/ UNCHANGED settles
    BY <1>4, SettlesOnce
  <2> QED BY <1>2, <1>4, <2>1, <2>2 DEF Promise!Ask
<1>5. ASSUME UNCHANGED <<cancel, confirmed, settles>>
      PROVE  UNCHANGED Promise!promiseVars
  BY <1>2, <1>5 DEF Named
<1>6. CASE Send(a)
  BY <1>5, <1>6 DEF Send
<1>7. CASE WriteFails(a)
  BY <1>3, <1>7 DEF WriteFails
<1>8. CASE Answer(a)
  BY <1>3, <1>5, <1>8 DEF Answer
<1>9. CASE Abort(a)
  BY <1>3, <1>4, <1>9 DEF Abort, Origins
<1>10. CASE Timeout(a)
  BY <1>3, <1>4, <1>10 DEF Timeout, Origins
<1>11. CASE Confirm(a)
  <2>1. /\ Settle(a) /\ phase[a] # "settled" /\ UNCHANGED cancel
        /\ confirmed' = [confirmed EXCEPT ![a] = cancel[a]["timeout"] = "true"]
    BY <1>11 DEF Confirm
  <2>2. ~confirmed[a] /\ Promise!Answered({a})
    <3>1. Settle(a) /\ phase[a] # "settled"
      BY <2>1
    <3>2. Promise!Answered({a})
      BY <3>1, SettlesOnce
    <3>3. ~confirmed[a]
      BY <3>1 DEF SettleInv
    <3> QED BY <3>2, <3>3
  <2>3. CASE cancel[a]["timeout"] = "true"
    <3>1. fired[a]
      BY <2>3 DEF CancelInv, Origins
    <3>2. {b \in Acts : confirmed'[b]} = {b \in Acts : confirmed[b]} \cup {a}
      BY <2>1, <2>3 DEF Typed, TypeOK
    <3>3. UNCHANGED {b \in Acts : Named(b)}
      BY <2>1 DEF Named
    <3>4. Promise!Confirm(a)
      BY <1>2, <2>2, <3>1, <3>2, <3>3 DEF Promise!Confirm
    <3> QED BY <3>4
  <2>4. CASE cancel[a]["timeout"] # "true"
    <3>1. {b \in Acts : confirmed'[b]} = {b \in Acts : confirmed[b]}
      BY <2>1, <2>2, <2>4 DEF Typed, TypeOK
    <3> QED BY <1>2, <2>1, <2>2, <3>1 DEF Promise!Settle, Named
  <2> QED BY <2>3, <2>4
<1>12. CASE GiveUp(a)
  BY <1>3, <1>12 DEF GiveUp
<1>13. CASE UserCancel(a)
  BY <1>4, <1>13 DEF UserCancel, clientVars, Origins
<1> QED
  BY <1>6, <1>7, <1>8, <1>9, <1>10, <1>11, <1>12, <1>13 DEF ClientStep

\* A cancel that lands, whoever sent it.
LEMMA LandingKeepsPromise ==
  ASSUME Typed, CancelInv, NEW a \in Acts, NEW o \in Origins, CancelLands(a, o)
  PROVE  Promise!Cancel(a)
<1>1. /\ UNCHANGED <<at, handles, settles, confirmed>>
      /\ cancel[a][o] = "sent"
      /\ cancel' = [cancel EXCEPT ![a][o] = Reported(Key(a))]
  BY DEF CancelLands, Dispatched, clientVars
<1>2. Named(a) /\ UNCHANGED {b \in Acts : Named(b)}
  <2>1. Named(a)
    BY <1>1 DEF Named
  <2>2. Reported(Key(a)) \in Cancels \ {"none"}
    BY DEF Reported, Cancels
  <2>3. {b \in Acts : Named(b)}' = {b \in Acts : Named(b)} \cup {a}
    BY <1>1, <2>2, NamedMoves
  <2> QED BY <2>1, <2>3
<1>3. /\ UNCHANGED [b \in Acts |-> IF Coming(b) THEN "coming" ELSE at[b]]
      /\ UNCHANGED {b \in Acts : confirmed[b]}
      /\ \A b \in Acts : Coming(b)' <=> Coming(b)
  BY <1>1 DEF Coming
<1>4. handles[Key(a)] \in {a, None} /\ None # a
  BY RequestCancellationAssumption DEF CancelInv
<1>5. CASE handles[Key(a)] # None
  <2>1. at[a] \in {"queued", "running"} /\ ~Coming(a)
    BY <1>4, <1>5 DEF CancelInv, RegistryMirrorsActs, Coming
  <2>2. fired' = [fired EXCEPT ![a] = TRUE] /\ UNCHANGED tombstones
    BY <1>4, <1>5 DEF CancelLands
  <2>3. {b \in Acts : fired[b]}' = {b \in Acts : fired[b]} \cup {a}
    BY <2>2 DEF Typed, TypeOK
  <2>4. UNCHANGED {b \in Acts : Key(b) \in tombstones /\ Coming(b)}
    BY <1>3, <2>2
  <2> QED BY <1>1, <1>2, <1>3, <2>1, <2>3, <2>4 DEF Promise!Cancel
<1>6. CASE handles[Key(a)] = None
  <2> DEFINE asked == {b \in Acts : Key(b) \in tombstones /\ Coming(b)}
             all == {b \in Acts : /\ Key(b) \in tombstones \cup {Key(a)}
                                  /\ Coming(b)}
  <2>1. tombstones' \in Remembered(Key(a)) /\ UNCHANGED fired
    BY <1>6 DEF CancelLands
  <2>2. asked' = {b \in Acts : Key(b) \in tombstones' /\ Coming(b)}
    BY <1>3
  <2>3. asked' \in Promise!Kept(all)
    BY <2>1, <2>2, RememberedIsKept
  <2>4. UNCHANGED {b \in Acts : fired[b]}
    BY <2>1
  <2>5. at[a] \notin {"queued", "running"}
    BY <1>4, <1>6 DEF CancelInv, RegistryMirrorsActs
  <2>6. CASE Coming(a)
    <3>1. all = asked \cup {a}
      BY <2>6, KeysDiffer
    <3> HIDE DEF asked, all
    <3>2. asked' \in Promise!Kept(asked \cup {a})
      BY <2>3, <3>1
    <3> QED
      BY <1>1, <1>2, <1>3, <2>4, <2>6, <3>2 DEF Promise!Cancel, asked
  <2>7. CASE ~Coming(a)
    <3>1. all = asked
      BY <2>7, KeysDiffer
    <3>2. at[a] = "ended"
      BY <2>5, <2>7 DEF Coming, Typed, TypeOK, Points
    <3> HIDE DEF asked, all
    <3>3. asked' \in Promise!Kept(asked)
      BY <2>3, <3>1
    <3> QED
      BY <1>1, <1>2, <1>3, <2>4, <2>7, <3>2, <3>3 DEF Promise!Cancel, asked
  <2> QED BY <2>6, <2>7
<1> QED BY <1>5, <1>6

\* The daemon's other steps: the act moves on.
LEMMA DaemonKeepsPromise ==
  ASSUME Typed, CancelInv, NEW a \in Acts, DaemonStep(a)
  PROVE  [Promise!Next]_(Promise!promiseVars)
<1> DEFINE stage == [b \in Acts |-> IF Coming(b) THEN "coming" ELSE at[b]]
           asked == {b \in Acts : Key(b) \in tombstones /\ Coming(b)}
           cancelled == {b \in Acts : fired[b]}
<1>1. ASSUME UNCHANGED <<clientVars, cancel>>
      PROVE  UNCHANGED <<{b \in Acts : Named(b)}, settles,
                         {b \in Acts : confirmed[b]}>>
  BY <1>1 DEF clientVars, Named
<1>2. ASSUME NEW p \in Points \ {"none", "received"},
             at' = [at EXCEPT ![a] = p]
      PROVE  /\ stage' = [stage EXCEPT ![a] = p]
             /\ \A b \in Acts : Coming(b)' <=> Coming(b) /\ b # a
  BY <1>2 DEF Coming, Typed, TypeOK, Points
<1>3. ASSUME UNCHANGED <<clientVars, cancel, tombstones, fired>>,
             at[a] # "ended", at' = [at EXCEPT ![a] = "ended"]
      PROVE  Promise!End(a)
  <2>1. /\ stage' = [stage EXCEPT ![a] = "ended"]
        /\ \A b \in Acts : Coming(b)' <=> Coming(b) /\ b # a
    BY <1>2, <1>3 DEF Points
  <2>2. stage[a] # "ended"
    BY <1>3
  <2>3. asked' = asked \ {a}
    BY <1>3, <2>1
  <2>4. UNCHANGED cancelled
    BY <1>3
  <2> HIDE DEF stage, asked, cancelled
  <2> QED
    BY <1>1, <1>3, <2>1, <2>2, <2>3, <2>4
       DEF Promise!End, stage, asked, cancelled
<1>4. CASE Receive(a)
  <2>1. \A b \in Acts : Coming(b)' <=> Coming(b)
    BY <1>4 DEF Receive, Coming, Typed, TypeOK
  <2>2. UNCHANGED <<stage, asked, cancelled>>
    BY <1>4, <2>1 DEF Receive, Coming, registryVars, Typed, TypeOK
  <2> QED BY <1>1, <1>4, <2>2 DEF Receive, Promise!promiseVars
<1>5. CASE Refuse(a)
  BY <1>3, <1>5 DEF Refuse, registryVars, Promise!Next
<1>6. CASE End(a)
  BY <1>3, <1>6 DEF End, Promise!Next
<1>7. CASE Start(a)
  <2>1. /\ stage' = [stage EXCEPT ![a] = "running"]
        /\ \A b \in Acts : Coming(b)' <=> Coming(b) /\ b # a
    BY <1>2, <1>7 DEF Start, Points
  <2>2. stage[a] = "queued" /\ a \notin cancelled /\ ~Coming(a)
    BY <1>7 DEF Start, Coming
  <2>3. UNCHANGED <<asked, cancelled>>
    BY <1>7, <2>1, <2>2 DEF Start, registryVars
  <2> QED
    BY <1>1, <1>7, <2>1, <2>2, <2>3 DEF Start, Promise!Start, Promise!Next
<1>8. CASE Register(a)
  <2>1. /\ stage' = [stage EXCEPT ![a] = "queued"]
        /\ \A b \in Acts : Coming(b)' <=> Coming(b) /\ b # a
    BY <1>2, <1>8 DEF Register, Points
  <2>2. stage[a] = "coming" /\ Coming(a)
    BY <1>8 DEF Register, Coming
  <2>3. asked' = asked \ {a}
    BY <1>8, <2>1, KeysDiffer DEF Register
  <2>4. cancelled' = cancelled \cup ({a} \cap asked)
    <3>1. /\ fired'[a] <=> fired[a] \/ Key(a) \in tombstones
          /\ \A b \in Acts \ {a} : fired'[b] <=> fired[b]
      BY <1>8 DEF Register, Typed, TypeOK
    <3> QED BY <2>2, <3>1
  <2> QED
    BY <1>1, <1>8, <2>1, <2>2, <2>3, <2>4
       DEF Register, Promise!Arrive, Promise!Next
<1>9. ASSUME NEW o \in Origins, CancelLands(a, o)
      PROVE  [Promise!Next]_(Promise!promiseVars)
  BY <1>9, LandingKeepsPromise DEF Promise!Next
<1>10. ASSUME NEW o \in Origins, CancelRefused(a, o)
       PROVE  [Promise!Next]_(Promise!promiseVars)
  <2>1. /\ cancel[a][o] = "sent"
        /\ cancel' = [cancel EXCEPT ![a][o] = "refused"]
        /\ UNCHANGED <<at, settles, confirmed, tombstones, fired>>
    BY <1>10 DEF CancelRefused, Dispatched, clientVars, registryVars
  <2>2. Named(a)
    BY <2>1 DEF Named
  <2>3. {b \in Acts : Named(b)}' = {b \in Acts : Named(b)} \cup {a}
    BY <2>1, NamedMoves DEF Cancels
  <2> QED BY <2>1, <2>2, <2>3 DEF Promise!promiseVars, Coming
<1> QED BY <1>4, <1>5, <1>6, <1>7, <1>8, <1>9, <1>10 DEF DaemonStep

LEMMA PromiseStep ==
  Typed /\ SettleInv /\ CancelInv /\ [Next]_vars
    => [Promise!Next]_(Promise!promiseVars)
<1> SUFFICES ASSUME Typed, SettleInv, CancelInv, [Next]_vars
             PROVE  [Promise!Next]_(Promise!promiseVars)
  OBVIOUS
<1>1. ASSUME NEW c \in Connections, Close(c)
      PROVE  [Promise!Next]_(Promise!promiseVars)
  <2> DEFINE waiting ==
               {a \in Acts :
                  Conn[a] = c /\ phase[a] \in {"pending", "confirming"}}
  <2>1. \A a \in waiting : settles[a] = 0
    BY DEF SettleInv
  <2>2. settles' = [a \in Acts |-> IF a \in waiting THEN settles[a] + 1
                                   ELSE settles[a]]
    BY <1>1 DEF Close
  <2>3. settles' = [a \in Acts |-> IF a \in waiting THEN 1 ELSE settles[a]]
    BY <2>1, <2>2
  <2>4. UNCHANGED <<at, confirmed, cancel, tombstones, fired>>
    BY <1>1 DEF Close, registryVars
  <2>5. UNCHANGED <<{a \in Acts : Named(a)},
                    {a \in Acts : Key(a) \in tombstones /\ Coming(a)},
                    [a \in Acts |-> IF Coming(a) THEN "coming" ELSE at[a]],
                    {a \in Acts : fired[a]}, {a \in Acts : confirmed[a]}>>
    BY <2>4 DEF Named, Coming
  <2>6. waiting \in SUBSET Acts
    OBVIOUS
  <2> HIDE DEF waiting
  <2>7. Promise!Settle(waiting)
    BY <2>1, <2>3, <2>5 DEF Promise!Settle, Promise!Answered
  <2> QED BY <2>6, <2>7 DEF Promise!Next
<1>2. CASE UNCHANGED vars
  BY <1>2 DEF vars, clientVars, registryVars, Promise!promiseVars, Named, Coming
<1> QED BY <1>1, <1>2, ClientKeepsPromise, DaemonKeepsPromise DEF Next

\* Client, daemon and registry keep PreciseCancel's promise: every step of
\* theirs is one of its steps or changes nothing it speaks of.
THEOREM CancellationIsPrecise == Spec => ImplementsPromise
<1>1. Init => SettleInv /\ Promise!Init
  BY DEF Init, SettleInv, Promise!Init, Named, Coming
<1> QED
  BY TypedInit, TypedStep, SettleStep, CancelInit, CancelStep, PromiseStep,
     <1>1, PTL DEF Spec, ImplementsPromise, Promise!Spec

=============================================================================
