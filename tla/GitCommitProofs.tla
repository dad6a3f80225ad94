--------------------------- MODULE GitCommitProofs --------------------------
(***************************************************************************)
(* Theorems about GitCommit, for every value of its constants: any number  *)
(* of processes, with or without cache lag, and any bounds.  Those that    *)
(* need one process with an up-to-date view say so.                        *)
(***************************************************************************)
EXTENDS GitCommit, TLAPS

-----------------------------------------------------------------------------
(* The helpers, on objects.                                                *)

LEMMA NewObjectType == ASSUME NEW n \in Nat PROVE NewObject(n) \in Objects
  BY DEF NewObject, Objects, Phases

LEMMA MergeType ==
  ASSUME NEW f \in Objects, NEW o \in Objects, NEW w \in Wants
  PROVE  Merge(f, o, w) \in Objects
  BY DEF Merge, Objects, Phases, Wants, PhaseOf

LEMMA StatusSlotsType ==
  ASSUME NEW o \in Objects
  PROVE  /\ StatusSlots(o) \in Seq(Nat)
         /\ Len(StatusSlots(o)) = o.apis
         /\ \A i \in 1 .. o.apis :
                StatusSlots(o)[i] \in {0} \/ StatusSlots(o)[i] = o.calls[i]
  BY DEF StatusSlots, Objects

(* CallCount++ on one entry.                                               *)
LEMMA CountType ==
  ASSUME NEW o \in Objects, NEW i \in 1 .. Len(o.calls)
  PROVE  /\ [o EXCEPT !.calls[i] = @ + 1] \in Objects
         /\ [o EXCEPT !.calls[i] = @ + 1].calls[i] = o.calls[i] + 1
         /\ Len([o EXCEPT !.calls[i] = @ + 1].calls) = Len(o.calls)
         /\ \A j \in 1 .. Len(o.calls) : j # i =>
                [o EXCEPT !.calls[i] = @ + 1].calls[j] = o.calls[j]
  <1> DEFINE s == o.calls
             t == [s EXCEPT ![i] = @ + 1]
  <1>1. s \in Seq(Nat) /\ i \in 1 .. Len(s)
    BY DEF Objects
  <1>2. [o EXCEPT !.calls[i] = @ + 1] = [o EXCEPT !.calls = t]
    OBVIOUS
  <1>3. /\ t \in Seq(Nat) /\ Len(t) = Len(s) /\ t[i] = s[i] + 1
        /\ \A j \in 1 .. Len(s) : j # i => t[j] = s[j]
    <2> HIDE DEF s
    <2> QED
      BY <1>1
  <1> HIDE DEF t
  <1>4. [o EXCEPT !.calls = t] \in Objects /\ [o EXCEPT !.calls = t].calls = t
    BY <1>3 DEF Objects
  <1> QED
    BY <1>2, <1>3, <1>4

(* An accepted write leaves the older versions as they are.                *)
LEMMA WriteType ==
  ASSUME versions \in Seq(Objects), NEW o \in Objects, Write(o)
  PROVE  /\ versions' \in Seq(Objects)
         /\ RV \in Nat /\ RV' = RV + 1
         /\ \A k \in 1 .. RV : versions'[k] = versions[k]
         /\ versions'[RV + 1] = o
         /\ Current' = o
  BY DEF Write, RV, Current

(* Pushes and requests only grow, so a sound copy stays sound.             *)
LEMMA SoundGrows ==
  ASSUME NEW o \in Objects, NEW n \in Nat, NEW c \in Nat,
         NEW n2 \in Nat, NEW c2 \in Nat, n <= n2, c <= c2, Sound(o, n, c)
  PROVE  Sound(o, n2, c2)
  BY DEF Sound, Objects

(* updateStatus writes a sound status if both copies are sound and a       *)
(* Committed phase comes with a CommitSHA.                                 *)
LEMMA MergeSound ==
  ASSUME NEW f \in Objects, NEW o \in Objects, NEW w \in Wants,
         NEW n \in Nat, NEW c \in Nat, Sound(f, n, c), Sound(o, n, c),
         w = "Committed" => o.sha > 0
  PROVE  Sound(Merge(f, o, w), n, c)
  BY DEF Sound, Objects, Merge, Wants, PhaseOf

LEMMA SlotsSound ==
  ASSUME NEW o \in Objects, NEW n \in Nat, NEW c \in Nat, Sound(o, n, c)
  PROVE  /\ [o EXCEPT !.calls = StatusSlots(o)] \in Objects
         /\ Sound([o EXCEPT !.calls = StatusSlots(o)], n, c)
  <1> DEFINE r == [o EXCEPT !.calls = StatusSlots(o)]
  <1>1. /\ r \in Objects /\ r.sha = o.sha /\ r.phase = o.phase
        /\ r.calls = StatusSlots(o)
    BY StatusSlotsType DEF Objects
  <1>2. \A i \in 1 .. Len(StatusSlots(o)) :
            StatusSlots(o)[i] <= MaxCalls /\ StatusSlots(o)[i] <= c
    BY GitCommitAssumption DEF StatusSlots, Sound, Objects
  <1>3. DOMAIN r.calls = 1 .. Len(StatusSlots(o))
    BY <1>1, StatusSlotsType
  <1> QED
    BY <1>1, <1>2, <1>3 DEF Sound

(* A request that is made and counted, below the limit.                    *)
LEMMA CountSound ==
  ASSUME NEW o \in Objects, NEW i \in 1 .. Len(o.calls), NEW n \in Nat,
         NEW c \in Nat, Sound(o, n, c), o.calls[i] < MaxCalls
  PROVE  Sound([o EXCEPT !.calls[i] = @ + 1], n, c + 1)
  <1> DEFINE r == [o EXCEPT !.calls[i] = @ + 1]
  <1>1. r.sha = o.sha /\ r.phase = o.phase
    BY DEF Objects
  <1>2. \A j \in 1 .. Len(r.calls) : r.calls[j] <= MaxCalls /\ r.calls[j] <= c + 1
    <2>1. /\ r.calls[i] = o.calls[i] + 1 /\ Len(r.calls) = Len(o.calls)
          /\ \A j \in 1 .. Len(o.calls) : j # i => r.calls[j] = o.calls[j]
      BY CountType
    <2>2. \A j \in 1 .. Len(o.calls) :
              /\ o.calls[j] \in Nat /\ o.calls[j] <= MaxCalls /\ o.calls[j] <= c
      BY DEF Sound, Objects
    <2>3. TAKE j \in 1 .. Len(r.calls)
    <2> HIDE DEF r
    <2>4. j \in 1 .. Len(o.calls)
      BY <2>1, <2>3
    <2>5. CASE j = i
      BY <2>1, <2>2, <2>5, GitCommitAssumption
    <2>6. CASE j # i
      BY <2>1, <2>2, <2>4, <2>6
    <2> QED
      BY <2>5, <2>6
  <1> QED
    BY <1>1, <1>2, CountType DEF Sound, Objects

-----------------------------------------------------------------------------
(* The parts of the invariant under the building blocks of the actions.    *)

LEMMA StoreKept ==
  ASSUME StoreOK, CountersOK, CountersOK', UNCHANGED <<versions, cached>>,
         fresh' \in [Procs -> 1 .. RV], pushes <= pushes', apiCalls <= apiCalls'
  PROVE  StoreOK'
  <1>1. \A k \in 1 .. RV : versions[k] \in Objects
    BY DEF StoreOK, RV
  <1> QED
    BY <1>1, SoundGrows DEF StoreOK, CountersOK, RV

LEMMA StoreWritten ==
  ASSUME StoreOK, CountersOK, NEW o \in Objects, Write(o),
         Sound(o, pushes, apiCalls), UNCHANGED <<cached, pushes, apiCalls>>,
         fresh' \in [Procs -> 1 .. RV]
  PROVE  StoreOK'
  <1>1. /\ versions' \in Seq(Objects) /\ RV \in Nat /\ RV' = RV + 1
        /\ \A k \in 1 .. RV : versions'[k] = versions[k]
        /\ versions'[RV + 1] = o
    BY WriteType DEF StoreOK
  <1>2. 1 .. RV \subseteq 1 .. RV'
    BY <1>1
  <1>3. \A k \in 1 .. RV' : Sound(versions'[k], pushes, apiCalls)
    <2> TAKE k \in 1 .. RV'
    <2>1. k \in 1 .. RV \/ k = RV + 1
      BY <1>1
    <2>2. CASE k \in 1 .. RV
      BY <1>1, <2>2 DEF StoreOK
    <2>3. CASE k = RV + 1
      BY <1>1, <2>3
    <2> QED
      BY <2>1, <2>2, <2>3
  <1> QED
    BY <1>1, <1>2, <1>3 DEF StoreOK

LEMMA LocalsKept ==
  ASSUME LocalsOK, CountersOK, CountersOK', pushes <= pushes', apiCalls <= apiCalls',
         UNCHANGED <<pc, obj, want, tries, api, allMet>>
  PROVE  LocalsOK'
  BY SoundGrows DEF LocalsOK, CountersOK, SlotsFit, CallsLeft, HoldsSha, At

(* A worker moves to another place with its locals as they were.           *)
LEMMA LocalsMoved ==
  ASSUME LocalsOK, NEW p \in Procs, NEW l \in PCs \ {"rest", "get", "put"},
         GoTo(p, l), UNCHANGED <<obj, want, tries, api, allMet, pushes, apiCalls>>
  PROVE  LocalsOK'
  BY DEF LocalsOK, SlotsFit, CallsLeft, HoldsSha, At, GoTo

LEMMA LeaveOK ==
  ASSUME StoreOK, LocalsOK, NEW p \in Procs, Leave(p),
         UNCHANGED <<pushes, apiCalls>>
  PROVE  LocalsOK' /\ fresh' \in [Procs -> 1 .. RV]
  <1>1. versions[1] \in Objects /\ Sound(versions[1], pushes, apiCalls)
    BY DEF StoreOK, RV
  <1>2. RV \in Nat /\ 1 \in 1 .. RV
    BY DEF StoreOK, RV
  <1>3. fresh' \in [Procs -> 1 .. RV]
    BY <1>2 DEF Leave, StoreOK
  <1>4. 0 \in 0 .. MaxRetries - 1
    BY GitCommitAssumption
  <1>5. LocalsOK'
    BY <1>1, <1>4 DEF LocalsOK, Leave, GoTo, PCs, Wants, SlotsFit, CallsLeft,
                      HoldsSha, At
  <1> QED
    BY <1>3, <1>5

LEMMA UpdateStatusOK ==
  ASSUME LocalsOK, CountersOK, CountersOK', NEW p \in Procs, NEW o \in Objects,
         NEW w \in Wants, UpdateStatus(p, o, w), pushes <= pushes',
         apiCalls <= apiCalls', Sound(o, pushes', apiCalls'),
         w = "Committed" => o.sha > 0
  PROVE  LocalsOK' /\ fresh' = fresh
  <1>1. \A q \in Procs : Sound(obj[q], pushes', apiCalls')
    BY SoundGrows DEF LocalsOK, CountersOK
  <1>2. 0 \in 0 .. MaxRetries - 1
    BY GitCommitAssumption
  <1> QED
    BY <1>1, <1>2 DEF LocalsOK, UpdateStatus, GoTo, PCs, SlotsFit, CallsLeft,
                      HoldsSha, At

-----------------------------------------------------------------------------
(* The initial states, and one lemma per group of actions.                 *)

LEMMA InitInv == Init => IInv
  <1> SUFFICES ASSUME Init PROVE IInv
    OBVIOUS
  <1>1. PICK n \in ApiCounts : KubeInit(NewObject(n))
    BY DEF Init
  <1>2. NewObject(n) \in Objects /\ Sound(NewObject(n), 0, 0)
    <2>1. n \in Nat
      BY GitCommitAssumption
    <2>2. /\ NewObject(n).sha = 0 /\ NewObject(n).phase = ""
          /\ DOMAIN NewObject(n).calls = {}
      BY DEF NewObject
    <2>3. NewObject(n) \in Objects
      BY <2>1, NewObjectType
    <2>4. Sound(NewObject(n), 0, 0)
      <3>1. NewObject(n).sha <= 0
        BY <2>1 DEF NewObject
      <3>2. NewObject(n).phase # "Committed"
        BY <2>2
      <3>3. \A i \in DOMAIN NewObject(n).calls :
                NewObject(n).calls[i] <= MaxCalls /\ NewObject(n).calls[i] <= 0
        BY <2>2
      <3> QED
        BY <3>1, <3>2, <3>3 DEF Sound
    <2> QED
      BY <2>3, <2>4
  <1>3. versions = <<NewObject(n)>> /\ RV = 1
    BY <1>1 DEF KubeInit, RV
  <1>4. StoreOK
    BY <1>1, <1>2, <1>3 DEF StoreOK, Init, KubeInit
  <1>5. 0 \in 0 .. MaxRetries - 1
    BY GitCommitAssumption
  <1>6. LocalsOK
    BY <1>2, <1>3, <1>5 DEF LocalsOK, Init, PCs, Wants, SlotsFit, CallsLeft,
                            HoldsSha, At
  <1>7. CountersOK
    <2>1. dirty \in [Procs -> BOOLEAN] /\ timer \in [Procs -> BOOLEAN]
      BY <1>1 DEF KubeInit
    <2>2. expired \in BOOLEAN /\ pushes \in Nat /\ apiCalls \in Nat
      BY DEF Init
    <2>3. /\ 0 \in 0 .. MaxEdits /\ 0 \in 0 .. MaxCrashes
          /\ 0 \in 0 .. MaxFaults /\ 0 \in 0 .. MaxStale
      BY GitCommitAssumption
    <2> QED
      BY <2>1, <2>2, <2>3 DEF CountersOK, Init
  <1> QED
    BY <1>4, <1>6, <1>7 DEF IInv

(* The version a Get returns is a sound object.                            *)
LEMMA ViewOK ==
  ASSUME IInv, NEW p \in Procs
  PROVE  /\ Seen(p) \in 1 .. RV /\ View(p) \in Objects
         /\ Sound(View(p), pushes, apiCalls)
  <1>1. RV \in Nat /\ RV >= 1 /\ cached[p] \in 1 .. RV
    BY DEF IInv, StoreOK, RV
  <1>2. Seen(p) \in 1 .. RV
    BY <1>1 DEF Seen
  <1>3. \A k \in 1 .. RV : versions[k] \in Objects /\ Sound(versions[k], pushes, apiCalls)
    BY DEF IInv, StoreOK, RV
  <1> QED
    BY <1>1, <1>2, <1>3 DEF View

LEMMA CurrentOK ==
  ASSUME IInv
  PROVE  /\ RV \in 1 .. RV /\ Current \in Objects
         /\ Sound(Current, pushes, apiCalls)
  BY DEF IInv, StoreOK, RV, Current

LEMMA ReconcileInv ==
  ASSUME IInv, NEW p \in Procs,
         ReconcileGone(p) \/ ReconcileExpired(p) \/ ReconcileSettled(p)
  PROVE  IInv'
  <1> USE DEF IInv, Begin, TakeKey
  <1>1. CountersOK'
    BY DEF ReconcileGone, ReconcileExpired, ReconcileSettled, CountersOK, worldVars,
           boundVars, Requeue
  <1>2. StoreOK'
    <2>1. UNCHANGED <<versions, cached, fresh, pushes, apiCalls>>
      BY DEF ReconcileGone, ReconcileExpired, ReconcileSettled, worldVars, workerVars
    <2>2. pushes <= pushes' /\ apiCalls <= apiCalls' /\ fresh' \in [Procs -> 1 .. RV]
      BY <2>1 DEF CountersOK, StoreOK
    <2> QED
      BY <1>1, <2>1, <2>2, StoreKept
  <1>3. LocalsOK'
    <2>1. CASE ReconcileExpired(p)
      BY <2>1, LocalsMoved DEF ReconcileExpired, worldVars, PCs
    <2>2. CASE ReconcileGone(p) \/ ReconcileSettled(p)
      <3>1. /\ UNCHANGED <<pc, obj, want, tries, api, allMet, pushes, apiCalls>>
        BY <2>2 DEF ReconcileGone, ReconcileSettled, worldVars, workerVars
      <3>2. pushes <= pushes' /\ apiCalls <= apiCalls'
        BY <3>1 DEF CountersOK
      <3> QED
        BY <3>1, <3>2, <1>1, LocalsKept
    <2> QED
      BY <2>1, <2>2
  <1> QED
    BY <1>1, <1>2, <1>3

LEMMA StartInv ==
  ASSUME IInv, NEW p \in Procs, Start(p)
  PROVE  IInv'
  <1> USE DEF IInv, Start, BeginWork
  <1>1. /\ UNCHANGED <<versions, cached, timer, expired, pushes, apiCalls>>
        /\ pushes <= pushes' /\ apiCalls <= apiCalls'
    BY DEF worldVars, CountersOK
  <1>2. CountersOK'
    BY <1>1, GitCommitAssumption DEF CountersOK, Begin, TakeKey
  <1>3. LocalsOK' /\ fresh' = fresh
    BY <1>1, <1>2, ViewOK, UpdateStatusOK DEF Wants
  <1>4. StoreOK'
    BY <1>1, <1>2, <1>3, StoreKept DEF StoreOK
  <1> QED
    BY <1>2, <1>3, <1>4

LEMMA ResumeInv ==
  ASSUME IInv, NEW p \in Procs, Resume(p)
  PROVE  IInv'
  <1> USE DEF IInv, Resume, BeginWork
  <1>1. /\ UNCHANGED <<versions, cached, timer, expired, pushes, apiCalls, fresh>>
        /\ pushes <= pushes' /\ apiCalls <= apiCalls'
    BY DEF worldVars, CountersOK
  <1>2. CountersOK'
    BY <1>1, GitCommitAssumption DEF CountersOK, Begin, TakeKey
  <1>3. View(p) \in Objects /\ Sound(View(p), pushes, apiCalls)
    BY ViewOK
  <1>4. LocalsOK'
    BY <1>1, <1>3 DEF LocalsOK, GoTo, PCs, SlotsFit, CallsLeft, HoldsSha, At
  <1>5. StoreOK'
    BY <1>1, <1>2, StoreKept DEF StoreOK
  <1> QED
    BY <1>2, <1>4, <1>5

(* A Delete appends a version that only differs in gone.                   *)
LEMMA GoneSound ==
  ASSUME NEW o \in Objects, NEW n \in Nat, NEW c \in Nat, Sound(o, n, c)
  PROVE  /\ [o EXCEPT !.gone = TRUE] \in Objects
         /\ Sound([o EXCEPT !.gone = TRUE], n, c)
  BY DEF Objects, Sound

LEMMA DeleteInv ==
  ASSUME IInv, NEW p \in Procs, Delete(p) \/ DeleteFault(p)
  PROVE  IInv'
  <1> USE DEF IInv, Delete, DeleteFault
  <1>1. UNCHANGED <<cached, dirty, expired, pushes, apiCalls, edits, crashes, stale>>
    BY DEF worldVars, boundVars
  <1>a. pushes <= pushes' /\ apiCalls <= apiCalls'
    BY <1>1 DEF CountersOK
  <1>2. CountersOK'
    <2>1. timer' \in [Procs -> BOOLEAN]
      BY DEF CountersOK, Return, Requeue
    <2>2. faults' \in 0 .. MaxFaults
      <3>1. CASE faults' = faults
        BY <3>1 DEF CountersOK
      <3>2. CASE faults < MaxFaults /\ faults' = faults + 1
        BY <3>2, GitCommitAssumption DEF CountersOK
      <3> QED
        BY <3>1, <3>2 DEF boundVars
    <2> QED
      BY <1>1, <2>1, <2>2 DEF CountersOK
  <1>3. LocalsOK' /\ fresh' \in [Procs -> 1 .. RV]
    BY <1>1, LeaveOK DEF Return
  <1>4. StoreOK'
    <2>1. CASE UNCHANGED versions
      BY <1>1, <1>a, <1>2, <1>3, <2>1, StoreKept
    <2>2. CASE Write([Current EXCEPT !.gone = TRUE])
      <3>1. /\ [Current EXCEPT !.gone = TRUE] \in Objects
            /\ Sound([Current EXCEPT !.gone = TRUE], pushes, apiCalls)
        BY CurrentOK, GoneSound DEF CountersOK
      <3> QED
        BY <1>1, <1>3, <2>2, <3>1, StoreWritten
    <2> QED
      BY <2>1, <2>2
  <1> QED
    BY <1>2, <1>3, <1>4

(* updateStatus has returned an error: the reconcile is over.              *)
LEMMA StatusGetInv ==
  ASSUME IInv, NEW p \in Procs, StatusGet(p)
  PROVE  IInv'
  <1> USE DEF IInv
  <1>1. UNCHANGED <<versions, cached, dirty, expired, pushes, apiCalls, edits, crashes,
                    faults, stale>>
    BY DEF StatusGet, worldVars, boundVars
  <1>2. pushes <= pushes' /\ apiCalls <= apiCalls'
    BY <1>1 DEF CountersOK
  <1>3. timer' \in [Procs -> BOOLEAN]
    BY DEF StatusGet, UpdateFailed, Return, Requeue, CountersOK
  <1>4. CountersOK'
    BY <1>1, <1>3 DEF CountersOK
  <1>5. LocalsOK' /\ fresh' \in [Procs -> 1 .. RV]
    <2>1. CASE UpdateFailed(p)
      BY <1>1, <2>1, LeaveOK DEF UpdateFailed, Return
    <2>2. CASE /\ At(p, "get") /\ GoTo(p, "put")
               /\ fresh' = [fresh EXCEPT ![p] = Seen(p)]
               /\ UNCHANGED <<obj, want, tries, api, allMet, timer>>
      <3>1. fresh' \in [Procs -> 1 .. RV]
        BY <2>2, ViewOK DEF StoreOK
      <3>2. LocalsOK'
        BY <1>1, <2>2 DEF LocalsOK, GoTo, PCs, SlotsFit, CallsLeft, HoldsSha, At
      <3> QED
        BY <3>1, <3>2
    <2> QED
      BY <2>1, <2>2 DEF StatusGet
  <1>6. StoreOK'
    BY <1>1, <1>2, <1>4, <1>5, StoreKept
  <1> QED
    BY <1>4, <1>5, <1>6

(* What a worker writes is sound.                                          *)
LEMMA WrittenOK ==
  ASSUME IInv, NEW p \in Procs, At(p, "put")
  PROVE  Written(p) \in Objects /\ Sound(Written(p), pushes, apiCalls)
  <1>1. /\ versions[fresh[p]] \in Objects
        /\ Sound(versions[fresh[p]], pushes, apiCalls)
    BY DEF IInv, StoreOK, RV
  <1>2. /\ obj[p] \in Objects /\ want[p] \in Wants
        /\ Sound(obj[p], pushes, apiCalls)
        /\ want[p] = "Committed" => obj[p].sha > 0
    BY DEF IInv, LocalsOK, HoldsSha, At
  <1>3. pushes \in Nat /\ apiCalls \in Nat
    BY DEF IInv, CountersOK
  <1> QED
    BY <1>1, <1>2, <1>3, MergeType, MergeSound DEF Written

LEMMA PutOkInv ==
  ASSUME IInv, NEW p \in Procs, PutOk(p)
  PROVE  IInv'
  <1> USE DEF IInv
  <1>1. UNCHANGED <<cached, dirty, expired, pushes, apiCalls, edits, crashes, faults, stale>>
    BY DEF PutOk, worldVars, boundVars
  <1>2. Written(p) \in Objects /\ Sound(Written(p), pushes, apiCalls)
    BY WrittenOK DEF PutOk
  <1>3. timer' \in [Procs -> BOOLEAN]
    BY DEF PutOk, UpdateDone, Return, Requeue, CountersOK
  <1>4. CountersOK'
    BY <1>1, <1>3 DEF CountersOK
  <1>5. LocalsOK' /\ fresh' \in [Procs -> 1 .. RV]
    <2>1. CASE want[p] # "Running"
      BY <1>1, <2>1, LeaveOK DEF PutOk, UpdateDone, Return
    <2>2. CASE want[p] = "Running"
      <3>1. /\ GoTo(p, "gate") /\ obj' = [obj EXCEPT ![p] = Written(p)]
            /\ UNCHANGED <<fresh, want, tries, api, allMet>>
        BY <2>2 DEF PutOk, UpdateDone
      <3>2. fresh' \in [Procs -> 1 .. RV]
        BY <3>1 DEF StoreOK
      <3>3. LocalsOK'
        BY <1>1, <1>2, <3>1 DEF LocalsOK, GoTo, PCs, SlotsFit, CallsLeft, HoldsSha, At
      <3> QED
        BY <3>2, <3>3
    <2> QED
      BY <2>1, <2>2
  <1>6. StoreOK'
    BY <1>1, <1>2, <1>5, StoreWritten DEF PutOk
  <1> QED
    BY <1>4, <1>5, <1>6

LEMMA PutRefusedInv ==
  ASSUME IInv, NEW p \in Procs, PutConflict(p) \/ PutNotFound(p)
  PROVE  IInv'
  <1> USE DEF IInv
  <1>1. UNCHANGED <<versions, cached, dirty, expired, pushes, apiCalls, edits, crashes,
                    faults, stale>>
    BY DEF PutConflict, PutNotFound, worldVars, boundVars
  <1>2. pushes <= pushes' /\ apiCalls <= apiCalls'
    BY <1>1 DEF CountersOK
  <1>3. timer' \in [Procs -> BOOLEAN]
    BY DEF PutConflict, PutNotFound, UpdateFailed, Return, Requeue, CountersOK
  <1>4. CountersOK'
    BY <1>1, <1>3 DEF CountersOK
  <1>5. LocalsOK' /\ fresh' \in [Procs -> 1 .. RV]
    <2>1. CASE UpdateFailed(p)
      BY <1>1, <2>1, LeaveOK DEF UpdateFailed, Return
    <2>2. CASE /\ At(p, "put") /\ RetriesLeft(p) /\ GoTo(p, "get")
               /\ tries' = [tries EXCEPT ![p] = @ + 1]
               /\ UNCHANGED <<obj, fresh, want, api, allMet, timer>>
      <3>1. fresh' \in [Procs -> 1 .. RV]
        BY <2>2 DEF StoreOK
      <3>2. tries[p] + 1 \in 0 .. MaxRetries - 1
        BY <2>2, GitCommitAssumption DEF RetriesLeft, LocalsOK
      <3>3. LocalsOK'
        BY <1>1, <2>2, <3>2 DEF LocalsOK, GoTo, PCs, SlotsFit, CallsLeft, HoldsSha, At
      <3> QED
        BY <3>1, <3>3
    <2> QED
      BY <2>1, <2>2 DEF PutConflict, PutNotFound
  <1>6. StoreOK'
    BY <1>1, <1>2, <1>4, <1>5, StoreKept
  <1> QED
    BY <1>4, <1>5, <1>6

LEMMA PutFaultInv ==
  ASSUME IInv, NEW p \in Procs, PutFault(p)
  PROVE  IInv'
  <1> USE DEF IInv
  <1>1. UNCHANGED <<cached, dirty, expired, pushes, apiCalls, edits, crashes, stale>>
    BY DEF PutFault, worldVars
  <1>2. pushes <= pushes' /\ apiCalls <= apiCalls'
    BY <1>1 DEF CountersOK
  <1>3. timer' \in [Procs -> BOOLEAN]
    BY DEF PutFault, UpdateFailed, Return, Requeue, CountersOK
  <1>4. faults' \in 0 .. MaxFaults
    BY GitCommitAssumption DEF PutFault, CountersOK
  <1>5. CountersOK'
    BY <1>1, <1>3, <1>4 DEF CountersOK
  <1>6. LocalsOK' /\ fresh' \in [Procs -> 1 .. RV]
    BY <1>1, LeaveOK DEF PutFault, UpdateFailed, Return
  <1>7. StoreOK'
    <2>1. CASE UNCHANGED versions
      BY <1>1, <1>2, <1>5, <1>6, <2>1, StoreKept
    <2>2. CASE Write(Written(p))
      BY <1>1, <1>6, <2>2, WrittenOK, StoreWritten DEF PutFault
    <2> QED
      BY <2>1, <2>2 DEF PutFault
  <1> QED
    BY <1>5, <1>6, <1>7

(* A step of a worker that calls updateStatus or moves on, and leaves the  *)
(* store and the counters, but for pushes and requests, alone.             *)
LEMMA WorkInv ==
  ASSUME IInv, UNCHANGED <<versions, cached, dirty, timer, expired, edits, crashes,
                           faults, stale>>,
         fresh' = fresh, pushes' \in Nat, apiCalls' \in Nat,
         pushes <= pushes', apiCalls <= apiCalls', LocalsOK'
  PROVE  IInv'
  <1>1. CountersOK'
    BY DEF IInv, CountersOK
  <1>2. StoreOK'
    BY <1>1, StoreKept DEF IInv, StoreOK
  <1> QED
    BY <1>1, <1>2 DEF IInv

(* The counters in the state after such a step.                            *)
LEMMA WorkCounters ==
  ASSUME CountersOK, UNCHANGED <<versions, cached, dirty, timer, expired, edits,
                                 crashes, faults, stale>>,
         pushes' \in {pushes, pushes + 1}, apiCalls' \in {apiCalls, apiCalls + 1}
  PROVE  /\ CountersOK' /\ pushes <= pushes' /\ apiCalls <= apiCalls'
         /\ pushes' \in Nat /\ apiCalls' \in Nat
  BY DEF CountersOK

LEMMA GateInv ==
  ASSUME IInv, NEW p \in Procs, GateOpen(p) \/ GateTripped(p) \/ GateRest(p)
  PROVE  IInv'
  <1>1. UNCHANGED <<versions, cached, dirty, timer, expired, edits, crashes, faults,
                    stale, pushes, apiCalls>>
    BY DEF GateOpen, GateTripped, GateRest, kubeVars, worldVars, boundVars
  <1>2. /\ CountersOK' /\ pushes <= pushes' /\ apiCalls <= apiCalls'
        /\ pushes' \in Nat /\ apiCalls' \in Nat
    BY <1>1, WorkCounters DEF IInv
  <1>3. /\ obj[p] \in Objects /\ Sound(obj[p], pushes, apiCalls)
        /\ pushes \in Nat /\ apiCalls \in Nat
    BY DEF IInv, LocalsOK, CountersOK
  <1>4. CASE GateOpen(p)
    <2>1. LocalsOK' /\ fresh' = fresh
      BY <1>1, <1>4, LocalsMoved DEF GateOpen, IInv, PCs
    <2> QED
      BY <1>1, <1>2, <2>1, WorkInv
  <1>5. CASE GateTripped(p)
    <2>1. LocalsOK' /\ fresh' = fresh
      BY <1>1, <1>2, <1>3, <1>5, UpdateStatusOK DEF GateTripped, IInv, Wants
    <2> QED
      BY <1>1, <1>2, <2>1, WorkInv
  <1>6. CASE GateRest(p)
    <2> DEFINE o == [obj[p] EXCEPT !.calls = StatusSlots(obj[p])]
    <2>1. /\ o \in Objects /\ Sound(o, pushes, apiCalls)
          /\ o.calls = StatusSlots(obj[p]) /\ o.apis = obj[p].apis
          /\ Len(o.calls) = o.apis /\ 1 \in 1 .. o.apis
      <3>1. o \in Objects /\ Sound(o, pushes, apiCalls)
        BY <1>3, SlotsSound
      <3>2. o.calls = StatusSlots(obj[p]) /\ o.apis = obj[p].apis
        BY <1>3 DEF Objects
      <3>3. Len(o.calls) = o.apis
        BY <1>3, <3>2, StatusSlotsType
      <3>4. obj[p].apis \in Nat /\ obj[p].apis > 0
        BY <1>3, <1>6 DEF Objects, GateRest
      <3>5. 1 \in 1 .. o.apis
        BY <3>2, <3>4
      <3> QED
        BY <3>1, <3>2, <3>3, <3>5
    <2>2. \A i \in 1 .. o.apis : o.calls[i] < MaxCalls
      <3>1. \A i \in DOMAIN obj[p].calls :
                obj[p].calls[i] \in Nat /\ ~(obj[p].calls[i] >= MaxCalls)
        BY <1>3, <1>6 DEF GateRest, Tripped, Objects
      <3>2. MaxCalls \in Nat /\ 0 < MaxCalls
        BY GitCommitAssumption
      <3>3. CASE Len(obj[p].calls) = obj[p].apis
        <4>1. o.calls = obj[p].calls /\ DOMAIN obj[p].calls = 1 .. o.apis
          BY <1>3, <2>1, <3>3 DEF StatusSlots, Objects
        <4> HIDE DEF o
        <4> QED
          BY <3>1, <3>2, <4>1
      <3>4. CASE Len(obj[p].calls) # obj[p].apis
        <4>1. o.calls = [i \in 1 .. o.apis |-> 0]
          BY <2>1, <3>4 DEF StatusSlots
        <4> HIDE DEF o
        <4> QED
          BY <3>2, <4>1
      <3> QED
        BY <3>3, <3>4
    <2>3. /\ GoTo(p, "rest") /\ obj' = [obj EXCEPT ![p] = o]
          /\ api' = [api EXCEPT ![p] = 1] /\ allMet' = [allMet EXCEPT ![p] = TRUE]
          /\ UNCHANGED <<fresh, want, tries>>
      BY <1>6 DEF GateRest
    <2> HIDE DEF o
    <2>4. LocalsOK'
      BY <1>1, <2>1, <2>2, <2>3 DEF IInv, LocalsOK, GoTo, PCs, SlotsFit, CallsLeft,
                                     HoldsSha, At
    <2> QED
      BY <1>1, <1>2, <2>3, <2>4, WorkInv
  <1> QED
    BY <1>4, <1>5, <1>6

(* The object with the request counted is sound once the request is.       *)
LEMMA CountedOK ==
  ASSUME IInv, NEW p \in Procs, At(p, "rest")
  PROVE  /\ obj[p] \in Objects /\ Sound(obj[p], pushes, apiCalls)
         /\ ~AtLimit(p)
         /\ Counted(p) \in Objects /\ Sound(Counted(p), pushes, apiCalls + 1)
         /\ Counted(p).apis = obj[p].apis
         /\ Len(Counted(p).calls) = obj[p].apis
         /\ \A i \in api[p] + 1 .. obj[p].apis :
                Counted(p).calls[i] = obj[p].calls[i]
  <1>1. /\ obj[p] \in Objects /\ Sound(obj[p], pushes, apiCalls)
        /\ pushes \in Nat /\ apiCalls \in Nat
    BY DEF IInv, LocalsOK, CountersOK
  <1>2. /\ Len(obj[p].calls) = obj[p].apis /\ api[p] \in 1 .. obj[p].apis
        /\ obj[p].calls[api[p]] < MaxCalls
    BY <1>1 DEF IInv, LocalsOK, SlotsFit, CallsLeft, Objects
  <1>3. ~AtLimit(p)
    BY <1>1, <1>2, GitCommitAssumption DEF AtLimit, Objects
  <1>4. Counted(p) = [obj[p] EXCEPT !.calls[api[p]] = @ + 1]
    BY DEF Counted
  <1>5. Counted(p) \in Objects /\ Sound(Counted(p), pushes, apiCalls + 1)
    <2>1. api[p] \in 1 .. Len(obj[p].calls)
      BY <1>2
    <2>2. Counted(p) \in Objects
      <3> DEFINE o == obj[p]
      <3>1. o \in Objects /\ api[p] \in 1 .. Len(o.calls)
        BY <1>1, <2>1
      <3> HIDE DEF o
      <3>2. [o EXCEPT !.calls[api[p]] = @ + 1] \in Objects
        BY <3>1, CountType
      <3> QED
        BY <1>4, <3>2 DEF o
    <2>3. Sound(Counted(p), pushes, apiCalls + 1)
      <3> DEFINE o == obj[p]
      <3>1. /\ o \in Objects /\ api[p] \in 1 .. Len(o.calls) /\ pushes \in Nat
            /\ apiCalls \in Nat /\ Sound(o, pushes, apiCalls)
            /\ o.calls[api[p]] < MaxCalls
        BY <1>1, <1>2, <2>1
      <3> HIDE DEF o
      <3>2. Sound([o EXCEPT !.calls[api[p]] = @ + 1], pushes, apiCalls + 1)
        BY <3>1, CountSound
      <3> QED
        BY <3>2, <1>4 DEF o
    <2> QED
      BY <2>2, <2>3
  <1>6. /\ Len(Counted(p).calls) = obj[p].apis
        /\ \A j \in 1 .. Len(obj[p].calls) : j # api[p] =>
                Counted(p).calls[j] = obj[p].calls[j]
    BY <1>1, <1>2, <1>4, CountType
  <1>7. Counted(p).apis = obj[p].apis
    BY <1>1 DEF Counted, Objects
  <1>8. \A i \in api[p] + 1 .. obj[p].apis : i \in 1 .. Len(obj[p].calls) /\ i # api[p]
    BY <1>1, <1>2 DEF Objects
  <1> QED
    BY <1>1, <1>3, <1>5, <1>6, <1>7, <1>8

LEMMA RestAnswerInv ==
  ASSUME IInv, NEW p \in Procs, RestAnswer(p)
  PROVE  IInv'
  <1>1. PICK met \in BOOLEAN : /\ NextApi(p, Counted(p), allMet[p] /\ met)
                               /\ apiCalls' = apiCalls + 1
    BY CountedOK DEF RestAnswer
  <1>2. UNCHANGED <<versions, cached, dirty, timer, expired, pushes, edits, crashes,
                    faults, stale>>
    BY DEF RestAnswer, kubeVars, boundVars
  <1>3. /\ CountersOK' /\ pushes <= pushes' /\ apiCalls <= apiCalls'
        /\ pushes' \in Nat /\ apiCalls' \in Nat
    BY <1>1, <1>2, WorkCounters DEF IInv
  <1>4. /\ At(p, "rest") /\ allMet[p] \in BOOLEAN /\ (allMet[p] /\ met) \in BOOLEAN
    BY DEF RestAnswer, IInv, LocalsOK
  <1>5. \A q \in Procs : Sound(obj[q], pushes', apiCalls')
    BY <1>2, <1>3, SoundGrows DEF IInv, LocalsOK, CountersOK
  <1>6. Counted(p) \in Objects /\ Sound(Counted(p), pushes', apiCalls')
    BY <1>1, <1>2, <1>4, CountedOK
  <1>7. LocalsOK' /\ fresh' = fresh
    <2>1. CASE api[p] < Counted(p).apis
      <3>1. /\ api' = [api EXCEPT ![p] = @ + 1]
            /\ allMet' = [allMet EXCEPT ![p] = allMet[p] /\ met]
            /\ obj' = [obj EXCEPT ![p] = Counted(p)]
            /\ UNCHANGED <<pc, fresh, want, tries>>
        BY <1>1, <2>1 DEF NextApi
      <3>2. /\ api[p] + 1 \in 1 .. Counted(p).apis
            /\ \A i \in api[p] + 1 .. Counted(p).apis : Counted(p).calls[i] < MaxCalls
            /\ Len(Counted(p).calls) = Counted(p).apis
        <4>1. /\ obj[p] \in Objects /\ Counted(p).apis = obj[p].apis
              /\ Len(Counted(p).calls) = obj[p].apis
              /\ \A i \in api[p] + 1 .. obj[p].apis :
                     Counted(p).calls[i] = obj[p].calls[i]
          BY <1>4, CountedOK
        <4>2. /\ api[p] \in 1 .. obj[p].apis
              /\ \A i \in api[p] .. obj[p].apis : obj[p].calls[i] < MaxCalls
          BY <1>4 DEF IInv, LocalsOK, CallsLeft, SlotsFit
        <4>3. obj[p].apis \in Nat
          BY <4>1 DEF Objects
        <4>4. api[p] + 1 \in 1 .. obj[p].apis
          BY <2>1, <4>1, <4>2, <4>3
        <4>5. \A i \in api[p] + 1 .. obj[p].apis : i \in api[p] .. obj[p].apis
          BY <4>2, <4>3
        <4> QED
          BY <4>1, <4>2, <4>4, <4>5
      <3>3. allMet' \in [Procs -> BOOLEAN]
        BY <1>4, <3>1 DEF IInv, LocalsOK
      <3> QED
        BY <1>4, <1>5, <1>6, <3>1, <3>2, <3>3
           DEF IInv, LocalsOK, SlotsFit, CallsLeft, HoldsSha, At
    <2>2. CASE ~(api[p] < Counted(p).apis) /\ allMet[p] /\ met
      <3>1. /\ GoTo(p, "auth") /\ obj' = [obj EXCEPT ![p] = Counted(p)]
            /\ UNCHANGED <<fresh, want, tries, api, allMet>>
        BY <1>1, <2>2 DEF NextApi
      <3> QED
        BY <1>5, <1>6, <3>1
           DEF IInv, LocalsOK, GoTo, PCs, SlotsFit, CallsLeft, HoldsSha, At
    <2>3. CASE ~(api[p] < Counted(p).apis) /\ ~(allMet[p] /\ met)
      <3>1. UpdateStatus(p, Counted(p), "Pending")
        BY <1>1, <2>3 DEF NextApi
      <3> QED
        BY <1>3, <1>6, <3>1, UpdateStatusOK DEF IInv, Wants
    <2> QED
      BY <2>1, <2>2, <2>3
  <1> QED
    BY <1>2, <1>3, <1>7, WorkInv

LEMMA RestErrorInv ==
  ASSUME IInv, NEW p \in Procs, RestError(p)
  PROVE  IInv'
  <1>1. UNCHANGED <<versions, cached, dirty, timer, expired, pushes, edits, crashes,
                    faults, stale>>
    BY DEF RestError, kubeVars, boundVars
  <1>2. /\ CountersOK' /\ pushes <= pushes' /\ apiCalls <= apiCalls'
        /\ pushes' \in Nat /\ apiCalls' \in Nat
    BY <1>1, WorkCounters DEF IInv, RestError
  <1>3. PICK o \in {obj[p], Counted(p)} :
            /\ UpdateStatus(p, o, "Failed")
            /\ o \in Objects /\ Sound(o, pushes', apiCalls')
    BY <1>1, CountedOK DEF RestError
  <1>4. LocalsOK' /\ fresh' = fresh
    BY <1>2, <1>3, UpdateStatusOK DEF IInv, Wants
  <1> QED
    BY <1>1, <1>2, <1>4, WorkInv

LEMMA AuthInv ==
  ASSUME IInv, NEW p \in Procs, Auth(p)
  PROVE  IInv'
  <1>1. UNCHANGED <<versions, cached, dirty, timer, expired, edits, crashes, faults,
                    stale, pushes, apiCalls>>
    BY DEF Auth, kubeVars, worldVars, boundVars
  <1>2. /\ CountersOK' /\ pushes <= pushes' /\ apiCalls <= apiCalls'
        /\ pushes' \in Nat /\ apiCalls' \in Nat
    BY <1>1, WorkCounters DEF IInv
  <1>3. obj[p] \in Objects /\ Sound(obj[p], pushes', apiCalls')
    BY <1>1 DEF IInv, LocalsOK
  <1>4. CASE UpdateStatus(p, obj[p], "Failed")
    <2>1. LocalsOK' /\ fresh' = fresh
      BY <1>2, <1>3, <1>4, UpdateStatusOK DEF IInv, Wants
    <2> QED
      BY <1>1, <1>2, <2>1, WorkInv
  <1>5. CASE GoTo(p, "git") /\ UNCHANGED <<obj, fresh, want, tries, api, allMet>>
    <2>1. LocalsOK'
      BY <1>1, <1>5, LocalsMoved DEF IInv, PCs
    <2> QED
      BY <1>1, <1>2, <1>5, <2>1, WorkInv
  <1> QED
    BY <1>4, <1>5 DEF Auth

LEMMA GitInv ==
  ASSUME IInv, NEW p \in Procs, GitPushed(p) \/ GitFailed(p)
  PROVE  IInv'
  <1>1. UNCHANGED <<versions, cached, dirty, timer, expired, edits, crashes, faults,
                    stale, apiCalls>>
    BY DEF GitPushed, GitFailed, kubeVars, boundVars
  <1>2. /\ CountersOK' /\ pushes <= pushes' /\ apiCalls <= apiCalls'
        /\ pushes' \in Nat /\ apiCalls' \in Nat
    BY <1>1, WorkCounters DEF IInv, GitPushed, GitFailed
  <1>3. /\ obj[p] \in Objects /\ Sound(obj[p], pushes, apiCalls)
        /\ pushes \in Nat /\ apiCalls \in Nat
    BY DEF IInv, LocalsOK, CountersOK
  <1>4. Sound(obj[p], pushes', apiCalls')
    BY <1>2, <1>3, SoundGrows
  <1>5. CASE GitFailed(p)
    <2>1. LocalsOK' /\ fresh' = fresh
      BY <1>2, <1>3, <1>4, <1>5, UpdateStatusOK DEF IInv, Wants, GitFailed
    <2> QED
      BY <1>1, <1>2, <2>1, WorkInv
  <1>6. CASE GitPushed(p)
    <2> DEFINE o == [obj[p] EXCEPT !.sha = pushes + 1]
    <2> DEFINE n == pushes + 1
    <2>0. pushes' = n /\ n \in Nat /\ n > 0
      BY <1>3, <1>6 DEF GitPushed
    <2>1. /\ o \in Objects /\ o.sha > 0
          /\ o.sha = pushes' /\ o.calls = obj[p].calls
      <3> HIDE DEF n
      <3>1. [obj[p] EXCEPT !.sha = n] \in Objects
        BY <1>3, <2>0 DEF Objects
      <3>2. [obj[p] EXCEPT !.sha = n].sha = n /\ [obj[p] EXCEPT !.sha = n].calls = obj[p].calls
        BY <1>3 DEF Objects
      <3> QED
        BY <2>0, <3>1, <3>2 DEF n
    <2>2. Sound(o, pushes', apiCalls')
      BY <1>2, <1>4, <2>1 DEF Sound
    <2>3. UpdateStatus(p, o, "Committed")
      BY <1>6 DEF GitPushed
    <2> HIDE DEF o
    <2>4. LocalsOK' /\ fresh' = fresh
      BY <1>2, <2>1, <2>2, <2>3, UpdateStatusOK DEF IInv, Wants
    <2> QED
      BY <1>1, <1>2, <2>4, WorkInv
  <1> QED
    BY <1>5, <1>6

(* The environment.                                                        *)

LEMMA WatchTimerInv ==
  ASSUME IInv, NEW p \in Procs, Watch(p) \/ Timer(p)
  PROVE  IInv'
  <1> USE DEF IInv
  <1>1. /\ UNCHANGED <<versions, pc, obj, fresh, want, tries, api, allMet>>
        /\ UNCHANGED <<expired, pushes, apiCalls, edits, crashes, faults, stale>>
    BY DEF Watch, Timer, Deliver, TimerFire, workerVars, worldVars, boundVars
  <1>2. dirty' \in [Procs -> BOOLEAN] /\ timer' \in [Procs -> BOOLEAN]
    BY DEF CountersOK, Watch, Timer, Deliver, TimerFire
  <1>3. /\ CountersOK' /\ pushes <= pushes' /\ apiCalls <= apiCalls'
    BY <1>1, <1>2 DEF CountersOK
  <1>4. cached' \in [Procs -> 1 .. RV]
    <2>1. RV \in Nat /\ cached \in [Procs -> 1 .. RV]
      BY DEF StoreOK, RV
    <2>2. CASE Watch(p)
      <3>1. cached[p] + 1 \in 1 .. RV
        BY <2>1, <2>2 DEF Watch, Deliver
      <3> QED
        BY <2>1, <2>2, <3>1 DEF Watch, Deliver
    <2>3. CASE Timer(p)
      BY <2>1, <2>3 DEF Timer, TimerFire
    <2> QED
      BY <2>2, <2>3
  <1>5. StoreOK'
    BY <1>1, <1>4 DEF StoreOK, RV
  <1>6. LocalsOK'
    BY <1>1, <1>3, LocalsKept
  <1> QED
    BY <1>3, <1>5, <1>6

LEMMA CrashInv ==
  ASSUME IInv, NEW p \in Procs, Crash(p)
  PROVE  IInv'
  <1> USE DEF IInv
  <1>1. UNCHANGED <<versions, expired, pushes, apiCalls, edits, faults, stale>>
    BY DEF Crash, Relist, worldVars
  <1>2. Current \in Objects
    BY CurrentOK
  <1>3. dirty' \in [Procs -> BOOLEAN] /\ timer' \in [Procs -> BOOLEAN]
    BY <1>2 DEF Crash, Relist, CountersOK, Objects
  <1>4. crashes' \in 0 .. MaxCrashes
    BY GitCommitAssumption DEF Crash, CountersOK
  <1>5. CountersOK'
    BY <1>1, <1>3, <1>4 DEF CountersOK
  <1>6. LocalsOK' /\ fresh' \in [Procs -> 1 .. RV]
    BY <1>1, LeaveOK DEF Crash
  <1>7. cached' \in [Procs -> 1 .. RV]
    <2>1. RV \in 1 .. RV /\ cached' = [cached EXCEPT ![p] = RV]
      BY CurrentOK DEF Crash, Relist
    <2> QED
      BY <2>1 DEF StoreOK
  <1>8. StoreOK'
    BY <1>1, <1>6, <1>7 DEF StoreOK, RV
  <1> QED
    BY <1>5, <1>6, <1>8

LEMMA UserInv ==
  ASSUME IInv, UserEdit \/ UserDelete \/ TTLPasses
  PROVE  IInv'
  <1> USE DEF IInv
  <1>1. UNCHANGED <<cached, dirty, timer, pc, obj, fresh, want, tries, api, allMet,
                    pushes, apiCalls, crashes, faults, stale>>
    BY DEF UserEdit, UserDelete, TTLPasses, kubeVars, workerVars, worldVars, boundVars
  <1>2. edits' \in 0 .. MaxEdits /\ expired' \in BOOLEAN
    <2>1. CASE UserEdit
      BY <2>1, GitCommitAssumption DEF UserEdit, CountersOK, worldVars
    <2>2. CASE UserDelete \/ TTLPasses
      BY <2>2 DEF UserDelete, TTLPasses, CountersOK, worldVars, boundVars
    <2> QED
      BY <2>1, <2>2
  <1>3. CountersOK' /\ pushes <= pushes' /\ apiCalls <= apiCalls'
    BY <1>1, <1>2 DEF CountersOK
  <1>4. LocalsOK'
    BY <1>1, <1>3, LocalsKept
  <1>5. fresh' \in [Procs -> 1 .. RV]
    BY <1>1 DEF StoreOK
  <1>6. /\ Current \in Objects /\ Sound(Current, pushes, apiCalls)
        /\ pushes \in Nat /\ apiCalls \in Nat
    BY CurrentOK DEF CountersOK
  <1>7. CASE TTLPasses
    BY <1>1, <1>3, <1>4, <1>5, <1>7, StoreKept DEF TTLPasses, kubeVars
  <1>8. CASE UserDelete
    <2>1. StoreOK'
      BY <1>1, <1>5, <1>6, <1>8, GoneSound, StoreWritten DEF UserDelete
    <2> QED
      BY <1>3, <1>4, <2>1
  <1>9. CASE UserEdit
    <2>1. PICK n \in ApiCounts : Write([Current EXCEPT !.apis = n])
      BY <1>9 DEF UserEdit
    <2>2. /\ [Current EXCEPT !.apis = n] \in Objects
          /\ Sound([Current EXCEPT !.apis = n], pushes, apiCalls)
      BY <1>6, GitCommitAssumption DEF Objects, Sound
    <2>3. StoreOK'
      BY <1>1, <1>5, <2>1, <2>2, StoreWritten
    <2> QED
      BY <1>3, <1>4, <2>3
  <1> QED
    BY <1>7, <1>8, <1>9

LEMMA StutterInv == ASSUME IInv, UNCHANGED vars PROVE IInv'
  <1> USE DEF IInv, vars, kubeVars, workerVars, worldVars, boundVars
  <1>1. /\ CountersOK' /\ pushes <= pushes' /\ apiCalls <= apiCalls'
    BY DEF CountersOK
  <1>2. LocalsOK'
    BY <1>1, LocalsKept
  <1>3. StoreOK'
    BY DEF StoreOK, RV
  <1> QED
    BY <1>1, <1>2, <1>3

-----------------------------------------------------------------------------
(* The invariant holds in every reachable state, for any number of         *)
(* replicas, cache lag, crashes, faults and edits of the user.             *)
THEOREM Invariance == Spec => []IInv
  <1>1. Init => IInv
    BY InitInv
  <1>2. IInv /\ [Next]_vars => IInv'
    <2> SUFFICES ASSUME IInv, [Next]_vars PROVE IInv'
      OBVIOUS
    <2>1. ASSUME NEW p \in Procs, Step(p) PROVE IInv'
      BY <2>1, ReconcileInv, StartInv, ResumeInv, DeleteInv, StatusGetInv, PutOkInv,
         PutRefusedInv, GateInv, RestAnswerInv, RestErrorInv, AuthInv, GitInv DEF Step
    <2>2. ASSUME NEW p \in Procs, Watch(p) \/ Timer(p) PROVE IInv'
      BY <2>2, WatchTimerInv
    <2>3. ASSUME NEW p \in Procs, PutFault(p) \/ DeleteFault(p) \/ Crash(p) PROVE IInv'
      BY <2>3, PutFaultInv, DeleteInv, CrashInv
    <2>4. CASE UserEdit \/ UserDelete \/ TTLPasses
      BY <2>4, UserInv
    <2>5. CASE UNCHANGED vars
      BY <2>5, StutterInv
    <2> QED
      BY <2>1, <2>2, <2>3, <2>4, <2>5 DEF Next, System, Environment
  <1> QED
    BY <1>1, <1>2, PTL DEF Spec

(* Type correctness.                                                       *)
THEOREM TypeCorrect == Spec => []TypeOK
  <1>1. IInv => TypeOK
    BY DEF IInv, StoreOK, LocalsOK, CountersOK, TypeOK
  <1> QED
    BY <1>1, Invariance, PTL

(* A status that says Committed, or carries a CommitSHA, names a push that *)
(* was made.                                                               *)
THEOREM CommittedWasPushed == Spec => []CommittedIsPushed
  <1>1. IInv => CommittedIsPushed
    BY DEF IInv, StoreOK, Sound, CommittedIsPushed
  <1> QED
    BY <1>1, Invariance, PTL

(* The published call counts respect the circuit breaker and never exceed  *)
(* the requests that were made.                                            *)
THEOREM BreakerHolds == Spec => [](BreakerBound /\ NoOvercount)
  <1>1. IInv => BreakerBound /\ NoOvercount
    BY DEF IInv, StoreOK, Sound, BreakerBound, NoOvercount
  <1> QED
    BY <1>1, Invariance, PTL

(* The entry of RestAPIStatuses that is used always exists, and the second *)
(* circuit breaker is dead code.                                           *)
THEOREM InnerBreakerIsDead == Spec => [](SlotsFit /\ InnerBreakerIdle)
  <1>1. IInv => SlotsFit /\ InnerBreakerIdle
    BY CountedOK DEF IInv, LocalsOK, InnerBreakerIdle
  <1> QED
    BY <1>1, Invariance, PTL

-----------------------------------------------------------------------------
(* A write that is derived from the current version keeps its CommitSHA,   *)
(* or puts another in its place.                                           *)
LEMMA ShaWritten ==
  ASSUME IInv, NEW o \in Objects, Write(o), Current.sha # 0 => o.sha # 0
  PROVE  Current.sha # 0 => Current'.sha # 0
  BY WriteType DEF IInv, StoreOK

(* An accepted put is merged into the version that is current.             *)
LEMMA PutKeepsSha ==
  ASSUME IInv, NEW p \in Procs, At(p, "put"), fresh[p] = RV, Write(Written(p))
  PROVE  Current.sha # 0 => Current'.sha # 0
  <1>1. Written(p) \in Objects
    BY WrittenOK
  <1>2. Current \in Objects /\ obj[p] \in Objects
    BY CurrentOK DEF IInv, LocalsOK
  <1>3. Current.sha # 0 => Written(p).sha # 0
    BY <1>2 DEF Written, Merge, Current, Objects
  <1> QED
    BY <1>1, <1>3, ShaWritten

(* A published CommitSHA is never taken back, for any number of replicas   *)
(* on caches however old: a put is only accepted on top of the version it  *)
(* was merged into, and the merge keeps the CommitSHA.                     *)
THEOREM ShaIsKept == Spec => ShaNeverErased
  <1> DEFINE Kept == Current.sha # 0 => Current'.sha # 0
  <1>1. ASSUME IInv, [Next]_vars PROVE Kept
    <2>1. CASE UNCHANGED versions
      BY <2>1 DEF Current, RV
    <2>2. ASSUME NEW p \in Procs, PutOk(p) \/ PutFault(p), ~UNCHANGED versions
          PROVE  Kept
      <3>1. At(p, "put") /\ fresh[p] = RV /\ Write(Written(p))
        BY <2>2 DEF PutOk, PutFault
      <3> QED
        BY <1>1, <3>1, PutKeepsSha
    <2>3. ASSUME NEW o \in Objects, Write(o), o.sha = Current.sha
          PROVE  Kept
      BY <1>1, <2>3, ShaWritten
    <2>4. [Current EXCEPT !.gone = TRUE] \in Objects
          /\ [Current EXCEPT !.gone = TRUE].sha = Current.sha
      BY <1>1, CurrentOK DEF Objects
    <2>5. ASSUME NEW p \in Procs, Delete(p) \/ DeleteFault(p), ~UNCHANGED versions
          PROVE  Kept
      BY <2>3, <2>4, <2>5 DEF Delete, DeleteFault
    <2>6. CASE UserDelete
      BY <2>3, <2>4, <2>6 DEF UserDelete
    <2>7. CASE UserEdit
      <3>1. PICK n \in ApiCounts : Write([Current EXCEPT !.apis = n])
        BY <2>7 DEF UserEdit
      <3>2. /\ [Current EXCEPT !.apis = n] \in Objects
            /\ [Current EXCEPT !.apis = n].sha = Current.sha
        BY <1>1, CurrentOK, GitCommitAssumption DEF Objects
      <3> QED
        BY <2>3, <3>1, <3>2
    <2>8. CASE ~UNCHANGED versions
      <3>1. ASSUME NEW p \in Procs, System(p)
            PROVE  PutOk(p) \/ Delete(p)
        BY <2>8, <3>1
           DEF System, Step, ReconcileGone, ReconcileExpired, ReconcileSettled,
               Start, Resume, BeginWork, StatusGet, PutConflict, PutNotFound,
               GateOpen, GateTripped, GateRest, RestAnswer, RestError, Auth,
               GitPushed, GitFailed, Watch, Timer, Deliver, TimerFire, kubeVars
      <3>2. ASSUME Environment
            PROVE  \/ \E p \in Procs : PutFault(p) \/ DeleteFault(p)
                   \/ UserEdit \/ UserDelete
        BY <2>8, <3>2 DEF Environment, Crash, Relist, TTLPasses, kubeVars
      <3>3. Next
        BY <1>1, <2>8 DEF vars, kubeVars
      <3> HIDE DEF Kept
      <3> QED
        BY <2>2, <2>5, <2>6, <2>7, <3>1, <3>2, <3>3, <2>8 DEF Next
    <2> QED
      BY <2>1, <2>8
  <1>2. IInv /\ [Next]_vars => [Kept]_vars
    BY <1>1
  <1>3. [Kept]_vars => [Current.sha # 0 => versions'[Len(versions')].sha # 0]_vars
    BY DEF Current, RV
  <1> QED
    BY <1>2, <1>3, Invariance, PTL DEF Spec, ShaNeverErased

-----------------------------------------------------------------------------
(* No wake-up is lost, for any number of processes on caches however old.  *)

(* A write is an event for everybody.                                      *)
LEMMA AwakeWritten ==
  ASSUME IInv, AwakeOK, NEW o \in Objects, ~Current.gone, Write(o), UNCHANGED cached,
         \A q \in Procs : At(q, "put")' => At(q, "put") /\ fresh'[q] = fresh[q]
  PROVE  AwakeOK'
  <1>1. /\ RV \in Nat /\ RV' = RV + 1 /\ versions'[RV + 1] = o
        /\ \A k \in 1 .. RV : versions'[k] = versions[k]
    BY WriteType DEF IInv, StoreOK
  <1>2. \A q \in Procs : cached[q] \in 1 .. RV /\ fresh[q] \in 1 .. RV
    BY DEF IInv, StoreOK
  <1>3. \A q \in Procs : Alert(q)'
    BY <1>1, <1>2 DEF Alert
  <1>4. \A k \in 1 .. RV : ~versions[k].gone
    BY DEF AwakeOK, GoneIsLast, Current
  <1>5. GoneIsLast'
    <2> SUFFICES ASSUME NEW k \in 1 .. RV', versions'[k].gone PROVE k = RV'
      BY DEF GoneIsLast
    <2>1. k \in 1 .. RV \/ k = RV + 1
      BY <1>1
    <2> QED
      BY <1>1, <1>4, <2>1
  <1>6. ASSUME NEW q \in Procs PROVE WatchOK(q)'
    <2>1. At(q, "put")' => ~versions'[fresh'[q]].gone
      BY <1>1, <1>2, <1>4
    <2> QED
      BY <1>3, <2>1 DEF WatchOK
  <1> QED
    BY <1>5, <1>6 DEF AwakeOK

(* A step of p alone.                                                      *)
Alone(p) ==
    \A q \in Procs : q # p =>
        /\ pc'[q] = pc[q] /\ obj'[q] = obj[q] /\ fresh'[q] = fresh[q]
        /\ want'[q] = want[q] /\ dirty'[q] = dirty[q] /\ timer'[q] = timer[q]
        /\ cached'[q] = cached[q]

LEMMA AwakeQuiet ==
  ASSUME IInv, AwakeOK, UNCHANGED versions, NEW p \in Procs, Alone(p),
         faults' \in Nat, faults <= faults', WatchOK(p)'
  PROVE  AwakeOK'
  <1>1. RV' = RV /\ Current' = Current /\ GoneIsLast'
    BY DEF RV, Current, AwakeOK, GoneIsLast
  <1>2. Stuck => Stuck'
    BY <1>1 DEF Stuck, IInv, CountersOK
  <1>3. ASSUME NEW q \in Procs, q # p PROVE WatchOK(q)'
    <2>1. WatchOK(q)
      BY DEF AwakeOK
    <2>2. Alert(q)' <=> Alert(q)
      BY <1>1, <1>3 DEF Alert, Alone
    <2>3. SeesTheLimit(q) <=> SeesTheLimit(q)'
      BY <1>1, <1>3 DEF SeesTheLimit, Alone, At
    <2>4. BeforeBreaker(q) <=> BeforeBreaker(q)'
      BY <1>3 DEF BeforeBreaker, Alone, At
    <2> QED
      BY <1>1, <1>2, <1>3, <2>1, <2>2, <2>3, <2>4 DEF WatchOK, Alone, At
  <1> QED
    BY <1>1, <1>3 DEF AwakeOK

LEMMA LeaveAlone ==
  ASSUME IInv, NEW p \in Procs, NEW again, Return(p, again), UNCHANGED <<cached, dirty>>
  PROVE  Alone(p)
  BY DEF Alone, Return, Leave, GoTo, Requeue, IInv, LocalsOK, StoreOK, CountersOK

LEMMA UpdateAlone ==
  ASSUME IInv, NEW p \in Procs, NEW o, NEW w, UpdateStatus(p, o, w),
         UNCHANGED <<cached, timer>>, UNCHANGED dirty \/ TakeKey(p)
  PROVE  /\ Alone(p) /\ pc'[p] = "get" /\ obj'[p] = o /\ want'[p] = w
         /\ fresh' = fresh
  BY DEF Alone, UpdateStatus, GoTo, TakeKey, IInv, LocalsOK, StoreOK, CountersOK

LEMMA MoveAlone ==
  ASSUME IInv, NEW p \in Procs, NEW l, GoTo(p, l),
         UNCHANGED <<cached, timer, want>>,
         UNCHANGED dirty \/ TakeKey(p),
         UNCHANGED obj \/ \E o : obj' = [obj EXCEPT ![p] = o],
         UNCHANGED fresh \/ \E k : fresh' = [fresh EXCEPT ![p] = k]
  PROVE  Alone(p) /\ pc'[p] = l
  BY DEF Alone, GoTo, TakeKey, IInv, LocalsOK, StoreOK, CountersOK

(* A reconcile that comes back later, or need not.                         *)
LEMMA AwakeReturn ==
  ASSUME IInv, AwakeOK, NEW p \in Procs, NEW again \in BOOLEAN, Return(p, again),
         UNCHANGED <<versions, cached, dirty>>, faults' \in Nat, faults <= faults',
         again \/ Alert(p) \/ Stuck'
  PROVE  AwakeOK'
  <1>1. timer'[p] = (timer[p] \/ again)
    BY DEF Return, Requeue, IInv, CountersOK
  <1>2. pc'[p] = "idle"
    BY DEF Return, Leave, GoTo, IInv, LocalsOK
  <1>3. again \/ Alert(p) => Alert(p)'
    BY <1>1 DEF Alert, RV, Current
  <1>4. WatchOK(p)'
    BY <1>2, <1>3 DEF WatchOK, BeforeBreaker, At
  <1> QED
    BY <1>4, LeaveAlone, AwakeQuiet

(* A reconcile that goes on, away from the breaker.                        *)
LEMMA AwakeMoved ==
  ASSUME IInv, AwakeOK, UNCHANGED <<versions, faults>>, NEW p \in Procs, Alone(p),
         \/ pc'[p] \in {"delete", "rest", "auth", "git"}
         \/ pc'[p] = "get" /\ want'[p] # "Tripped"
  PROVE  AwakeOK'
  <1>1. WatchOK(p)'
    BY DEF WatchOK, BeforeBreaker, At
  <1>2. faults \in Nat
    BY DEF IInv, CountersOK
  <1> QED
    BY <1>1, <1>2, AwakeQuiet

LEMMA FaultsKept ==
  ASSUME IInv, UNCHANGED boundVars \/ UNCHANGED faults
  PROVE  faults' \in Nat /\ faults <= faults' /\ UNCHANGED faults
  BY DEF IInv, CountersOK, boundVars

-----------------------------------------------------------------------------
(* One lemma per group of actions.                                         *)
LEMMA AwakeBegin ==
  ASSUME IInv, AwakeOK, NEW p \in Procs,
         ReconcileGone(p) \/ ReconcileExpired(p) \/ ReconcileSettled(p)
  PROVE  AwakeOK'
  <1>1. /\ UNCHANGED <<versions, cached>> /\ TakeKey(p) /\ At(p, "idle")
        /\ UNCHANGED boundVars
    BY DEF ReconcileGone, ReconcileExpired, ReconcileSettled, Begin
  <1>2. faults' \in Nat /\ faults <= faults' /\ UNCHANGED faults
    BY <1>1, FaultsKept
  <1>3. CASE ReconcileGone(p)
    <2>1. Current.gone
      BY <1>3, ViewOK DEF ReconcileGone, View, AwakeOK, GoneIsLast, Current
    <2>2. UNCHANGED <<timer, workerVars>>
      BY <1>3 DEF ReconcileGone
    <2>3. Alone(p) /\ At(p, "idle")'
      BY <1>1, <2>2 DEF Alone, TakeKey, workerVars, At, IInv, CountersOK
    <2>4. Alert(p)'
      BY <1>1, <2>1 DEF Alert, Current, RV
    <2>5. WatchOK(p)'
      BY <2>3, <2>4 DEF WatchOK, BeforeBreaker, At
    <2> QED
      BY <1>1, <1>2, <2>3, <2>5, AwakeQuiet
  <1>4. CASE ReconcileSettled(p)
    <2>1. UNCHANGED workerVars /\ Requeue(p, TRUE)
      BY <1>4 DEF ReconcileSettled
    <2>2. Alone(p) /\ At(p, "idle")' /\ timer'[p]
      BY <1>1, <2>1 DEF Alone, TakeKey, Requeue, workerVars, At, IInv, CountersOK
    <2>3. WatchOK(p)'
      BY <2>2 DEF WatchOK, BeforeBreaker, At, Alert
    <2> QED
      BY <1>1, <1>2, <2>2, <2>3, AwakeQuiet
  <1>5. CASE ReconcileExpired(p)
    <2>1. Alone(p) /\ pc'[p] = "delete"
      BY <1>1, <1>5, MoveAlone DEF ReconcileExpired
    <2> QED
      BY <1>1, <1>2, <2>1, AwakeMoved
  <1> QED
    BY <1>3, <1>4, <1>5

(* Resume reads the version that is current, or an event is on its way.    *)
LEMMA AwakeWork ==
  ASSUME IInv, AwakeOK, NEW p \in Procs, Start(p) \/ Resume(p)
  PROVE  AwakeOK'
  <1>1. /\ UNCHANGED <<versions, cached, timer, faults>> /\ TakeKey(p)
    BY DEF Start, Resume, BeginWork, Begin
  <1>2. faults' \in Nat /\ faults <= faults'
    BY <1>1, FaultsKept
  <1>3. CASE Start(p)
    BY <1>1, <1>3, UpdateAlone, AwakeMoved DEF Start
  <1>4. CASE Resume(p)
    <2>1. Alone(p) /\ pc'[p] = "gate"
      BY <1>1, <1>4, MoveAlone DEF Resume
    <2>2. obj'[p] = View(p) /\ View(p).phase = "Running"
      BY <1>4 DEF Resume, IInv, LocalsOK
    <2>3. cached[p] \in 1 .. RV /\ RV \in Nat /\ RV' = RV /\ Current' = Current
      BY <1>1 DEF IInv, StoreOK, RV, Current
    <2>4. cached[p] = RV \/ ~CacheLag => View(p) = Current
      BY DEF View, Seen, Current
    <2>5. cached[p] # RV => Alert(p)'
      BY <1>1, <2>3 DEF Alert
    <2>6. cached[p] = RV => SeesTheLimit(p)'
      BY <2>1, <2>2, <2>3, <2>4 DEF SeesTheLimit, At
    <2>7. WatchOK(p)'
      BY <2>1, <2>5, <2>6 DEF WatchOK, At
    <2> QED
      BY <1>1, <1>2, <2>1, <2>7, AwakeQuiet
  <1> QED
    BY <1>3, <1>4

LEMMA AwakeDelete ==
  ASSUME IInv, AwakeOK, NEW p \in Procs, Delete(p) \/ DeleteFault(p)
  PROVE  AwakeOK'
  <1>1. UNCHANGED <<cached, dirty>> /\ (\E again : Return(p, again))
    BY DEF Delete, DeleteFault
  <1>2. faults' \in Nat /\ faults <= faults'
    <2>1. faults' = faults \/ faults' = faults + 1
      BY DEF Delete, DeleteFault, boundVars
    <2>2. faults \in Nat
      BY DEF IInv, CountersOK
    <2> QED
      BY <2>1, <2>2
  <1>3. CASE ~Current.gone /\ Write([Current EXCEPT !.gone = TRUE])
    <2>1. [Current EXCEPT !.gone = TRUE] \in Objects
      BY CurrentOK, GoneSound DEF IInv, CountersOK
    <2>2. \A q \in Procs : At(q, "put")' => At(q, "put") /\ fresh'[q] = fresh[q]
      BY <1>1 DEF Return, Leave, GoTo, At, IInv, LocalsOK, StoreOK
    <2> QED
      BY <1>1, <1>3, <2>1, <2>2, AwakeWritten
  <1>4. CASE ~(~Current.gone /\ Write([Current EXCEPT !.gone = TRUE]))
    <2>1. Return(p, TRUE) /\ UNCHANGED versions
      BY <1>4 DEF Delete, DeleteFault
    <2> QED
      BY <1>1, <1>2, <2>1, AwakeReturn
  <1> QED
    BY <1>3, <1>4

(* The fresh copy is of the current version, or an event is on its way.    *)
LEMMA AwakeGet ==
  ASSUME IInv, AwakeOK, NEW p \in Procs, StatusGet(p)
  PROVE  AwakeOK'
  <1>1. UNCHANGED <<versions, cached, dirty, boundVars>>
    BY DEF StatusGet
  <1>2. faults' \in Nat /\ faults <= faults'
    BY <1>1, FaultsKept
  <1>3. RV' = RV /\ Current' = Current /\ cached[p] \in 1 .. RV
    BY <1>1 DEF RV, Current, IInv, StoreOK
  <1>4. CASE View(p).gone
    <2>1. Alert(p)
      BY <1>4, ViewOK DEF View, AwakeOK, GoneIsLast, Current, Alert
    <2> QED
      BY <1>1, <1>2, <1>4, <2>1, AwakeReturn DEF StatusGet, UpdateFailed
  <1>5. CASE ~View(p).gone
    <2>1. /\ GoTo(p, "put") /\ fresh' = [fresh EXCEPT ![p] = Seen(p)]
          /\ UNCHANGED <<obj, want, timer>> /\ pc[p] = "get"
      BY <1>5 DEF StatusGet, At
    <2>2. Alone(p) /\ pc'[p] = "put"
      BY <1>1, <2>1, MoveAlone
    <2>3. fresh'[p] = Seen(p) /\ obj'[p] = obj[p] /\ want'[p] = want[p]
      BY <2>1 DEF IInv, StoreOK
    <2>4. Alert(p) => Alert(p)'
      BY <1>1, <1>3, <2>1 DEF Alert
    <2>5. ~versions'[fresh'[p]].gone
      BY <1>1, <1>5, <2>3 DEF View
    <2>6. fresh'[p] = RV' \/ Alert(p)'
      <3>1. Seen(p) = RV \/ cached[p] < RV
        BY <1>3 DEF Seen, IInv, StoreOK, RV
      <3> QED
        BY <1>3, <2>3, <2>4, <3>1 DEF Alert
    <2>7. BeforeBreaker(p)' => Alert(p)' \/ SeesTheLimit(p)'
      <3>1. BeforeBreaker(p)' => BeforeBreaker(p)
        BY <2>1, <2>2, <2>3 DEF BeforeBreaker, At
      <3>2. SeesTheLimit(p) => SeesTheLimit(p)'
        BY <1>3, <2>1, <2>2, <2>3 DEF SeesTheLimit, At
      <3> QED
        BY <2>4, <3>1, <3>2 DEF AwakeOK, WatchOK
    <2>8. WatchOK(p)'
      BY <2>2, <2>5, <2>6, <2>7 DEF WatchOK, At
    <2> QED
      BY <1>1, <1>2, <2>2, <2>8, AwakeQuiet
  <1> QED
    BY <1>4, <1>5

(* A put that ends the update without a write: only the breaker does not   *)
(* come back by itself.                                                    *)
LEMMA AwakeFailed ==
  ASSUME IInv, AwakeOK, NEW p \in Procs, UpdateFailed(p),
         UNCHANGED <<versions, cached, dirty>>, faults' \in Nat, faults <= faults',
         want[p] = "Tripped" => Alert(p) \/ Stuck'
  PROVE  AwakeOK'
  <1>1. (want[p] # "Tripped") \in BOOLEAN
    OBVIOUS
  <1> QED
    BY <1>1, AwakeReturn DEF UpdateFailed

LEMMA AwakePutOk ==
  ASSUME IInv, AwakeOK, NEW p \in Procs, PutOk(p)
  PROVE  AwakeOK'
  <1>1. /\ At(p, "put") /\ fresh[p] = RV /\ Write(Written(p)) /\ UpdateDone(p, Written(p))
        /\ UNCHANGED cached
    BY DEF PutOk
  <1>2. ~Current.gone
    BY <1>1 DEF AwakeOK, WatchOK, Current
  <1>3. \A q \in Procs : At(q, "put")' => At(q, "put") /\ fresh'[q] = fresh[q]
    BY <1>1 DEF UpdateDone, Return, Leave, GoTo, At, IInv, LocalsOK, StoreOK
  <1> QED
    BY <1>1, <1>2, <1>3, WrittenOK, AwakeWritten

LEMMA AwakePutRefused ==
  ASSUME IInv, AwakeOK, NEW p \in Procs, PutConflict(p) \/ PutNotFound(p)
  PROVE  AwakeOK'
  <1>1. UNCHANGED <<versions, cached, dirty, boundVars>> /\ At(p, "put")
    BY DEF PutConflict, PutNotFound
  <1>2. faults' \in Nat /\ faults <= faults'
    BY <1>1, FaultsKept
  <1>3. Alert(p)
    BY <1>1 DEF PutConflict, PutNotFound, AwakeOK, WatchOK, Alert
  <1>4. CASE UpdateFailed(p)
    BY <1>1, <1>2, <1>3, <1>4, AwakeFailed
  <1>5. CASE /\ GoTo(p, "get")
             /\ UNCHANGED <<obj, fresh, want, api, allMet, timer>>
    <2>1. Alone(p) /\ pc'[p] = "get"
      BY <1>1, <1>5, MoveAlone
    <2>2. Alert(p)'
      BY <1>1, <1>3, <1>5 DEF Alert, RV, Current
    <2>3. WatchOK(p)'
      BY <2>1, <2>2 DEF WatchOK, At
    <2> QED
      BY <1>1, <1>2, <2>1, <2>3, AwakeQuiet
  <1> QED
    BY <1>4, <1>5 DEF PutConflict, PutNotFound

(* The write of the breaker that fails is what Stuck is about.             *)
LEMMA AwakePutFault ==
  ASSUME IInv, AwakeOK, NEW p \in Procs, PutFault(p)
  PROVE  AwakeOK'
  <1>1. /\ At(p, "put") /\ UpdateFailed(p) /\ UNCHANGED <<cached, dirty>>
        /\ faults' = faults + 1 /\ faults \in Nat
    BY DEF PutFault, IInv, CountersOK
  <1>2. CASE UNCHANGED versions
    <2>1. want[p] = "Tripped" => Alert(p) \/ SeesTheLimit(p)
      BY <1>1 DEF AwakeOK, WatchOK, BeforeBreaker, At
    <2>2. SeesTheLimit(p) => Stuck'
      BY <1>1, <1>2 DEF SeesTheLimit, Stuck, At, Current, RV
    <2> QED
      BY <1>1, <1>2, <2>1, <2>2, AwakeFailed
  <1>3. CASE ~UNCHANGED versions
    <2>1. ~Current.gone /\ Write(Written(p))
      BY <1>3 DEF PutFault
    <2>2. \A q \in Procs : At(q, "put")' => At(q, "put") /\ fresh'[q] = fresh[q]
      BY <1>1 DEF UpdateFailed, Return, Leave, GoTo, At, IInv, LocalsOK, StoreOK
    <2> QED
      BY <1>1, <2>1, <2>2, WrittenOK, AwakeWritten
  <1> QED
    BY <1>2, <1>3

LEMMA AwakeGate ==
  ASSUME IInv, AwakeOK, NEW p \in Procs, GateOpen(p) \/ GateTripped(p) \/ GateRest(p)
  PROVE  AwakeOK'
  <1>1. UNCHANGED <<versions, cached, dirty, timer, boundVars>> /\ At(p, "gate")
    BY DEF GateOpen, GateTripped, GateRest, kubeVars
  <1>2. faults' \in Nat /\ faults <= faults' /\ UNCHANGED faults
    BY <1>1, FaultsKept
  <1>3. CASE GateOpen(p) \/ GateRest(p)
    <2>1. Alone(p) /\ pc'[p] \in {"auth", "rest"}
      BY <1>1, <1>3, MoveAlone DEF GateOpen, GateRest, IInv, LocalsOK
    <2> QED
      BY <1>1, <1>2, <2>1, AwakeMoved
  <1>4. CASE GateTripped(p)
    <2>1. Alone(p) /\ pc'[p] = "get" /\ obj'[p] = obj[p]
      BY <1>1, <1>4, UpdateAlone DEF GateTripped
    <2>2. Tripped(obj[p].calls)
      BY <1>4 DEF GateTripped
    <2>3. RV' = RV /\ Current' = Current
      BY <1>1 DEF RV, Current
    <2>4. Alert(p) \/ SeesTheLimit(p)
      BY <1>1 DEF AwakeOK, WatchOK, BeforeBreaker
    <2>5. SeesTheLimit(p) => SeesTheLimit(p)'
      BY <2>1, <2>2, <2>3 DEF SeesTheLimit
    <2>6. Alert(p) => Alert(p)'
      BY <1>1, <2>3 DEF Alert
    <2>7. WatchOK(p)'
      BY <2>1, <2>4, <2>5, <2>6 DEF WatchOK, At
    <2> QED
      BY <1>1, <1>2, <2>1, <2>7, AwakeQuiet
  <1> QED
    BY <1>3, <1>4

LEMMA AwakeRest ==
  ASSUME IInv, AwakeOK, NEW p \in Procs, RestAnswer(p) \/ RestError(p)
  PROVE  AwakeOK'
  <1>1. UNCHANGED <<versions, cached, dirty, timer, boundVars>> /\ pc[p] = "rest"
    BY DEF RestAnswer, RestError, kubeVars, At
  <1>2. UNCHANGED faults
    BY <1>1, FaultsKept
  <1>3. CASE \E o : \E w \in {"Failed", "Pending"} : UpdateStatus(p, o, w)
    BY <1>1, <1>2, <1>3, UpdateAlone, AwakeMoved
  <1>4. CASE UNCHANGED <<pc, fresh, want>> /\ \E o : obj' = [obj EXCEPT ![p] = o]
    <2>1. Alone(p) /\ pc'[p] = "rest"
      BY <1>1, <1>4 DEF Alone, IInv, LocalsOK
    <2> QED
      BY <1>1, <1>2, <2>1, AwakeMoved
  <1>5. CASE /\ GoTo(p, "auth") /\ UNCHANGED <<fresh, want>>
             /\ \E o : obj' = [obj EXCEPT ![p] = o]
    <2>1. Alone(p) /\ pc'[p] = "auth"
      BY <1>1, <1>5, MoveAlone
    <2> QED
      BY <1>1, <1>2, <2>1, AwakeMoved
  <1>6. ASSUME NEW o, NEW met, NextApi(p, o, met) PROVE AwakeOK'
    BY <1>3, <1>4, <1>5, <1>6 DEF NextApi
  <1> QED
    BY <1>3, <1>6 DEF RestAnswer, RestError

LEMMA AwakeAuthGit ==
  ASSUME IInv, AwakeOK, NEW p \in Procs, Auth(p) \/ GitPushed(p) \/ GitFailed(p)
  PROVE  AwakeOK'
  <1>1. UNCHANGED <<versions, cached, dirty, timer, boundVars>>
    BY DEF Auth, GitPushed, GitFailed, kubeVars
  <1>2. UNCHANGED faults
    BY <1>1, FaultsKept
  <1>3. CASE \E o : \E w \in {"Failed", "Committed"} : UpdateStatus(p, o, w)
    BY <1>1, <1>2, <1>3, UpdateAlone, AwakeMoved
  <1>4. CASE GoTo(p, "git") /\ UNCHANGED <<obj, fresh, want>>
    <2>1. Alone(p) /\ pc'[p] = "git"
      BY <1>1, <1>4, MoveAlone
    <2> QED
      BY <1>1, <1>2, <2>1, AwakeMoved
  <1> QED
    BY <1>3, <1>4 DEF Auth, GitPushed, GitFailed

LEMMA AwakeQueue ==
  ASSUME IInv, AwakeOK, NEW p \in Procs, Watch(p) \/ Timer(p) \/ Crash(p)
  PROVE  AwakeOK'
  <1>1. UNCHANGED <<versions, faults>>
    BY DEF Watch, Deliver, Timer, TimerFire, Crash, Relist, boundVars
  <1>2. RV' = RV /\ Current' = Current
    BY <1>1 DEF RV, Current
  <1>3. Alone(p)
    BY DEF Alone, Watch, Deliver, Timer, TimerFire, Crash, Relist, Leave, GoTo,
           workerVars, IInv, LocalsOK, StoreOK, CountersOK
  <1>4. Alert(p)'
    <2>1. dirty'[p] \/ Current.gone
      BY CurrentOK DEF Watch, Deliver, Timer, TimerFire, Crash, Relist, Objects, IInv,
                       CountersOK
    <2> QED
      BY <1>2, <2>1 DEF Alert
  <1>5. At(p, "put")' => ~versions'[fresh'[p]].gone
    <2>1. At(p, "put")' => At(p, "put") /\ fresh'[p] = fresh[p]
      BY DEF Watch, Timer, Crash, Leave, GoTo, At, workerVars, IInv, LocalsOK
    <2> QED
      BY <1>1, <2>1 DEF AwakeOK, WatchOK
  <1>6. WatchOK(p)'
    BY <1>4, <1>5 DEF WatchOK
  <1> QED
    BY <1>1, <1>3, <1>6, FaultsKept, AwakeQuiet

LEMMA AwakeUser ==
  ASSUME IInv, AwakeOK, UserEdit \/ UserDelete \/ TTLPasses
  PROVE  AwakeOK'
  <1>1. UNCHANGED <<cached, dirty, timer, workerVars, faults>>
    BY DEF UserEdit, UserDelete, TTLPasses, kubeVars, boundVars
  <1>2. \A q \in Procs : At(q, "put")' => At(q, "put") /\ fresh'[q] = fresh[q]
    BY <1>1 DEF workerVars, At
  <1>3. CASE UserEdit
    <2>1. PICK n \in ApiCounts : Write([Current EXCEPT !.apis = n])
      BY <1>3 DEF UserEdit
    <2>2. [Current EXCEPT !.apis = n] \in Objects
      BY CurrentOK, GitCommitAssumption DEF Objects
    <2> QED
      BY <1>1, <1>2, <1>3, <2>1, <2>2, AwakeWritten DEF UserEdit
  <1>4. CASE UserDelete
    <2>1. [Current EXCEPT !.gone = TRUE] \in Objects
      BY CurrentOK, GoneSound DEF IInv, CountersOK
    <2> QED
      BY <1>1, <1>2, <1>4, <2>1, AwakeWritten DEF UserDelete
  <1>5. CASE TTLPasses
    BY <1>1, <1>5 DEF TTLPasses, kubeVars, workerVars, AwakeOK, GoneIsLast, WatchOK,
                      BeforeBreaker, SeesTheLimit, Stuck, At, Alert, RV, Current
  <1> QED
    BY <1>3, <1>4, <1>5

LEMMA AwakeNext == IInv /\ AwakeOK /\ [Next]_vars => AwakeOK'
  <1> SUFFICES ASSUME IInv, AwakeOK, [Next]_vars PROVE AwakeOK'
    OBVIOUS
  <1>1. ASSUME NEW p \in Procs, System(p) PROVE AwakeOK'
    BY <1>1, AwakeBegin, AwakeWork, AwakeDelete, AwakeGet, AwakePutOk, AwakePutRefused,
       AwakeGate, AwakeRest, AwakeAuthGit, AwakeQueue DEF System, Step
  <1>2. CASE Environment
    BY <1>2, AwakePutFault, AwakeDelete, AwakeQueue, AwakeUser DEF Environment
  <1>3. CASE UNCHANGED vars
    BY <1>3 DEF vars, kubeVars, workerVars, boundVars, AwakeOK, GoneIsLast, WatchOK,
                BeforeBreaker, SeesTheLimit, Stuck, At, Alert, RV, Current
  <1> QED
    BY <1>1, <1>2, <1>3 DEF Next

(* Nobody who may still have to do something for the resource stops        *)
(* looking at it, but for a breaker whose status write failed: what        *)
(* fairness then makes of it is Settles and ExpiredIsDeleted.              *)
THEOREM NobodySleeps == Spec => []NeverAsleep
  <1>1. Init => AwakeOK
    <2> SUFFICES ASSUME Init PROVE AwakeOK
      OBVIOUS
    <2>1. PICK n \in ApiCounts : KubeInit(NewObject(n))
      BY DEF Init
    <2>2. RV = 1 /\ \A p \in Procs : dirty[p] /\ pc[p] = "idle"
      BY <2>1 DEF KubeInit, RV, Init
    <2>3. \A k \in 1 .. RV : k = RV
      BY <2>2
    <2> QED
      BY <2>2, <2>3 DEF AwakeOK, GoneIsLast, WatchOK, BeforeBreaker, Alert, At
  <1>2. AwakeOK => NeverAsleep
    BY DEF AwakeOK, WatchOK, NeverAsleep
  <1> QED
    BY <1>1, <1>2, AwakeNext, Invariance, PTL DEF Spec

-----------------------------------------------------------------------------
(* One process with an up-to-date view: GitCommit implements               *)
(* GitCommitLifecycle, and its pushes are accounted for.                   *)

OneCurrentProcess == CacheLag = FALSE /\ \E p : Procs = {p}

(* The view is the current version.                                        *)
LEMMA ViewIsCurrent ==
  ASSUME OneCurrentProcess, NEW p
  PROVE  Seen(p) = RV /\ View(p) = Current
  BY DEF OneCurrentProcess, Seen, View, Current

-----------------------------------------------------------------------------
(* InStep under the building blocks of the actions.                        *)

(* Nothing is written, and the worker is in step where it goes.            *)
LEMMA InStepMoved ==
  ASSUME InStep, NEW p, Procs = {p}, UNCHANGED versions,
         pc'[p] \in {"gate", "rest", "auth", "git"} =>
             Current.gone \/ Current.phase = "Running",
         pc'[p] \in {"get", "put"} =>
             Current.gone \/ Current.phase \in PhasesBefore(want'[p]),
         pc'[p] = "put" => ~versions[fresh'[p]].gone
  PROVE  InStep'
  <1>1. Current' = Current
    BY DEF Current, RV
  <1> QED
    BY <1>1 DEF InStep

LEMMA InStepLeave ==
  ASSUME IInv, NEW p, Procs = {p}, Leave(p)
  PROVE  InStep'
  <1>1. pc'[p] = "idle"
    BY DEF Leave, GoTo, IInv, LocalsOK
  <1> QED
    BY <1>1 DEF InStep

(* A version that the user writes, or that goes: the workers stay.         *)
LEMMA InStepWritten ==
  ASSUME IInv, InStep, NEW o \in Objects, Write(o),
         o.gone \/ (~Current.gone /\ o.phase = Current.phase),
         UNCHANGED <<pc, want, fresh>>
  PROVE  InStep'
  <1>1. /\ Current' = o
        /\ \A k \in 1 .. RV : versions'[k] = versions[k]
    BY WriteType DEF IInv, StoreOK
  <1>2. \A p \in Procs : fresh[p] \in 1 .. RV
    BY DEF IInv, StoreOK
  <1> QED
    BY <1>1, <1>2 DEF InStep

LEMMA UserWrites ==
  ASSUME IInv, UserEdit \/ UserDelete
  PROVE  \E o \in Objects : /\ Write(o)
                            /\ o.gone \/ (~Current.gone /\ o.phase = Current.phase)
                            /\ ~Current.gone
  <1>1. Current \in Objects
    BY CurrentOK
  <1>2. CASE UserEdit
    <2>1. PICK n \in ApiCounts : Write([Current EXCEPT !.apis = n])
      BY <1>2 DEF UserEdit
    <2>2. /\ [Current EXCEPT !.apis = n] \in Objects
          /\ [Current EXCEPT !.apis = n].phase = Current.phase
      BY <1>1, GitCommitAssumption DEF Objects
    <2> QED
      BY <1>2, <2>1, <2>2 DEF UserEdit
  <1>3. CASE UserDelete
    <2>1. /\ [Current EXCEPT !.gone = TRUE] \in Objects
          /\ [Current EXCEPT !.gone = TRUE].gone
      BY <1>1 DEF Objects
    <2> QED
      BY <1>3, <2>1 DEF UserDelete
  <1> QED
    BY <1>2, <1>3

(* What a status write stores: the phase that was asked for, and the       *)
(* resource is as alive as it was.                                         *)
LEMMA WrittenPhase ==
  ASSUME IInv, InStep, NEW p \in Procs, At(p, "put"), fresh[p] = RV, Write(Written(p))
  PROVE  /\ ~Current.gone /\ Current.phase \in PhasesBefore(want[p])
         /\ ~Current'.gone /\ Current'.phase = PhaseOf(want[p])
  <1>1. /\ ~Current.gone /\ Current.phase \in PhasesBefore(want[p])
    BY DEF InStep, At, Current
  <1>2. Current \in Objects /\ obj[p] \in Objects /\ Written(p) \in Objects
    BY CurrentOK, WrittenOK DEF IInv, LocalsOK
  <1>3. Current' = Written(p)
    BY <1>2, WriteType DEF IInv, StoreOK
  <1>4. Written(p).gone = Current.gone /\ Written(p).phase = PhaseOf(want[p])
    BY <1>2 DEF Written, Merge, Current, Objects
  <1> QED
    BY <1>1, <1>3, <1>4

(* updateStatus begins on the current version, or on one that is gone.     *)
LEMMA InStepUpdate ==
  ASSUME IInv, InStep, NEW p, Procs = {p}, NEW o, NEW w, UNCHANGED versions,
         UpdateStatus(p, o, w), Current.gone \/ Current.phase \in PhasesBefore(w)
  PROVE  InStep'
  <1>1. pc'[p] = "get" /\ want'[p] = w
    BY DEF UpdateStatus, GoTo, IInv, LocalsOK
  <1> QED
    BY <1>1, InStepMoved

-----------------------------------------------------------------------------
LEMMA InStepNext ==
  ASSUME OneCurrentProcess, IInv, InStep, [Next]_vars
  PROVE  InStep'
  <1>1. PICK p : Procs = {p}
    BY DEF OneCurrentProcess
  <1>2. p \in Procs /\ View(p) = Current /\ Seen(p) = RV
    BY <1>1, ViewIsCurrent
  <1>3. CASE UNCHANGED <<versions, pc, want, fresh>>
    BY <1>1, <1>3, InStepMoved DEF InStep
  <1>4. CASE UNCHANGED vars
    BY <1>3, <1>4 DEF vars, kubeVars, workerVars
  <1>5. CASE ReconcileGone(p) \/ ReconcileSettled(p) \/ Watch(p) \/ Timer(p)
    BY <1>3, <1>5 DEF ReconcileGone, ReconcileSettled, Watch, Timer, Deliver, TimerFire,
                      workerVars
  <1>6. CASE ReconcileExpired(p)
    <2>1. pc'[p] = "delete" /\ UNCHANGED versions
      BY <1>2, <1>6 DEF ReconcileExpired, GoTo, IInv, LocalsOK
    <2> QED
      BY <1>1, <2>1, InStepMoved
  <1>7. CASE Start(p)
    <2>1. UpdateStatus(p, View(p), "Running") /\ UNCHANGED versions
      BY <1>7 DEF Start, BeginWork
    <2>2. Current.phase \in {"", "Pending"}
      BY <1>2, <1>7, CurrentOK DEF Start, BeginWork, IsSettled, Objects, Phases
    <2> QED
      BY <1>1, <2>1, <2>2, InStepUpdate DEF PhasesBefore
  <1>8. CASE Resume(p)
    <2>1. pc'[p] = "gate" /\ UNCHANGED versions /\ Current.phase = "Running"
      BY <1>2, <1>8 DEF Resume, BeginWork, GoTo, IInv, LocalsOK
    <2> QED
      BY <1>1, <2>1, InStepMoved
  <1>9. CASE Delete(p) \/ DeleteFault(p) \/ PutNotFound(p) \/ PutFault(p) \/ Crash(p)
    <2>1. Leave(p)
      BY <1>9 DEF Delete, DeleteFault, PutNotFound, PutFault, Crash, UpdateFailed, Return
    <2> QED
      BY <1>1, <2>1, InStepLeave
  <1>10. CASE StatusGet(p)
    <2>1. CASE UpdateFailed(p)
      BY <1>1, <2>1, InStepLeave DEF UpdateFailed, Return
    <2>2. CASE ~UpdateFailed(p)
      <3>1. /\ ~Current.gone /\ pc'[p] = "put" /\ fresh'[p] = RV
            /\ UNCHANGED <<versions, want>> /\ pc[p] = "get"
        BY <1>2, <1>10, <2>2 DEF StatusGet, GoTo, At, IInv, LocalsOK, StoreOK
      <3>2. Current.phase \in PhasesBefore(want[p]) /\ ~versions[RV].gone
        BY <1>2, <3>1 DEF InStep, Current
      <3> QED
        BY <1>1, <3>1, <3>2, InStepMoved
    <2> QED
      BY <2>1, <2>2
  <1>11. CASE PutOk(p)
    <2>1. /\ At(p, "put") /\ fresh[p] = RV /\ Write(Written(p)) /\ UpdateDone(p, Written(p))
      BY <1>11 DEF PutOk
    <2>2. CASE want[p] = "Running"
      <3>1. Current'.phase = "Running"
        BY <1>2, <2>1, <2>2, WrittenPhase DEF PhaseOf
      <3>2. pc'[p] = "gate"
        BY <1>2, <2>1, <2>2 DEF UpdateDone, GoTo, IInv, LocalsOK
      <3> QED
        BY <1>1, <3>1, <3>2 DEF InStep
    <2>3. CASE want[p] # "Running"
      BY <1>1, <2>1, <2>3, InStepLeave DEF UpdateDone, Return
    <2> QED
      BY <2>2, <2>3
  <1>12. CASE PutConflict(p)
    <2>1. CASE UpdateFailed(p)
      BY <1>1, <2>1, InStepLeave DEF UpdateFailed, Return
    <2>2. CASE ~UpdateFailed(p)
      <3>1. /\ pc[p] = "put" /\ pc'[p] = "get" /\ UNCHANGED <<versions, want>>
        BY <1>2, <1>12, <2>2 DEF PutConflict, GoTo, At, IInv, LocalsOK
      <3>2. Current.gone \/ Current.phase \in PhasesBefore(want[p])
        BY <1>2, <3>1 DEF InStep
      <3> QED
        BY <1>1, <3>1, <3>2, InStepMoved
    <2> QED
      BY <2>1, <2>2
  <1>13. CASE \/ GateOpen(p) \/ GateTripped(p) \/ GateRest(p) \/ RestAnswer(p)
              \/ RestError(p) \/ Auth(p) \/ GitPushed(p) \/ GitFailed(p)
    <2>1. /\ UNCHANGED versions
          /\ pc[p] \in {"gate", "rest", "auth", "git"}
          /\ \/ GoTo(p, "auth") \/ GoTo(p, "rest") \/ GoTo(p, "git") \/ UNCHANGED pc
             \/ \E o, w : w # "Running" /\ UpdateStatus(p, o, w)
      BY <1>13 DEF GateOpen, GateTripped, GateRest, RestAnswer, RestError, Auth, GitPushed,
                   GitFailed, NextApi, At, kubeVars
    <2>2. Current.gone \/ Current.phase = "Running"
      BY <1>2, <2>1 DEF InStep
    <2>3. ASSUME NEW o, NEW w, w # "Running", UpdateStatus(p, o, w) PROVE InStep'
      BY <1>1, <2>1, <2>2, <2>3, InStepUpdate DEF PhasesBefore
    <2>4. CASE GoTo(p, "auth") \/ GoTo(p, "rest") \/ GoTo(p, "git") \/ UNCHANGED pc
      <3>1. pc'[p] \in {"gate", "rest", "auth", "git"}
        BY <1>2, <2>1, <2>4 DEF GoTo, IInv, LocalsOK
      <3> QED
        BY <1>1, <2>1, <2>2, <3>1, InStepMoved
    <2> QED
      BY <2>1, <2>3, <2>4
  <1>14. CASE UserEdit \/ UserDelete
    <2>1. PICK o \in Objects : Write(o) /\ (o.gone \/ (~Current.gone /\ o.phase = Current.phase))
      BY <1>14, UserWrites
    <2>2. UNCHANGED <<pc, want, fresh>>
      BY <1>14 DEF UserEdit, UserDelete, workerVars
    <2> QED
      BY <2>1, <2>2, InStepWritten
  <1>15. CASE TTLPasses
    BY <1>3, <1>15 DEF TTLPasses, kubeVars, workerVars
  <1> QED
    BY <1>1, <1>4, <1>5, <1>6, <1>7, <1>8, <1>9, <1>10, <1>11, <1>12, <1>13, <1>14, <1>15
       DEF Next, System, Step, Environment

-----------------------------------------------------------------------------
(* Every step of GitCommit is a step of the lifecycle, or a stutter.       *)

LEMMA InStepInit ==
  ASSUME Init
  PROVE  InStep
  BY DEF Init, InStep

LEMMA LifecycleInit ==
  ASSUME Init
  PROVE  Lifecycle!Init
  <1>1. PICK n \in ApiCounts : KubeInit(NewObject(n))
    BY DEF Init
  <1>2. Current = NewObject(n)
    BY <1>1 DEF KubeInit, Current, RV
  <1> QED
    BY <1>2 DEF Init, NewObject, Lifecycle!Init

(* Nothing is written and nothing pushed.                                  *)
LEMMA Stutter ==
  ASSUME UNCHANGED <<versions, pushes>>
  PROVE  UNCHANGED Lifecycle!lifecycleVars
  BY DEF Lifecycle!lifecycleVars, Current, RV

(* The resource goes.                                                      *)
LEMMA Deletes ==
  ASSUME IInv, ~Current.gone, Write([Current EXCEPT !.gone = TRUE]), UNCHANGED pushes
  PROVE  Lifecycle!Delete
  <1>1. Current \in Objects
    BY CurrentOK
  <1>2. [Current EXCEPT !.gone = TRUE] \in Objects /\ [Current EXCEPT !.gone = TRUE].gone
    BY <1>1 DEF Objects
  <1>3. Current' = [Current EXCEPT !.gone = TRUE]
    BY <1>2, WriteType DEF IInv, StoreOK
  <1>4. Current.phase # "Deleted"
    BY <1>1 DEF Objects, Phases
  <1> QED
    BY <1>2, <1>3, <1>4 DEF Lifecycle!Delete

(* A status write begins the work or concludes it.                         *)
LEMMA Publishes ==
  ASSUME IInv, InStep, NEW p \in Procs, At(p, "put"), fresh[p] = RV, Write(Written(p)),
         UNCHANGED pushes
  PROVE  Lifecycle!Begin \/ Lifecycle!Conclude
  <1>1. /\ ~Current.gone /\ Current.phase \in PhasesBefore(want[p])
        /\ ~Current'.gone /\ Current'.phase = PhaseOf(want[p])
    BY WrittenPhase
  <1>2. CASE want[p] = "Running"
    BY <1>1, <1>2 DEF PhasesBefore, PhaseOf, Lifecycle!Begin
  <1>3. CASE want[p] = "Committed"
    <2>1. obj[p].sha > 0 /\ obj[p].sha <= pushes
      BY <1>3 DEF IInv, LocalsOK, HoldsSha, At, Sound
    <2>2. obj[p].sha \in Nat /\ pushes \in Nat
      BY DEF IInv, LocalsOK, CountersOK, Objects
    <2>3. pushes > 0
      BY <2>1, <2>2
    <2> QED
      BY <1>1, <1>3, <2>3 DEF PhasesBefore, PhaseOf, Lifecycle!Conclude
  <1>4. CASE want[p] \in {"Pending", "Failed", "Tripped"}
    BY <1>1, <1>4 DEF PhasesBefore, PhaseOf, Lifecycle!Conclude
  <1> QED
    BY <1>2, <1>3, <1>4 DEF IInv, LocalsOK, Wants

(* A push is made under a Running phase, or after the resource has gone.   *)
LEMMA Pushes ==
  ASSUME IInv, InStep, NEW p \in Procs, At(p, "git"), UNCHANGED versions,
         pushes' \in {pushes, pushes + 1}
  PROVE  Lifecycle!Push \/ UNCHANGED Lifecycle!lifecycleVars
  <1>1. Current.gone \/ Current.phase = "Running"
    BY DEF InStep, At
  <1>2. Current' = Current
    BY DEF Current, RV
  <1>3. CASE pushes' = pushes
    BY <1>3, Stutter
  <1>4. CASE pushes' = pushes + 1
    BY <1>1, <1>2, <1>4 DEF Lifecycle!Push
  <1> QED
    BY <1>3, <1>4

(* An edit of the spec is none of the lifecycle's business.                *)
LEMMA Edits ==
  ASSUME IInv, UserEdit
  PROVE  UNCHANGED Lifecycle!lifecycleVars
  <1>1. Current \in Objects
    BY CurrentOK
  <1>2. PICK n \in ApiCounts : Write([Current EXCEPT !.apis = n])
    BY DEF UserEdit
  <1>3. /\ [Current EXCEPT !.apis = n] \in Objects
        /\ [Current EXCEPT !.apis = n].phase = Current.phase
        /\ [Current EXCEPT !.apis = n].gone = Current.gone
    BY <1>1, GitCommitAssumption DEF Objects
  <1>4. Current' = [Current EXCEPT !.apis = n]
    BY <1>2, <1>3, WriteType DEF IInv, StoreOK
  <1>5. UNCHANGED pushes
    BY DEF UserEdit, worldVars
  <1> QED
    BY <1>3, <1>4, <1>5 DEF Lifecycle!lifecycleVars

LEMMA LifecycleStep ==
  ASSUME IInv, InStep, [Next]_vars
  PROVE  [Lifecycle!Next]_(Lifecycle!lifecycleVars)
  <1>1. CASE UNCHANGED vars
    BY <1>1, Stutter DEF vars, kubeVars, worldVars
  <1>2. ASSUME NEW p \in Procs,
               \/ ReconcileGone(p) \/ ReconcileExpired(p) \/ ReconcileSettled(p)
               \/ Start(p) \/ Resume(p) \/ StatusGet(p) \/ PutConflict(p)
               \/ PutNotFound(p) \/ Watch(p) \/ Timer(p) \/ Crash(p)
        PROVE  UNCHANGED <<versions, pushes>>
    BY <1>2 DEF ReconcileGone, ReconcileExpired, ReconcileSettled, Start, Resume, BeginWork,
                StatusGet, PutConflict, PutNotFound, Watch, Deliver, Timer, TimerFire, Crash,
                Relist, worldVars
  <1>3. ASSUME NEW p \in Procs,
               \/ GateOpen(p) \/ GateTripped(p) \/ GateRest(p) \/ RestAnswer(p)
               \/ RestError(p) \/ Auth(p)
        PROVE  UNCHANGED <<versions, pushes>>
    BY <1>3 DEF GateOpen, GateTripped, GateRest, RestAnswer, RestError, Auth, kubeVars,
                worldVars
  <1>4. ASSUME NEW p \in Procs, Delete(p) \/ DeleteFault(p)
        PROVE  Lifecycle!Delete \/ UNCHANGED Lifecycle!lifecycleVars
    BY <1>4, Deletes, Stutter DEF Delete, DeleteFault, worldVars
  <1>5. ASSUME NEW p \in Procs, PutOk(p) \/ PutFault(p)
        PROVE  Lifecycle!Begin \/ Lifecycle!Conclude \/ UNCHANGED Lifecycle!lifecycleVars
    BY <1>5, Publishes, Stutter DEF PutOk, PutFault, worldVars
  <1>6. ASSUME NEW p \in Procs, GitPushed(p) \/ GitFailed(p)
        PROVE  Lifecycle!Push \/ UNCHANGED Lifecycle!lifecycleVars
    BY <1>6, Pushes DEF GitPushed, GitFailed, kubeVars
  <1>7. CASE UserEdit
    BY <1>7, Edits
  <1>8. CASE UserDelete
    BY <1>8, Deletes DEF UserDelete, worldVars, Lifecycle!Next
  <1>9. CASE TTLPasses
    BY <1>9, Stutter DEF TTLPasses, kubeVars
  <1>10. ASSUME NEW p \in Procs, System(p)
         PROVE  [Lifecycle!Next]_(Lifecycle!lifecycleVars)
    <2>1. CASE UNCHANGED <<versions, pushes>>
      BY <2>1, Stutter
    <2>2. CASE ~UNCHANGED <<versions, pushes>>
      <3>1. \/ Delete(p) \/ PutOk(p) \/ GitPushed(p) \/ GitFailed(p)
        BY <1>10, <1>2, <1>3, <2>2 DEF System, Step
      <3> QED
        BY <1>4, <1>5, <1>6, <3>1 DEF Lifecycle!Next
    <2> QED
      BY <2>1, <2>2
  <1>11. CASE Environment
    BY <1>2, <1>4, <1>5, <1>7, <1>8, <1>9, <1>11, Stutter DEF Environment, Lifecycle!Next
  <1> QED
    BY <1>1, <1>10, <1>11 DEF Next

(* What the user of the status may rely on with one process and an         *)
(* up-to-date view: Committed and Failed are final, and pushes are made    *)
(* only while the status says Running, or once the resource is gone.       *)
THEOREM ImplementsTheLifecycle ==
  ASSUME OneCurrentProcess
  PROVE  Spec => ImplementsLifecycle
  <1>1. Init => InStep /\ Lifecycle!Init
    BY InStepInit, LifecycleInit
  <1>2. IInv /\ InStep /\ [Next]_vars => InStep'
    BY InStepNext
  <1>3. IInv /\ InStep /\ [Next]_vars => [Lifecycle!Next]_(Lifecycle!lifecycleVars)
    BY LifecycleStep
  <1> QED
    BY <1>1, <1>2, <1>3, Invariance, PTL DEF Spec, ImplementsLifecycle, Lifecycle!Spec

-----------------------------------------------------------------------------
(* Quotients.                                                              *)

LEMMA DivDef ==
  ASSUME NEW n \in Nat, NEW d \in Nat \ {0}
  PROVE  n \div d \in Nat /\ d * (n \div d) <= n /\ n < d * (n \div d) + d
  OBVIOUS

LEMMA DivLe ==
  ASSUME NEW a \in Nat, NEW b \in Nat, NEW d \in Nat \ {0}, a <= b
  PROVE  a \div d <= b \div d
  <1> DEFINE x == a \div d
             y == b \div d
  <1>1. x \in Nat /\ d * x <= a /\ y \in Nat /\ b < d * y + d
    BY DivDef
  <1> HIDE DEF x, y
  <1> SUFFICES ASSUME y + 1 <= x PROVE FALSE
    BY <1>1 DEF x, y
  <1>2. d * (y + 1) <= d * x
    BY <1>1
  <1>3. d * (y + 1) = d * y + d
    BY <1>1
  <1> QED
    BY <1>1, <1>2, <1>3

LEMMA DivNext ==
  ASSUME NEW a \in Nat, NEW d \in Nat \ {0}
  PROVE  (a + d) \div d = a \div d + 1
  OBVIOUS

LEMMA SumLe ==
  ASSUME NEW a \in Nat, NEW b \in Nat, NEW c \in Nat, NEW d \in Nat,
         a <= c, b <= d
  PROVE  a + b \in Nat /\ c + d \in Nat /\ a + b <= c + d
  OBVIOUS

(* b mishaps and a edits to spare, then d and c of them.                   *)
LEMMA SpareGrows ==
  ASSUME NEW a \in Nat, NEW b \in Nat, NEW c \in Nat, NEW d \in Nat,
         a <= c, b <= d
  PROVE  /\ b + a \div MaxRetries \in Nat
         /\ d + c \div MaxRetries \in Nat
         /\ b + a \div MaxRetries <= d + c \div MaxRetries
         /\ b < d \/ a + MaxRetries <= c =>
                b + a \div MaxRetries + 1 <= d + c \div MaxRetries
  <1> DEFINE x == a \div MaxRetries
             y == c \div MaxRetries
  <1>1. MaxRetries \in Nat \ {0}
    BY GitCommitAssumption
  <1>2. x \in Nat /\ y \in Nat /\ x <= y
    BY <1>1, DivDef, DivLe
  <1>3. ASSUME a + MaxRetries <= c PROVE x + 1 <= y
    <2>1. a + MaxRetries \in Nat
      BY <1>1
    <2>2. (a + MaxRetries) \div MaxRetries <= y
      BY <1>1, <1>3, <2>1, DivLe
    <2> QED
      BY <1>1, <2>2, DivNext
  <1> HIDE DEF x, y
  <1>4. /\ b + x \in Nat /\ d + y \in Nat /\ b + x <= d + y
        /\ b < d \/ a + MaxRetries <= c => b + x + 1 <= d + y
    BY <1>1, <1>2, <1>3
  <1> QED
    BY <1>4 DEF x, y

-----------------------------------------------------------------------------
(* The accounts of pushes.                                                 *)

LEMMA MetType ==
  ASSUME IInv, NEW p \in Procs
  PROVE  /\ Met(p) \in Nat /\ tries[p] \in Nat /\ tries[p] < MaxRetries
         /\ Met(p) = tries[p] \/ Met(p) = tries[p] + 1
         /\ ~Behind(p) => Met(p) = tries[p]
         /\ Behind(p) => Met(p) = tries[p] + 1
         /\ ~At(p, "put") => ~Behind(p)
  <1>1. MaxRetries \in Nat \ {0} /\ tries[p] \in 0 .. MaxRetries - 1
    BY GitCommitAssumption DEF IInv, LocalsOK
  <1>2. Met(p) = IF Behind(p) THEN tries[p] + 1 ELSE tries[p]
    BY <1>1 DEF Met
  <1>3. ~At(p, "put") => ~Behind(p)
    BY DEF Behind
  <1> QED
    BY <1>1, <1>2, <1>3

LEMMA MetTypeNext ==
  ASSUME IInv', NEW p \in Procs
  PROVE  /\ Met(p)' \in Nat /\ tries'[p] \in Nat
         /\ Met(p)' = tries'[p] \/ Met(p)' = tries'[p] + 1
         /\ ~Behind(p)' => Met(p)' = tries'[p]
         /\ Behind(p)' => Met(p)' = tries'[p] + 1
         /\ pc'[p] # "put" => ~Behind(p)'
  <1>1. MaxRetries \in Nat \ {0} /\ tries'[p] \in 0 .. MaxRetries - 1
    BY GitCommitAssumption DEF IInv, LocalsOK
  <1>2. Met(p)' = IF Behind(p)' THEN tries'[p] + 1 ELSE tries'[p]
    BY <1>1 DEF Met
  <1>3. pc'[p] # "put" => ~Behind(p)'
    BY DEF Behind, At
  <1> QED
    BY <1>1, <1>2, <1>3

(* A step keeps the account if it takes no edit away from those to spare   *)
(* and makes a push due only after a mishap, or pushes what was due.       *)
LEMMA AccountKept ==
  ASSUME IInv, IInv', NEW p \in Procs, AccountOK(p),
         crashes <= crashes', faults <= faults', edits <= edits',
         edits - Met(p) <= edits' - Met(p)',
         \/ pushes' = pushes /\ (Due(p)' => Due(p))
         \/ /\ pushes' = pushes
            /\ \/ crashes + faults < crashes' + faults'
               \/ edits - Met(p) + MaxRetries <= edits' - Met(p)'
         \/ pushes' \in {pushes, pushes + 1} /\ Due(p) /\ ~Due(p)'
  PROVE  AccountOK(p)'
  <1> DEFINE a == edits - Met(p)
             b == crashes + faults
             c == edits' - Met(p)'
             d == crashes' + faults'
             x == b + a \div MaxRetries
             y == d + c \div MaxRetries
  <1>1. /\ crashes \in Nat /\ faults \in Nat /\ edits \in Nat /\ pushes \in Nat
        /\ crashes' \in Nat /\ faults' \in Nat /\ edits' \in Nat /\ pushes' \in Nat
    BY GitCommitAssumption DEF IInv, CountersOK
  <1>2. Met(p) \in Nat /\ Met(p)' \in Nat /\ Met(p) <= edits
    BY MetType, MetTypeNext DEF AccountOK
  <1>3. /\ a \in Nat /\ c \in Nat /\ a <= c /\ Met(p)' <= edits'
    BY <1>1, <1>2
  <1>4. b \in Nat /\ d \in Nat /\ b <= d
    BY <1>1, SumLe
  <1>5. Spare(p) = x /\ Spare(p)' = y
    BY DEF Spare
  <1>6. /\ x \in Nat /\ y \in Nat /\ x <= y
        /\ b < d \/ a + MaxRetries <= c => x + 1 <= y
    <2> HIDE DEF a, b, c, d
    <2> QED
      BY <1>3, <1>4, SpareGrows
  <1>7. pushes <= 1 + x /\ (Due(p) => pushes <= x)
    BY <1>5 DEF AccountOK
  <1>8. \/ pushes' = pushes /\ (Due(p)' => Due(p))
        \/ pushes' = pushes /\ (b < d \/ a + MaxRetries <= c)
        \/ pushes' \in {pushes, pushes + 1} /\ Due(p) /\ ~Due(p)'
    OBVIOUS
  <1> HIDE DEF a, b, c, d, x, y
  <1>9. pushes' <= 1 + y /\ (Due(p)' => pushes' <= y)
    <2>1. CASE pushes' = pushes /\ (Due(p)' => Due(p))
      BY <1>1, <1>6, <1>7, <2>1
    <2>2. CASE pushes' = pushes /\ (b < d \/ a + MaxRetries <= c)
      BY <1>1, <1>6, <1>7, <2>2
    <2>3. CASE pushes' \in {pushes, pushes + 1} /\ Due(p) /\ ~Due(p)'
      BY <1>1, <1>6, <1>7, <2>3
    <2> QED
      BY <1>8, <2>1, <2>2, <2>3
  <1> QED
    BY <1>3, <1>5, <1>9 DEF AccountOK

(* No mishap and no push.                                                  *)
LEMMA AccountMoved ==
  ASSUME IInv, IInv', NEW p \in Procs, AccountOK(p),
         UNCHANGED <<crashes, faults, edits, pushes>>,
         Met(p)' <= Met(p), Due(p)' => Due(p)
  PROVE  AccountOK(p)'
  <1>1. /\ crashes \in Nat /\ faults \in Nat /\ edits \in Nat
    BY GitCommitAssumption DEF IInv, CountersOK
  <1>2. Met(p) \in Nat /\ Met(p)' \in Nat
    BY MetType, MetTypeNext
  <1>3. /\ crashes <= crashes' /\ faults <= faults' /\ edits <= edits'
        /\ edits - Met(p) <= edits' - Met(p)'
    BY <1>1, <1>2
  <1>4. pushes' = pushes
    OBVIOUS
  <1> QED
    BY <1>3, <1>4, AccountKept

(* The reconcile is over: the update in hand has met nothing any more.     *)
LEMMA MetLeft ==
  ASSUME IInv, IInv', NEW p \in Procs, Leave(p)
  PROVE  pc'[p] = "idle" /\ Met(p)' = 0
  <1>1. pc'[p] = "idle" /\ tries'[p] = 0
    BY DEF Leave, GoTo, IInv, LocalsOK
  <1> QED
    BY <1>1, MetTypeNext

(* It is over for good, or the next one goes on with what was due.         *)
LEMMA AccountLeft ==
  ASSUME IInv, IInv', NEW p \in Procs, AccountOK(p), Leave(p),
         UNCHANGED <<crashes, faults, edits, pushes>>,
         IsSettled(Current') \/ Current'.gone \/ Due(p)
  PROVE  AccountOK(p)'
  <1>1. pc'[p] = "idle" /\ Met(p)' = 0
    BY MetLeft
  <1>2. Met(p)' <= Met(p)
    BY <1>1, MetType
  <1>3. Due(p)' => ~IsSettled(Current') /\ ~Current'.gone
    BY <1>1 DEF Due, IsSettled
  <1> QED
    BY <1>2, <1>3, AccountMoved

(* It ends in a mishap: whatever was due may have to be done once more.    *)
LEMMA AccountLost ==
  ASSUME IInv, IInv', NEW p \in Procs, AccountOK(p), Leave(p),
         UNCHANGED <<edits, pushes>>,
         \/ crashes' = crashes + 1 /\ UNCHANGED faults
         \/ faults' = faults + 1 /\ UNCHANGED crashes
         \/ UNCHANGED <<crashes, faults>> /\ Met(p) = MaxRetries
  PROVE  AccountOK(p)'
  <1>1. Met(p)' = 0
    BY MetLeft
  <1>2. /\ crashes \in Nat /\ faults \in Nat /\ edits \in Nat
    BY GitCommitAssumption DEF IInv, CountersOK
  <1>3. Met(p) \in Nat
    BY MetType
  <1>4. /\ crashes <= crashes' /\ faults <= faults' /\ edits <= edits'
        /\ edits - Met(p) <= edits' - Met(p)'
    BY <1>1, <1>2, <1>3
  <1>5. \/ crashes + faults < crashes' + faults'
        \/ edits - Met(p) + MaxRetries <= edits' - Met(p)'
    <2>1. CASE \/ crashes' = crashes + 1 /\ UNCHANGED faults
               \/ faults' = faults + 1 /\ UNCHANGED crashes
      BY <1>2, <2>1
    <2>2. CASE Met(p) = MaxRetries /\ UNCHANGED edits
      BY <1>1, <1>2, <1>3, <2>2
    <2> QED
      BY <2>1, <2>2
  <1>6. pushes' = pushes
    OBVIOUS
  <1> QED
    BY <1>4, <1>5, <1>6, AccountKept

(* A new version that is as settled as the old one, with the worker where  *)
(* it was: by the user's hand.                                             *)
LEMMA AccountEdited ==
  ASSUME IInv, IInv', NEW p \in Procs, AccountOK(p), UserEdit
  PROVE  AccountOK(p)'
  <1>1. UNCHANGED <<pc, want, tries, pushes, crashes, faults>> /\ edits' = edits + 1
    BY DEF UserEdit, workerVars, worldVars
  <1>2. PICK n \in ApiCounts : Write([Current EXCEPT !.apis = n])
    BY DEF UserEdit
  <1>3. Current \in Objects
    BY CurrentOK
  <1>4. /\ [Current EXCEPT !.apis = n] \in Objects
        /\ [Current EXCEPT !.apis = n].phase = Current.phase
        /\ [Current EXCEPT !.apis = n].gone = Current.gone
    BY <1>3, GitCommitAssumption DEF Objects
  <1>5. Current' = [Current EXCEPT !.apis = n]
    BY <1>2, <1>4, WriteType DEF IInv, StoreOK
  <1>6. Current'.phase = Current.phase /\ Current'.gone = Current.gone
    BY <1>4, <1>5
  <1>7. Due(p)' => Due(p)
    BY <1>1, <1>6 DEF Due, IsSettled
  <1>8. /\ crashes \in Nat /\ faults \in Nat /\ edits \in Nat
    BY GitCommitAssumption DEF IInv, CountersOK
  <1>9. Met(p) \in Nat /\ Met(p)' \in Nat /\ Met(p)' <= Met(p) + 1
    BY <1>1, MetType, MetTypeNext
  <1>10. /\ crashes <= crashes' /\ faults <= faults' /\ edits <= edits'
         /\ edits - Met(p) <= edits' - Met(p)'
    BY <1>1, <1>8, <1>9
  <1> QED
    BY <1>1, <1>7, <1>10, AccountKept

LEMMA AccountDeleted ==
  ASSUME IInv, IInv', NEW p \in Procs, AccountOK(p), UserDelete
  PROVE  AccountOK(p)'
  <1>1. UNCHANGED <<pc, want, tries, pushes, crashes, faults, edits>>
    BY DEF UserDelete, workerVars, worldVars, boundVars
  <1>2. Current \in Objects
    BY CurrentOK
  <1>3. [Current EXCEPT !.gone = TRUE] \in Objects /\ [Current EXCEPT !.gone = TRUE].gone
    BY <1>2 DEF Objects
  <1>4. Current'.gone
    BY <1>3, WriteType DEF UserDelete, IInv, StoreOK
  <1>5. ~Behind(p)'
    BY <1>4 DEF Behind
  <1>6. Met(p)' <= Met(p)
    BY <1>1, <1>5, MetType, MetTypeNext
  <1>7. Due(p)' => Due(p)
    BY <1>1, <1>4 DEF Due
  <1> QED
    BY <1>1, <1>6, <1>7, AccountMoved

(* What performGitCommit was called for is no longer due.                  *)
LEMMA AccountPushed ==
  ASSUME IInv, IInv', NEW p \in Procs, AccountOK(p), GitPushed(p) \/ GitFailed(p)
  PROVE  AccountOK(p)'
  <1>1. /\ pc[p] = "git" /\ pushes' \in {pushes, pushes + 1}
        /\ UNCHANGED <<edits, crashes, faults>>
    BY DEF GitPushed, GitFailed, At, boundVars
  <1>2. pc'[p] = "get" /\ want'[p] \in {"Committed", "Failed"} /\ tries'[p] = 0
    BY DEF GitPushed, GitFailed, UpdateStatus, GoTo, IInv, LocalsOK
  <1>3. Due(p) /\ ~Due(p)'
    BY <1>1, <1>2 DEF Due
  <1>4. /\ crashes \in Nat /\ faults \in Nat /\ edits \in Nat
    BY GitCommitAssumption DEF IInv, CountersOK
  <1>5. Met(p) \in Nat /\ Met(p)' = 0
    BY <1>2, MetType, MetTypeNext
  <1>6. /\ crashes <= crashes' /\ faults <= faults' /\ edits <= edits'
        /\ edits - Met(p) <= edits' - Met(p)'
    BY <1>1, <1>4, <1>5
  <1> QED
    BY <1>1, <1>3, <1>6, AccountKept

(* A reconcile begins: on an object that needs work, or to delete it.      *)
LEMMA AccountBegun ==
  ASSUME OneCurrentProcess, IInv, IInv', NEW p \in Procs, AccountOK(p),
         ReconcileExpired(p) \/ Start(p) \/ Resume(p)
  PROVE  AccountOK(p)'
  <1>1. /\ At(p, "idle") /\ ~Current.gone
        /\ UNCHANGED <<versions, edits, crashes, faults, pushes>>
    BY ViewIsCurrent DEF ReconcileExpired, Start, Resume, BeginWork, Begin, worldVars,
                         boundVars
  <1>2. Current' = Current
    BY <1>1 DEF Current, RV
  <1>3. CASE ReconcileExpired(p)
    <2>1. pc'[p] = "delete" /\ UNCHANGED tries
      BY <1>3 DEF ReconcileExpired, GoTo, IInv, LocalsOK
    <2>2. Met(p)' <= Met(p)
      BY <1>1, <2>1, MetType, MetTypeNext
    <2>3. Due(p)' => Due(p)
      BY <1>1, <1>2, <2>1 DEF Due, At
    <2> QED
      BY <1>1, <2>2, <2>3, AccountMoved
  <1>4. CASE Start(p) \/ Resume(p)
    <2>1. pc'[p] # "put" /\ (tries'[p] = 0 \/ tries'[p] = tries[p])
      BY <1>4 DEF Start, Resume, UpdateStatus, GoTo, IInv, LocalsOK
    <2>2. Met(p)' <= Met(p)
      BY <1>1, <2>1, MetType, MetTypeNext
    <2>3. ~IsSettled(Current)
      BY <1>4, ViewIsCurrent DEF Start, Resume, BeginWork
    <2>4. Due(p)
      BY <1>1, <2>3 DEF Due, At
    <2> QED
      BY <1>1, <2>2, <2>4, AccountMoved
  <1> QED
    BY <1>3, <1>4

LEMMA AccountDelete ==
  ASSUME IInv, IInv', NEW p \in Procs, AccountOK(p), Delete(p)
  PROVE  AccountOK(p)'
  <1>1. Leave(p) /\ UNCHANGED <<edits, crashes, faults, pushes>>
    BY DEF Delete, Return, worldVars, boundVars
  <1>2. Current'.gone
    <2>1. CASE Current.gone /\ UNCHANGED versions
      BY <2>1 DEF Current, RV
    <2>2. CASE Write([Current EXCEPT !.gone = TRUE])
      <3>1. /\ [Current EXCEPT !.gone = TRUE] \in Objects
            /\ [Current EXCEPT !.gone = TRUE].gone
        BY CurrentOK DEF Objects
      <3> QED
        BY <2>2, <3>1, WriteType DEF IInv, StoreOK
    <2> QED
      BY <2>1, <2>2 DEF Delete
  <1> QED
    BY <1>1, <1>2, AccountLeft

(* updateStatus: the read, and the ways a write ends without one.          *)
LEMMA AccountStatus ==
  ASSUME OneCurrentProcess, IInv, IInv', NEW p \in Procs, AccountOK(p),
         StatusGet(p) \/ PutConflict(p) \/ PutNotFound(p)
  PROVE  AccountOK(p)'
  <1>1. UNCHANGED <<versions, edits, crashes, faults, pushes>>
    BY DEF StatusGet, PutConflict, PutNotFound, worldVars, boundVars
  <1>2. Current' = Current
    BY <1>1 DEF Current, RV
  <1>3. View(p) = Current /\ Seen(p) = RV
    BY ViewIsCurrent
  <1>4. ASSUME Current.gone, UpdateFailed(p) PROVE AccountOK(p)'
    BY <1>1, <1>2, <1>4, AccountLeft DEF UpdateFailed, Return
  <1>5. CASE StatusGet(p)
    <2>1. CASE Current.gone
      BY <1>3, <1>4, <1>5, <2>1 DEF StatusGet
    <2>2. CASE ~Current.gone
      <3>1. /\ pc[p] = "get" /\ pc'[p] = "put" /\ fresh'[p] = RV
            /\ UNCHANGED <<want, tries>>
        BY <1>3, <1>5, <2>2 DEF StatusGet, GoTo, At, IInv, LocalsOK, StoreOK
      <3>2. ~Behind(p)'
        BY <1>1, <3>1 DEF Behind, RV
      <3>3. Met(p)' <= Met(p)
        BY <3>1, <3>2, MetType, MetTypeNext
      <3>4. Due(p)' => Due(p)
        BY <3>1 DEF Due
      <3> QED
        BY <1>1, <3>3, <3>4, AccountMoved
    <2> QED
      BY <2>1, <2>2
  <1>6. CASE PutConflict(p)
    <2>1. /\ pc[p] = "put" /\ Behind(p)
      BY <1>6 DEF PutConflict, Behind, At
    <2>2. CASE RetriesLeft(p)
      <3>1. pc'[p] = "get" /\ tries'[p] = tries[p] + 1 /\ UNCHANGED want
        BY <1>6, <2>2 DEF PutConflict, GoTo, IInv, LocalsOK
      <3>2. Met(p)' <= Met(p)
        BY <2>1, <3>1, MetType, MetTypeNext
      <3>3. Due(p)' => Due(p)
        BY <2>1, <3>1 DEF Due
      <3> QED
        BY <1>1, <3>2, <3>3, AccountMoved
    <2>3. CASE ~RetriesLeft(p)
      <3>1. Leave(p)
        BY <1>6, <2>3 DEF PutConflict, UpdateFailed, Return
      <3>2. MaxRetries \in Nat /\ MaxRetries <= tries[p] + 1
        BY <2>3, MetType, GitCommitAssumption DEF RetriesLeft
      <3>3. Met(p) = MaxRetries
        BY <2>1, <3>2, MetType
      <3> QED
        BY <1>1, <3>1, <3>3, AccountLost
    <2> QED
      BY <2>2, <2>3
  <1>7. CASE PutNotFound(p)
    BY <1>4, <1>7 DEF PutNotFound
  <1> QED
    BY <1>5, <1>6, <1>7

(* The write is accepted: the work goes on, will go on, or is settled.     *)
LEMMA AccountPut ==
  ASSUME IInv, InStep, IInv', NEW p \in Procs, AccountOK(p), PutOk(p)
  PROVE  AccountOK(p)'
  <1>1. /\ At(p, "put") /\ fresh[p] = RV /\ Write(Written(p)) /\ UpdateDone(p, Written(p))
        /\ UNCHANGED <<edits, crashes, faults, pushes>>
    BY DEF PutOk, worldVars, boundVars
  <1>2. Current'.phase = PhaseOf(want[p]) /\ want[p] \in Wants
    BY <1>1, WrittenPhase DEF IInv, LocalsOK
  <1>3. CASE want[p] = "Running"
    <2>1. pc'[p] = "gate" /\ UNCHANGED tries
      BY <1>1, <1>3 DEF UpdateDone, GoTo, IInv, LocalsOK
    <2>2. Met(p)' <= Met(p)
      BY <2>1, MetType, MetTypeNext
    <2>3. Due(p)
      BY <1>1, <1>3 DEF Due, At
    <2> QED
      BY <1>1, <2>2, <2>3, AccountMoved
  <1>4. CASE want[p] # "Running"
    <2>1. Leave(p)
      BY <1>1, <1>4 DEF UpdateDone, Return
    <2>2. CASE want[p] \in {"Committed", "Failed"}
      <3>1. IsSettled(Current')
        BY <1>2, <2>2 DEF IsSettled, PhaseOf
      <3> QED
        BY <1>1, <2>1, <3>1, AccountLeft
    <2>3. CASE want[p] \notin {"Committed", "Failed"}
      <3>1. Due(p)
        BY <1>1, <2>3 DEF Due, At
      <3> QED
        BY <1>1, <2>1, <3>1, AccountLeft
    <2> QED
      BY <2>2, <2>3
  <1> QED
    BY <1>3, <1>4

(* Between the Running update and the push everything is still due.        *)
LEMMA AccountWork ==
  ASSUME IInv, IInv', NEW p \in Procs, AccountOK(p),
         \/ GateOpen(p) \/ GateTripped(p) \/ GateRest(p) \/ RestAnswer(p)
         \/ RestError(p) \/ Auth(p)
  PROVE  AccountOK(p)'
  <1>1. /\ pc[p] \in {"gate", "rest", "auth"}
        /\ UNCHANGED <<edits, crashes, faults, pushes>>
    BY DEF GateOpen, GateTripped, GateRest, RestAnswer, RestError, Auth, At, worldVars,
           boundVars
  <1>2. \/ /\ GoTo(p, "auth") \/ GoTo(p, "rest") \/ GoTo(p, "git") \/ UNCHANGED pc
           /\ UNCHANGED tries
        \/ \E o, w : UpdateStatus(p, o, w)
    BY DEF GateOpen, GateTripped, GateRest, RestAnswer, RestError, Auth, NextApi
  <1>3. pc'[p] # "put" /\ (tries'[p] = 0 \/ tries'[p] = tries[p])
    <2>1. ASSUME NEW o, NEW w, UpdateStatus(p, o, w)
          PROVE  pc'[p] = "get" /\ tries'[p] = 0
      BY <2>1 DEF UpdateStatus, GoTo, IInv, LocalsOK
    <2>2. CASE /\ GoTo(p, "auth") \/ GoTo(p, "rest") \/ GoTo(p, "git") \/ UNCHANGED pc
               /\ UNCHANGED tries
      BY <1>1, <2>2 DEF GoTo, IInv, LocalsOK
    <2> QED
      BY <1>2, <2>1, <2>2
  <1>4. Met(p)' <= Met(p)
    BY <1>3, MetType, MetTypeNext
  <1>5. Due(p)
    BY <1>1 DEF Due
  <1> QED
    BY <1>1, <1>4, <1>5, AccountMoved

(* Nobody has written anything, and the worker has not moved.              *)
LEMMA AccountIdle ==
  ASSUME IInv, IInv', NEW p \in Procs, AccountOK(p),
         UNCHANGED <<versions, pc, fresh, want, tries, edits, crashes, faults, pushes>>
  PROVE  AccountOK(p)'
  <1>1. Current' = Current /\ RV' = RV
    BY DEF Current, RV
  <1>2. Behind(p)' = Behind(p) /\ Due(p)' = Due(p)
    BY <1>1 DEF Behind, Due, At
  <1>3. Met(p)' <= Met(p)
    BY <1>2, MetType, MetTypeNext
  <1> QED
    BY <1>2, <1>3, AccountMoved

LEMMA AccountNext ==
  ASSUME OneCurrentProcess, IInv, IInv', InStep, NEW p, Procs = {p}, AccountOK(p),
         [Next]_vars
  PROVE  AccountOK(p)'
  <1>1. p \in Procs
    OBVIOUS
  <1>2. CASE \/ UNCHANGED vars
             \/ ReconcileGone(p) \/ ReconcileSettled(p) \/ Watch(p) \/ Timer(p)
             \/ TTLPasses
    <2>1. UNCHANGED <<versions, pc, fresh, want, tries, edits, crashes, faults, pushes>>
      BY <1>2 DEF ReconcileGone, ReconcileSettled, Watch, Timer, Deliver, TimerFire,
                  TTLPasses, vars, kubeVars, workerVars, worldVars, boundVars
    <2> QED
      BY <1>1, <2>1, AccountIdle
  <1>3. CASE ReconcileExpired(p) \/ Start(p) \/ Resume(p)
    BY <1>1, <1>3, AccountBegun
  <1>4. CASE StatusGet(p) \/ PutConflict(p) \/ PutNotFound(p)
    BY <1>1, <1>4, AccountStatus
  <1>5. CASE PutFault(p) \/ DeleteFault(p)
    <2>1. /\ Leave(p) /\ UNCHANGED <<edits, crashes, pushes>> /\ faults' = faults + 1
      BY <1>5 DEF PutFault, DeleteFault, UpdateFailed, Return, worldVars
    <2> QED
      BY <1>1, <2>1, AccountLost
  <1>6. CASE Crash(p)
    <2>1. /\ Leave(p) /\ UNCHANGED <<edits, faults, pushes>> /\ crashes' = crashes + 1
      BY <1>6 DEF Crash, worldVars
    <2> QED
      BY <1>1, <2>1, AccountLost
  <1>7. CASE \/ GateOpen(p) \/ GateTripped(p) \/ GateRest(p) \/ RestAnswer(p)
             \/ RestError(p) \/ Auth(p)
    BY <1>1, <1>7, AccountWork
  <1>8. CASE GitPushed(p) \/ GitFailed(p)
    BY <1>1, <1>8, AccountPushed
  <1>9. CASE Delete(p)
    BY <1>1, <1>9, AccountDelete
  <1>10. CASE PutOk(p)
    BY <1>1, <1>10, AccountPut
  <1>11. CASE UserEdit
    BY <1>1, <1>11, AccountEdited
  <1>12. CASE UserDelete
    BY <1>1, <1>12, AccountDeleted
  <1> QED
    BY <1>1, <1>2, <1>3, <1>4, <1>5, <1>6, <1>7, <1>8, <1>9, <1>10, <1>11, <1>12
       DEF Next, System, Step, Environment

(* Nothing has been pushed yet, and the first push is due.                 *)
LEMMA AccountInit ==
  ASSUME Init, NEW p \in Procs
  PROVE  AccountOK(p)
  <1>1. pushes = 0 /\ tries[p] = 0 /\ pc[p] = "idle" /\ edits = 0 /\ crashes = 0 /\ faults = 0
    BY DEF Init
  <1>2. ~Behind(p)
    BY <1>1 DEF Behind, At
  <1>3. Met(p) = 0
    BY <1>1, <1>2 DEF Met
  <1>4. 0 \div MaxRetries \in Nat
    BY GitCommitAssumption, DivDef
  <1>5. Spare(p) = 0 + 0 + (0 - 0) \div MaxRetries
    BY <1>1, <1>3 DEF Spare
  <1>6. Spare(p) \in Nat
    BY <1>4, <1>5
  <1> QED
    BY <1>1, <1>3, <1>6 DEF AccountOK

(* The mishaps to spare are some of all mishaps.                           *)
LEMMA AccountBounds ==
  ASSUME IInv, NEW p \in Procs, AccountOK(p)
  PROVE  PushesAccounted
  <1> DEFINE a == edits - Met(p)
             x == a \div MaxRetries
             y == edits \div MaxRetries
  <1>1. /\ crashes \in Nat /\ faults \in Nat /\ edits \in Nat /\ pushes \in Nat
    BY GitCommitAssumption DEF IInv, CountersOK
  <1>2. Met(p) \in Nat /\ Met(p) <= edits
    BY MetType DEF AccountOK
  <1>3. a \in Nat /\ a <= edits
    BY <1>1, <1>2
  <1>4. x \in Nat /\ y \in Nat /\ x <= y
    <2> HIDE DEF a
    <2> QED
      BY <1>1, <1>3, DivDef, DivLe, GitCommitAssumption
  <1>5. pushes <= 1 + (crashes + faults + x)
    BY DEF AccountOK, Spare
  <1> HIDE DEF a, x, y
  <1>6. pushes <= 1 + crashes + faults + y
    BY <1>1, <1>4, <1>5
  <1> QED
    BY <1>6 DEF PushesAccounted, y

(* With one process and an up-to-date view the resource is pushed once,    *)
(* and once more at most for every crash, every failed call to the API     *)
(* server, and every MaxRetries edits that fall into one status update     *)
(* (Reconcile with updateStatus): however these are spread over the run.   *)
THEOREM PushesBounded ==
  ASSUME OneCurrentProcess
  PROVE  Spec => []PushesAccounted
  <1>1. PICK p : Procs = {p}
    BY DEF OneCurrentProcess
  <1>2. Init => InStep /\ AccountOK(p)
    BY <1>1, InStepInit, AccountInit
  <1>3. IInv /\ InStep /\ [Next]_vars => InStep'
    BY InStepNext
  <1>4. IInv /\ IInv' /\ InStep /\ AccountOK(p) /\ [Next]_vars => AccountOK(p)'
    BY <1>1, AccountNext
  <1>5. IInv /\ AccountOK(p) => PushesAccounted
    BY <1>1, AccountBounds
  <1> QED
    BY <1>2, <1>3, <1>4, <1>5, Invariance, PTL DEF Spec

-----------------------------------------------------------------------------
(* The accounts of requests.                                               *)

(* No step takes a mishap from those to spare, and an update that is given *)
(* up while the resource is there has cost one.                            *)
LEMMA SpareMoved ==
  ASSUME IInv, IInv', NEW p \in Procs, Met(p) <= edits,
         crashes <= crashes', faults <= faults', edits <= edits',
         edits - Met(p) <= edits' - Met(p)'
  PROVE  /\ Spare(p) \in Nat /\ Spare(p)' \in Nat /\ Spare(p) <= Spare(p)'
         /\ \/ crashes + faults < crashes' + faults'
            \/ edits - Met(p) + MaxRetries <= edits' - Met(p)'
            => Spare(p) + 1 <= Spare(p)'
  <1> DEFINE a == edits - Met(p)
             b == crashes + faults
             c == edits' - Met(p)'
             d == crashes' + faults'
             x == b + a \div MaxRetries
             y == d + c \div MaxRetries
  <1>1. /\ crashes \in Nat /\ faults \in Nat /\ edits \in Nat
        /\ crashes' \in Nat /\ faults' \in Nat /\ edits' \in Nat
    BY GitCommitAssumption DEF IInv, CountersOK
  <1>2. Met(p) \in Nat /\ Met(p)' \in Nat
    BY MetType, MetTypeNext
  <1>3. a \in Nat /\ c \in Nat /\ a <= c
    BY <1>1, <1>2
  <1>4. b \in Nat /\ d \in Nat /\ b <= d
    BY <1>1, SumLe
  <1>5. Spare(p) = x /\ Spare(p)' = y
    BY DEF Spare
  <1>6. /\ x \in Nat /\ y \in Nat /\ x <= y
        /\ b < d \/ a + MaxRetries <= c => x + 1 <= y
    <2> HIDE DEF a, b, c, d
    <2> QED
      BY <1>3, <1>4, SpareGrows
  <1> QED
    BY <1>5, <1>6

LEMMA SpareKept ==
  ASSUME IInv, IInv', NEW p \in Procs, Met(p) <= edits,
         UNCHANGED <<crashes, faults, edits>>, Met(p)' <= Met(p)
  PROVE  Spare(p) \in Nat /\ Spare(p)' \in Nat /\ Spare(p) <= Spare(p)'
  <1>1. crashes \in Nat /\ faults \in Nat /\ edits \in Nat
    BY GitCommitAssumption DEF IInv, CountersOK
  <1>2. Met(p) \in Nat /\ Met(p)' \in Nat
    BY MetType, MetTypeNext
  <1>3. /\ crashes <= crashes' /\ faults <= faults' /\ edits <= edits'
        /\ edits - Met(p) <= edits' - Met(p)'
    BY <1>1, <1>2
  <1> QED
    BY <1>3, SpareMoved

LEMMA SpareLost ==
  ASSUME IInv, IInv', NEW p \in Procs, Met(p) <= edits, Leave(p), UNCHANGED edits,
         \/ crashes' = crashes + 1 /\ UNCHANGED faults
         \/ faults' = faults + 1 /\ UNCHANGED crashes
         \/ UNCHANGED <<crashes, faults>> /\ Met(p) = MaxRetries
  PROVE  Spare(p) \in Nat /\ Spare(p)' \in Nat /\ Spare(p) + 1 <= Spare(p)'
  <1>1. crashes \in Nat /\ faults \in Nat /\ edits \in Nat
    BY GitCommitAssumption DEF IInv, CountersOK
  <1>2. Met(p) \in Nat /\ Met(p)' = 0
    BY MetType, MetLeft
  <1>3. /\ crashes <= crashes' /\ faults <= faults' /\ edits <= edits'
        /\ edits - Met(p) <= edits' - Met(p)'
    BY <1>1, <1>2
  <1>4. \/ crashes + faults < crashes' + faults'
        \/ edits - Met(p) + MaxRetries <= edits' - Met(p)'
    <2>1. CASE \/ crashes' = crashes + 1 /\ UNCHANGED faults
               \/ faults' = faults + 1 /\ UNCHANGED crashes
      BY <1>1, <2>1
    <2>2. CASE Met(p) = MaxRetries /\ UNCHANGED edits
      BY <1>1, <1>2, <2>2
    <2> QED
      BY <2>1, <2>2
  <1> QED
    BY <1>3, <1>4, SpareMoved

(* Arithmetic: n requests for each of x executions, m for one more.        *)
LEMMA RoomKept ==
  ASSUME NEW a \in Nat, NEW n \in Nat, NEW x \in Nat, NEW y \in Nat,
         NEW m \in Nat, NEW k \in Nat, a <= n * x + m,
         \/ x <= y /\ m <= k
         \/ x + 1 <= y /\ m <= n
  PROVE  a <= n * y + k
  <1>1. CASE x <= y /\ m <= k
    <2>1. n * x <= n * y
      BY <1>1
    <2>2. n * x \in Nat /\ n * y \in Nat
      OBVIOUS
    <2> QED
      BY <1>1, <2>1, <2>2
  <1>2. CASE x + 1 <= y /\ m <= n
    <2>1. n * (x + 1) <= n * y
      BY <1>2
    <2>2. n * (x + 1) = n * x + n
      OBVIOUS
    <2>3. n * x \in Nat /\ n * y \in Nat
      OBVIOUS
    <2> QED
      BY <1>2, <2>1, <2>2, <2>3
  <1> QED
    BY <1>1, <1>2

LEMMA RoomWidened ==
  ASSUME NEW a \in Nat, NEW n \in Nat, NEW q \in Nat, NEW x \in Nat, NEW m \in Nat,
         n <= q, a <= n * x + m
  PROVE  a <= q * x + m
  <1>1. n * x <= q * x
    OBVIOUS
  <1>2. n * x \in Nat /\ q * x \in Nat
    OBVIOUS
  <1> QED
    BY <1>1, <1>2

(* Executions: MaxCalls for each of i edits, and s more.                   *)
LEMMA RunsGrow ==
  ASSUME NEW i \in Nat, NEW j \in Nat, NEW s \in Nat, NEW t \in Nat, i <= j, s <= t
  PROVE  /\ MaxCalls * i + s \in Nat /\ MaxCalls * j + t \in Nat
         /\ MaxCalls * i + s <= MaxCalls * j + t
  <1>1. MaxCalls \in Nat \ {0}
    BY GitCommitAssumption
  <1>2. MaxCalls * i \in Nat /\ MaxCalls * j \in Nat /\ MaxCalls * i <= MaxCalls * j
    BY <1>1
  <1> QED
    BY <1>2

LEMMA RunsRestart ==
  ASSUME NEW i \in Nat, NEW j \in Nat, i + 1 <= j
  PROVE  /\ MaxCalls * i \in Nat /\ MaxCalls * j \in Nat
         /\ MaxCalls * i + MaxCalls <= MaxCalls * j
  <1>1. MaxCalls \in Nat \ {0}
    BY GitCommitAssumption
  <1>2. MaxCalls * (i + 1) <= MaxCalls * j
    BY <1>1
  <1>3. MaxCalls * (i + 1) = MaxCalls * i + MaxCalls
    BY <1>1
  <1>4. MaxCalls * i \in Nat /\ MaxCalls * j \in Nat
    BY <1>1
  <1> QED
    BY <1>2, <1>3, <1>4

LEMMA BitType == ASSUME NEW b \in BOOLEAN PROVE Bit(b) \in {0, 1} /\ Bit(b) \in Nat
  BY DEF Bit

LEMMA CountType2 ==
  ASSUME NEW o \in Objects
  PROVE  Count(o) \in Nat /\ Len(o.calls) \in Nat
  <1>1. o.calls \in Seq(Nat)
    BY DEF Objects
  <1> QED
    BY <1>1 DEF Count

(* The types of what the accounts speak of.                                *)
LEMMA RequestTypes ==
  ASSUME IInv, NEW p \in Procs
  PROVE  /\ apiCalls \in Nat /\ edits \in Nat /\ MaxCalls \in Nat \ {0}
         /\ versions \in Seq(Objects) /\ RV \in Nat /\ RV >= 1
         /\ Current \in Objects /\ obj[p] \in Objects
         /\ Current.apis \in Nat /\ obj[p].apis \in Nat /\ Asked(p) \in Nat
         /\ Current.calls \in Seq(Nat) /\ obj[p].calls \in Seq(Nat)
         /\ Len(Current.calls) \in Nat /\ Len(obj[p].calls) \in Nat
         /\ Count(Current) \in Nat /\ Count(Current) <= MaxCalls
         /\ Bit(Outdated(p)) \in {0, 1} /\ Bit(Asked(p) # Current.apis) \in {0, 1}
         /\ Resets(p) \in Nat
         /\ Made(p) \in Nat /\ Made(p) <= obj[p].apis
         /\ pc[p] \in PCs /\ want[p] \in Wants /\ api[p] \in Nat \ {0}
         /\ At(p, "rest") => Len(obj[p].calls) = obj[p].apis /\ api[p] \in 1 .. obj[p].apis
  <1>1. /\ apiCalls \in Nat /\ edits \in Nat /\ MaxCalls \in Nat \ {0}
        /\ versions \in Seq(Objects) /\ RV \in Nat /\ RV >= 1
        /\ Current \in Objects /\ obj[p] \in Objects
        /\ pc[p] \in PCs /\ want[p] \in Wants /\ api[p] \in Nat \ {0}
    BY CurrentOK, GitCommitAssumption DEF IInv, StoreOK, LocalsOK, CountersOK
  <1>2. /\ Current.apis \in Nat /\ obj[p].apis \in Nat
        /\ Current.calls \in Seq(Nat) /\ obj[p].calls \in Seq(Nat)
    BY <1>1 DEF Objects
  <1>3. Asked(p) \in Nat
    BY <1>2 DEF Asked
  <1>4. Count(Current) \in Nat /\ Count(Current) <= MaxCalls
    <2>1. CASE Current.calls = <<>>
      BY <1>1, <2>1 DEF Count
    <2>2. CASE Current.calls # <<>>
      <3>1. 1 \in DOMAIN Current.calls
        BY <1>2, <2>2
      <3>2. Current.calls[1] <= MaxCalls
        BY <3>1, CurrentOK DEF Sound
      <3>3. Current.calls[1] \in Nat
        BY <1>2, <3>1
      <3> QED
        BY <2>2, <3>2, <3>3 DEF Count
    <2> QED
      BY <2>1, <2>2
  <1>5. Bit(Outdated(p)) \in {0, 1} /\ Bit(Asked(p) # Current.apis) \in {0, 1}
    BY DEF Bit
  <1>6. Resets(p) \in Nat
    BY <1>5 DEF Resets
  <1>7. At(p, "rest") => Len(obj[p].calls) = obj[p].apis /\ api[p] \in 1 .. obj[p].apis
    BY DEF IInv, LocalsOK, SlotsFit
  <1>8. Made(p) \in Nat /\ Made(p) <= obj[p].apis
    BY <1>1, <1>2, <1>7 DEF Made
  <1> QED
    BY <1>1, <1>2, <1>3, <1>4, <1>5, <1>6, <1>7, <1>8

LEMMA RequestTypesNext ==
  ASSUME IInv', NEW p \in Procs
  PROVE  /\ apiCalls' \in Nat /\ edits' \in Nat /\ Count(Current)' \in Nat
         /\ Resets(p)' \in Nat /\ Made(p)' \in Nat /\ Made(p)' <= obj'[p].apis
         /\ Current'.apis \in Nat /\ obj'[p].apis \in Nat /\ Asked(p)' \in Nat
         /\ At(p, "rest")' => Len(obj'[p].calls) = obj'[p].apis
                              /\ api'[p] \in 1 .. obj'[p].apis
  <1>1. /\ apiCalls' \in Nat /\ edits' \in Nat
        /\ versions' \in Seq(Objects) /\ RV' \in Nat /\ RV' >= 1 /\ obj'[p] \in Objects
        /\ api'[p] \in Nat \ {0}
    BY GitCommitAssumption DEF IInv, StoreOK, LocalsOK, CountersOK, RV
  <1>2. Current' \in Objects
    BY <1>1 DEF Current, RV
  <1>3. /\ Current'.apis \in Nat /\ obj'[p].apis \in Nat /\ Current'.calls \in Seq(Nat)
    BY <1>1, <1>2 DEF Objects
  <1>4. Asked(p)' \in Nat
    BY <1>3 DEF Asked
  <1>5. Count(Current)' \in Nat
    BY <1>3 DEF Count
  <1>6. Resets(p)' \in Nat
    BY DEF Resets, Bit
  <1>7. At(p, "rest")' => Len(obj'[p].calls) = obj'[p].apis /\ api'[p] \in 1 .. obj'[p].apis
    BY DEF IInv, LocalsOK, SlotsFit
  <1>8. Made(p)' \in Nat /\ Made(p)' <= obj'[p].apis
    BY <1>1, <1>3, <1>7 DEF Made, At
  <1> QED
    BY <1>1, <1>3, <1>4, <1>5, <1>6, <1>7, <1>8

(* The numbers that the steps of the accounts compare.                     *)
LEMMA ResetsType ==
  ASSUME IInv, IInv', NEW p \in Procs
  PROVE  /\ edits \in Nat /\ edits' \in Nat
         /\ Resets(p) \in Nat /\ Resets(p)' \in Nat
         /\ Made(p) \in Nat /\ Made(p)' \in Nat
  <1>1. edits \in Nat /\ Resets(p) \in Nat /\ Made(p) \in Nat
    BY RequestTypes
  <1>2. edits' \in Nat /\ Resets(p)' \in Nat /\ Made(p)' \in Nat
    BY RequestTypesNext
  <1> QED
    BY <1>1, <1>2

LEMMA PublishedApis ==
  ASSUME IInv, NEW p \in Procs, NEW n \in Nat, RequestsOK(n, p)
  PROVE  Current.apis <= n
  <1>1. RV \in 1 .. RV
    BY DEF IInv, StoreOK, RV
  <1> QED
    BY <1>1 DEF RequestsOK, Current

(* Arithmetic: the bound on all requests only grows.                       *)
LEMMA TotalKept ==
  ASSUME NEW a \in Nat, NEW n \in Nat, NEW e \in Nat, NEW f \in Nat,
         NEW s \in Nat, NEW t \in Nat, e <= f, s <= t,
         a <= n * (MaxCalls * (1 + e) + s)
  PROVE  a <= n * (MaxCalls * (1 + f) + t)
  <1> DEFINE x == MaxCalls * (1 + e) + s
             y == MaxCalls * (1 + f) + t
  <1>1. x \in Nat /\ y \in Nat /\ x <= y
    <2>1. 1 + e \in Nat /\ 1 + f \in Nat /\ 1 + e <= 1 + f
      OBVIOUS
    <2> QED
      BY <2>1, RunsGrow
  <1> HIDE DEF x, y
  <1>2. n * x \in Nat /\ n * y \in Nat
    BY <1>1
  <1>3. a <= n * x + 0
    BY <1>2 DEF x
  <1>4. a <= n * y + 0
    BY <1>1, <1>3, RoomKept
  <1> QED
    BY <1>2, <1>4 DEF y

(* A step that makes no request and publishes no counter.                  *)
LEMMA RequestsKept ==
  ASSUME IInv, IInv', NEW p \in Procs, NEW n \in Nat, RequestsOK(n, p),
         apiCalls' = apiCalls, edits <= edits',
         Spare(p) \in Nat, Spare(p)' \in Nat, Spare(p) <= Spare(p)',
         \A k \in 1 .. RV' : versions'[k].apis <= n, obj'[p].apis <= n, HandOK(p)',
         Open(p)' => /\ Open(p)
                     /\ Current'.calls = Current.calls
                     /\ edits + Resets(p)' <= edits' + Resets(p)
                     /\ Made(p) <= Made(p)' \/ Spare(p) + 1 <= Spare(p)'
  PROVE  RequestsOK(n, p)'
  <1> DEFINE c == Count(Current)
             s == Spare(p)
             t == Spare(p)'
  <1>1. /\ apiCalls \in Nat /\ edits \in Nat /\ c \in Nat /\ Resets(p) \in Nat
        /\ Made(p) \in Nat /\ Made(p) <= n
        /\ edits' \in Nat /\ Resets(p)' \in Nat /\ Made(p)' \in Nat
        /\ s \in Nat /\ t \in Nat /\ s <= t /\ edits <= edits'
    <2>1. Made(p) <= obj[p].apis /\ obj[p].apis <= n /\ obj[p].apis \in Nat /\ Made(p) \in Nat
      BY RequestTypes DEF RequestsOK
    <2>2. apiCalls \in Nat /\ edits \in Nat /\ c \in Nat /\ Resets(p) \in Nat
      BY RequestTypes
    <2>3. edits' \in Nat /\ Resets(p)' \in Nat /\ Made(p)' \in Nat
      BY RequestTypesNext
    <2>4. Made(p) <= n
      BY <2>1, RequestTypes
    <2> QED
      BY <2>1, <2>2, <2>3, <2>4
  <1>2. apiCalls' <= n * (MaxCalls * (1 + edits') + Spare(p)')
    <2>1. apiCalls <= n * (MaxCalls * (1 + edits) + s)
      BY DEF RequestsOK
    <2> HIDE DEF s, t
    <2>2. apiCalls <= n * (MaxCalls * (1 + edits') + t)
      BY <1>1, <2>1, TotalKept
    <2> QED
      BY <2>2 DEF t
  <1>3. ASSUME Open(p)'
        PROVE  Resets(p)' <= edits' /\ apiCalls' <= n * Executions(p)' + Made(p)'
    <2>1. /\ Open(p) /\ Current'.calls = Current.calls
          /\ edits + Resets(p)' <= edits' + Resets(p)
          /\ Made(p) <= Made(p)' \/ Spare(p) + 1 <= Spare(p)'
      BY <1>3
    <2>2. Resets(p) <= edits /\ apiCalls <= n * Executions(p) + Made(p)
      BY <2>1 DEF RequestsOK
    <2> DEFINE i == edits - Resets(p)
               j == edits' - Resets(p)'
    <2>3. i \in Nat /\ j \in Nat /\ i <= j /\ Resets(p)' <= edits'
      BY <1>1, <2>1, <2>2
    <2>4. Executions(p) = MaxCalls * i + c + s /\ Executions(p)' = MaxCalls * j + c + t
      BY <2>1 DEF Executions, Count
    <2> DEFINE x == MaxCalls * i + (c + s)
               y == MaxCalls * j + (c + t)
    <2> HIDE DEF i, j, c, s, t
    <2>5. /\ x \in Nat /\ y \in Nat /\ x <= y
          /\ s + 1 <= t => x + 1 <= y
      <3>1. c + s \in Nat /\ c + t \in Nat /\ c + s <= c + t
        BY <1>1
      <3>2. x \in Nat /\ y \in Nat /\ x <= y
        BY <2>3, <3>1, RunsGrow
      <3>3. ASSUME s + 1 <= t PROVE x + 1 <= y
        <4>1. c + s + 1 \in Nat /\ c + s + 1 <= c + t
          BY <1>1, <3>3
        <4>2. MaxCalls * i + (c + s + 1) <= MaxCalls * j + (c + t)
          BY <2>3, <3>1, <4>1, RunsGrow
        <4>3. MaxCalls * i \in Nat
          BY <2>3, GitCommitAssumption
        <4> DEFINE g == MaxCalls * i
        <4>4. g \in Nat /\ c \in Nat /\ s \in Nat /\ g + (c + s + 1) <= y /\ y \in Nat
          BY <1>1, <3>2, <4>2, <4>3 DEF y
        <4> HIDE DEF g, y
        <4>5. g + (c + s) + 1 <= y
          BY <4>4
        <4> QED
          BY <4>5 DEF g
      <3> QED
        BY <3>2, <3>3
    <2>6. Executions(p) = x /\ Executions(p)' = y
      <3>1. MaxCalls * i \in Nat /\ MaxCalls * j \in Nat
        BY <2>3, GitCommitAssumption
      <3> QED
        BY <1>1, <2>4, <3>1
    <2> HIDE DEF x, y
    <2>7. Made(p) <= Made(p)' \/ x + 1 <= y
      BY <2>1, <2>5 DEF s, t
    <2>8. apiCalls <= n * y + Made(p)'
      BY <1>1, <2>2, <2>5, <2>6, <2>7, RoomKept
    <2> QED
      BY <2>3, <2>6, <2>8
  <1> QED
    BY <1>2, <1>3 DEF RequestsOK

(* While the published counters stay, an edit makes at most one reset more. *)
LEMMA ResetsKept ==
  ASSUME IInv, IInv', NEW p \in Procs, Current'.calls = Current.calls
  PROVE  /\ Current'.apis = Current.apis /\ Asked(p)' \in {Asked(p), Current.apis}
            => Resets(p)' <= Resets(p)
         /\ \/ Asked(p)' = Asked(p)
            \/ Asked(p) = Current.apis /\ Asked(p)' = Current'.apis
            => Resets(p)' <= Resets(p) + 1
  <1> DEFINE l == Len(Current.calls)
             a == Asked(p)
             b == Asked(p)'
             c == Current.apis
             d == Current'.apis
  <1>1. /\ Resets(p) = Bit(l \notin {0, a}) + Bit(a # c)
        /\ Resets(p)' = Bit(l \notin {0, b}) + Bit(b # d)
    BY DEF Resets, Outdated, Bit
  <1> HIDE DEF l, a, b, c, d
  <1>2. d = c /\ b \in {a, c} => Resets(p)' <= Resets(p)
    BY <1>1 DEF Bit
  <1>3. b = a \/ (a = c /\ b = d) => Resets(p)' <= Resets(p) + 1
    BY <1>1 DEF Bit
  <1> QED
    BY <1>2, <1>3 DEF a, b, c, d

(* Nobody writes, nobody asks: the execution goes on with what it holds,   *)
(* or is over without one to come.                                         *)
LEMMA RequestsCalm ==
  ASSUME IInv, IInv', NEW p \in Procs, NEW n \in Nat, RequestsOK(n, p), AccountOK(p),
         UNCHANGED <<versions, apiCalls, edits, crashes, faults>>,
         Met(p)' <= Met(p), obj'[p].apis <= n, HandOK(p)',
         Open(p)' => /\ Open(p)
                     /\ Made(p) <= Made(p)'
                     /\ Asked(p)' \in {Asked(p), Current.apis}
  PROVE  RequestsOK(n, p)'
  <1>1. Current' = Current /\ RV' = RV
    BY DEF Current, RV
  <1>2. Spare(p) \in Nat /\ Spare(p)' \in Nat /\ Spare(p) <= Spare(p)'
    BY SpareKept DEF AccountOK
  <1>3. edits \in Nat /\ edits' = edits
    BY RequestTypes
  <1>4. \A k \in 1 .. RV' : versions'[k].apis <= n
    BY <1>1 DEF RequestsOK
  <1>5. ASSUME Open(p)'
        PROVE  edits + Resets(p)' <= edits' + Resets(p)
    <2>1. Resets(p)' <= Resets(p)
      BY <1>1, <1>5, ResetsKept
    <2> QED
      BY <1>3, <2>1, ResetsType
  <1>6. apiCalls' = apiCalls /\ edits <= edits'
    BY <1>3
  <1> QED
    BY <1>1, <1>2, <1>4, <1>5, <1>6, RequestsKept

(* A worker that has left holds nothing.                                   *)
LEMMA RequestsLeft ==
  ASSUME IInv, IInv', NEW p \in Procs, NEW n \in Nat, RequestsOK(n, p), Leave(p)
  PROVE  /\ obj'[p].apis <= n /\ HandOK(p)' /\ ~InHand(p)'
         /\ Asked(p)' = Current'.apis
         /\ Open(p)' => ~IsSettled(Current') /\ ~Current'.gone
  <1>1. pc'[p] = "idle" /\ obj'[p] = versions[1]
    BY DEF Leave, GoTo, IInv, LocalsOK
  <1>2. obj'[p].apis <= n
    BY <1>1 DEF RequestsOK, IInv, StoreOK
  <1>3. HandOK(p)' /\ ~InHand(p)'
    BY <1>1 DEF HandOK, InHand, At
  <1> QED
    BY <1>2, <1>3 DEF Asked, Open, IsSettled

(* It has left for good.                                                   *)
LEMMA RequestsOver ==
  ASSUME IInv, IInv', NEW p \in Procs, NEW n \in Nat, RequestsOK(n, p), Leave(p),
         UNCHANGED apiCalls, edits <= edits', Spare(p) \in Nat, Spare(p)' \in Nat,
         Spare(p) <= Spare(p)',
         \A k \in 1 .. RV' : versions'[k].apis <= n,
         IsSettled(Current') \/ Current'.gone
  PROVE  RequestsOK(n, p)'
  <1>1. obj'[p].apis <= n /\ HandOK(p)' /\ ~Open(p)'
    BY RequestsLeft
  <1>2. apiCalls' = apiCalls
    OBVIOUS
  <1> QED
    BY <1>1, <1>2, RequestsKept

(* It has lost what it held, in a mishap.                                  *)
LEMMA RequestsLost ==
  ASSUME IInv, IInv', NEW p \in Procs, NEW n \in Nat, RequestsOK(n, p), AccountOK(p),
         Leave(p), UNCHANGED <<versions, edits, apiCalls>>,
         \/ crashes' = crashes + 1 /\ UNCHANGED faults
         \/ faults' = faults + 1 /\ UNCHANGED crashes
         \/ UNCHANGED <<crashes, faults>> /\ Met(p) = MaxRetries
  PROVE  RequestsOK(n, p)'
  <1>1. Spare(p) \in Nat /\ Spare(p)' \in Nat /\ Spare(p) + 1 <= Spare(p)'
    BY SpareLost DEF AccountOK
  <1>2. Spare(p) <= Spare(p)'
    BY <1>1
  <1>3. Current' = Current /\ RV' = RV /\ apiCalls' = apiCalls
    BY DEF Current, RV
  <1>4. edits \in Nat /\ edits' = edits /\ edits <= edits'
    BY RequestTypes
  <1>5. \A k \in 1 .. RV' : versions'[k].apis <= n
    BY <1>3 DEF RequestsOK
  <1>6. obj'[p].apis <= n /\ HandOK(p)'
    BY RequestsLeft
  <1>7. ASSUME Open(p)'
        PROVE  Open(p) /\ edits + Resets(p)' <= edits' + Resets(p)
    <2>1. Open(p) /\ Asked(p)' = Current.apis
      BY <1>3, <1>7, RequestsLeft DEF Open
    <2>2. Resets(p)' <= Resets(p)
      BY <1>3, <2>1, ResetsKept
    <2> QED
      BY <1>4, <2>1, <2>2, ResetsType
  <1> QED
    BY <1>1, <1>2, <1>3, <1>4, <1>5, <1>6, <1>7, RequestsKept

(* A reconcile begins: its first status update, or the gate, starts from   *)
(* the counters that are published.                                        *)
LEMMA RequestsBegun ==
  ASSUME OneCurrentProcess, IInv, IInv', NEW p \in Procs, NEW n \in Nat,
         RequestsOK(n, p), AccountOK(p), ReconcileExpired(p) \/ Start(p) \/ Resume(p)
  PROVE  RequestsOK(n, p)'
  <1>1. /\ At(p, "idle") /\ ~Current.gone /\ View(p) = Current
        /\ UNCHANGED <<versions, apiCalls, edits, crashes, faults>>
    BY ViewIsCurrent DEF ReconcileExpired, Start, Resume, BeginWork, Begin, worldVars,
                         boundVars
  <1>2. Current' = Current
    BY <1>1 DEF Current, RV
  <1>3. Current.apis <= n
    BY PublishedApis
  <1>4. ~InHand(p)
    BY <1>1 DEF InHand, At
  <1>5. CASE ReconcileExpired(p)
    <2>1. pc'[p] = "delete" /\ UNCHANGED <<tries, obj>>
      BY <1>5 DEF ReconcileExpired, GoTo, IInv, LocalsOK
    <2>2. Met(p)' <= Met(p)
      BY <2>1, MetType, MetTypeNext
    <2>3. ~InHand(p)' /\ HandOK(p)' /\ obj'[p].apis <= n
      BY <2>1 DEF InHand, HandOK, At, RequestsOK
    <2>4. Asked(p)' = Asked(p) /\ Made(p) = 0 /\ Made(p)' = 0 /\ (Open(p)' => Open(p))
      BY <1>2, <1>4, <2>3 DEF Asked, Made, Open
    <2> QED
      BY <1>1, <2>2, <2>3, <2>4, RequestsCalm
  <1>6. CASE Start(p) \/ Resume(p)
    <2>1. /\ pc'[p] # "put" /\ (tries'[p] = 0 \/ tries'[p] = tries[p])
          /\ obj'[p] = Current
          /\ pc'[p] = "gate" \/ (pc'[p] = "get" /\ want'[p] = "Running")
      BY <1>1, <1>6 DEF Start, Resume, UpdateStatus, GoTo, IInv, LocalsOK
    <2>2. Met(p)' <= Met(p)
      BY <2>1, MetType, MetTypeNext
    <2>3. Open(p)
      BY <1>1, <1>6 DEF Start, Resume, BeginWork, Open
    <2>4. HandOK(p)' /\ obj'[p].apis <= n
      BY <1>2, <1>3, <2>1 DEF HandOK, At
    <2>5. Asked(p) = Current.apis /\ Asked(p)' = Current.apis
      BY <1>2, <1>4, <2>1 DEF Asked
    <2>6. Made(p) = 0 /\ Made(p)' = 0
      BY <1>4, <2>1 DEF Made, InHand, At
    <2> QED
      BY <1>1, <2>2, <2>3, <2>4, <2>5, <2>6, RequestsCalm
  <1> QED
    BY <1>5, <1>6

(* The resource is deleted, by Reconcile or by the user.                   *)
LEMMA GoneVersion ==
  ASSUME IInv, NEW p \in Procs, NEW n \in Nat, RequestsOK(n, p),
         Write([Current EXCEPT !.gone = TRUE])
  PROVE  Current'.gone /\ \A k \in 1 .. RV' : versions'[k].apis <= n
  <1>1. /\ [Current EXCEPT !.gone = TRUE] \in Objects
        /\ [Current EXCEPT !.gone = TRUE].gone
        /\ [Current EXCEPT !.gone = TRUE].apis = Current.apis
    BY CurrentOK DEF Objects
  <1>2. /\ Current' = [Current EXCEPT !.gone = TRUE] /\ RV' = RV + 1
        /\ \A k \in 1 .. RV : versions'[k] = versions[k]
    BY <1>1, WriteType DEF IInv, StoreOK
  <1>3. Current.apis <= n /\ RV \in Nat
    BY PublishedApis DEF IInv, StoreOK, RV
  <1>4. versions'[RV'] = Current'
    BY DEF Current, RV
  <1>5. ASSUME NEW k \in 1 .. RV' PROVE versions'[k].apis <= n
    <2>1. CASE k = RV'
      BY <1>1, <1>2, <1>3, <1>4, <2>1
    <2>2. CASE k \in 1 .. RV
      BY <1>2, <2>2 DEF RequestsOK
    <2> QED
      BY <1>2, <1>3, <2>1, <2>2
  <1> QED
    BY <1>1, <1>2, <1>5

LEMMA RequestsDeleted ==
  ASSUME IInv, IInv', NEW p \in Procs, NEW n \in Nat, RequestsOK(n, p), AccountOK(p),
         Delete(p) \/ DeleteFault(p)
  PROVE  RequestsOK(n, p)'
  <1>1. Leave(p) /\ UNCHANGED <<apiCalls, edits, crashes>>
    BY DEF Delete, DeleteFault, Return, worldVars, boundVars
  <1>2. \/ UNCHANGED versions /\ (DeleteFault(p) \/ Current.gone)
        \/ Write([Current EXCEPT !.gone = TRUE])
    BY DEF Delete, DeleteFault
  <1>3. edits \in Nat /\ edits <= edits'
    BY <1>1, RequestTypes
  <1>4. Spare(p) \in Nat /\ Spare(p)' \in Nat /\ Spare(p) <= Spare(p)'
    <2>1. CASE Delete(p)
      <3>1. UNCHANGED <<crashes, faults, edits>>
        BY <2>1 DEF Delete, boundVars
      <3>2. Met(p)' <= Met(p)
        BY <1>1, MetLeft, MetType
      <3> QED
        BY <3>1, <3>2, SpareKept DEF AccountOK
    <2>2. CASE DeleteFault(p)
      <3>1. faults' = faults + 1 /\ UNCHANGED <<crashes, edits>>
        BY <2>2 DEF DeleteFault
      <3>2. Spare(p) \in Nat /\ Spare(p)' \in Nat /\ Spare(p) + 1 <= Spare(p)'
        BY <1>1, <3>1, SpareLost DEF AccountOK
      <3> QED
        BY <3>2
    <2> QED
      BY <2>1, <2>2
  <1>5. CASE Write([Current EXCEPT !.gone = TRUE])
    <2>1. Current'.gone /\ \A k \in 1 .. RV' : versions'[k].apis <= n
      BY <1>5, GoneVersion
    <2> QED
      BY <1>1, <1>3, <1>4, <2>1, RequestsOver
  <1>6. CASE UNCHANGED versions /\ Current.gone
    <2>1. Current'.gone /\ \A k \in 1 .. RV' : versions'[k].apis <= n
      BY <1>6 DEF RequestsOK, Current, RV
    <2> QED
      BY <1>1, <1>3, <1>4, <2>1, RequestsOver
  <1>7. CASE UNCHANGED versions /\ DeleteFault(p)
    <2>1. faults' = faults + 1 /\ UNCHANGED <<crashes, edits, versions, apiCalls>>
      BY <1>1, <1>7 DEF DeleteFault
    <2> QED
      BY <1>1, <2>1, RequestsLost
  <1> QED
    BY <1>2, <1>5, <1>6, <1>7

(* updateStatus: the read, and the ways a write ends without one.          *)
LEMMA RequestsStatus ==
  ASSUME OneCurrentProcess, IInv, IInv', NEW p \in Procs, NEW n \in Nat,
         RequestsOK(n, p), AccountOK(p),
         StatusGet(p) \/ PutConflict(p) \/ PutNotFound(p)
  PROVE  RequestsOK(n, p)'
  <1>1. UNCHANGED <<versions, apiCalls, edits, crashes, faults>>
    BY DEF StatusGet, PutConflict, PutNotFound, worldVars, boundVars
  <1>2. Current' = Current /\ RV' = RV
    BY <1>1 DEF Current, RV
  <1>3. View(p) = Current /\ Seen(p) = RV
    BY ViewIsCurrent
  <1>4. ASSUME Current.gone, UpdateFailed(p) PROVE RequestsOK(n, p)'
    <2>1. Leave(p)
      BY <1>4 DEF UpdateFailed, Return
    <2>2. Met(p)' <= Met(p)
      BY <2>1, MetLeft, MetType
    <2>3. obj'[p].apis <= n /\ HandOK(p)' /\ ~Open(p)'
      BY <1>2, <1>4, <2>1, RequestsLeft
    <2> QED
      BY <1>1, <2>2, <2>3, RequestsCalm
  (* The update goes on. *)
  <1>5. ASSUME pc[p] \in {"get", "put"}, pc'[p] \in {"get", "put"},
               UNCHANGED <<obj, want>>, Met(p)' <= Met(p)
        PROVE  RequestsOK(n, p)'
    <2>1. InHand(p)' = InHand(p) /\ ~At(p, "gate") /\ ~At(p, "rest")
          /\ ~At(p, "gate")' /\ ~At(p, "rest")'
      BY <1>5 DEF InHand, At
    <2>2. Asked(p)' = Asked(p) /\ Made(p)' = Made(p) /\ Open(p)' = Open(p)
      BY <1>2, <1>5, <2>1 DEF Asked, Made, Open
    <2>3. HandOK(p)'
      <3>1. Outdated(p)' = Outdated(p) /\ FirstCount(p)' = FirstCount(p)
        BY <1>2, <2>2 DEF Outdated, FirstCount
      <3> QED
        BY <1>2, <1>5, <2>1, <3>1 DEF HandOK, RequestsOK, At
    <2>4. Made(p) <= Made(p)' /\ obj'[p].apis <= n
      BY <1>5, <2>2, RequestTypes DEF RequestsOK
    <2> QED
      BY <1>1, <1>5, <2>2, <2>3, <2>4, RequestsCalm
  <1>6. CASE StatusGet(p)
    <2>1. CASE Current.gone
      BY <1>3, <1>4, <1>6, <2>1 DEF StatusGet
    <2>2. CASE ~Current.gone
      <3>1. /\ pc[p] = "get" /\ pc'[p] = "put" /\ fresh'[p] = RV
            /\ UNCHANGED <<want, tries, obj>>
        BY <1>3, <1>6, <2>2 DEF StatusGet, GoTo, At, IInv, LocalsOK, StoreOK
      <3>2. ~Behind(p)'
        BY <1>1, <3>1 DEF Behind, RV
      <3>3. Met(p)' <= Met(p)
        BY <3>1, <3>2, MetType, MetTypeNext
      <3> QED
        BY <1>5, <3>1, <3>3
    <2> QED
      BY <2>1, <2>2
  <1>7. CASE PutConflict(p)
    <2>1. /\ pc[p] = "put" /\ Behind(p)
      BY <1>7 DEF PutConflict, Behind, At
    <2>2. CASE RetriesLeft(p)
      <3>1. pc'[p] = "get" /\ tries'[p] = tries[p] + 1 /\ UNCHANGED <<want, obj>>
        BY <1>7, <2>2 DEF PutConflict, GoTo, IInv, LocalsOK
      <3>2. Met(p)' <= Met(p)
        BY <2>1, <3>1, MetType, MetTypeNext
      <3> QED
        BY <1>5, <2>1, <3>1, <3>2
    <2>3. CASE ~RetriesLeft(p)
      <3>1. Leave(p)
        BY <1>7, <2>3 DEF PutConflict, UpdateFailed, Return
      <3>2. MaxRetries \in Nat /\ MaxRetries <= tries[p] + 1
        BY <2>3, MetType, GitCommitAssumption DEF RetriesLeft
      <3>3. Met(p) = MaxRetries
        BY <2>1, <3>2, MetType
      <3> QED
        BY <1>1, <3>1, <3>3, RequestsLost
    <2> QED
      BY <2>2, <2>3
  <1>8. CASE PutNotFound(p)
    BY <1>4, <1>8 DEF PutNotFound
  <1> QED
    BY <1>6, <1>7, <1>8

(* Nobody has written anything, and the worker has not moved.              *)
LEMMA RequestsIdle ==
  ASSUME IInv, IInv', NEW p \in Procs, NEW n \in Nat, RequestsOK(n, p), AccountOK(p),
         UNCHANGED <<versions, workerVars, apiCalls, edits, crashes, faults>>
  PROVE  RequestsOK(n, p)'
  <1>1. /\ UNCHANGED <<versions, pc, obj, fresh, want, tries, api>>
        /\ UNCHANGED <<versions, apiCalls, edits, crashes, faults>>
    BY DEF workerVars
  <1>2. Current' = Current /\ RV' = RV
    BY <1>1 DEF Current, RV
  <1>3. Behind(p)' = Behind(p)
    BY <1>1, <1>2 DEF Behind, At
  <1>4. Met(p)' <= Met(p)
    BY <1>1, <1>3, MetType, MetTypeNext
  <1>5. InHand(p)' = InHand(p)
    BY <1>1 DEF InHand
  <1>6. /\ Asked(p)' = Asked(p) /\ Made(p)' = Made(p) /\ Open(p)' = Open(p)
    BY <1>1, <1>2, <1>5 DEF Asked, Made, Open, At
  <1>7. Outdated(p)' = Outdated(p) /\ FirstCount(p)' = FirstCount(p)
    BY <1>2, <1>6 DEF Outdated, FirstCount
  <1>8. HandOK(p)' /\ obj'[p].apis <= n
    BY <1>1, <1>2, <1>7 DEF HandOK, RequestsOK, At
  <1>9. Made(p) <= Made(p)'
    BY <1>6, RequestTypes
  <1> QED
    BY <1>1, <1>4, <1>6, <1>8, <1>9, RequestsCalm

(* The breaker lets an execution begin only with a call left to each API.  *)
LEMMA RequestsGate ==
  ASSUME IInv, IInv', NEW p \in Procs, NEW n \in Nat, RequestsOK(n, p),
         AccountOK(p), GateOpen(p) \/ GateTripped(p) \/ GateRest(p)
  PROVE  RequestsOK(n, p)'
  <1>1. /\ At(p, "gate")
        /\ UNCHANGED <<versions, apiCalls, edits, crashes, faults>>
    BY DEF GateOpen, GateTripped, GateRest, worldVars, boundVars, kubeVars
  <1>2. Current' = Current
    BY <1>1 DEF Current, RV
  <1>3. InHand(p) /\ Open(p) /\ Asked(p) = obj[p].apis /\ Made(p) = 0
    BY <1>1 DEF InHand, Open, Asked, Made, At
  <1>4. obj[p].calls = Current.calls /\ obj[p].apis <= n /\ obj[p].apis \in Nat
    BY <1>1, RequestTypes DEF RequestsOK, HandOK
  <1>5. /\ Made(p)' \in Nat
        /\ Current.calls \in Seq(Nat) /\ Len(Current.calls) \in Nat
    BY RequestTypes, ResetsType
  <1>6. CASE GateOpen(p)
    <2>1. pc'[p] = "auth" /\ UNCHANGED <<obj, tries>>
      BY <1>6 DEF GateOpen, GoTo, IInv, LocalsOK
    <2>2. Met(p)' <= Met(p)
      BY <2>1, MetType, MetTypeNext
    <2>3. HandOK(p)' /\ Asked(p)' = Asked(p)
      BY <1>3, <2>1 DEF HandOK, At, Asked, InHand
    <2> QED
      BY <1>1, <1>3, <1>4, <1>5, <2>1, <2>2, <2>3, RequestsCalm
  <1>7. CASE GateTripped(p)
    <2>1. pc'[p] = "get" /\ want'[p] = "Tripped" /\ obj'[p] = obj[p] /\ tries'[p] = 0
      BY <1>7 DEF GateTripped, UpdateStatus, GoTo, IInv, LocalsOK
    <2>2. Met(p)' <= Met(p)
      BY <2>1, MetType, MetTypeNext
    <2>3. HandOK(p)' /\ Asked(p)' = Current.apis
      BY <1>2, <1>4, <2>1 DEF HandOK, At, Asked, InHand
    <2> QED
      BY <1>1, <1>3, <1>4, <1>5, <2>1, <2>2, <2>3, RequestsCalm
  <1>8. CASE GateRest(p)
    <2>1. /\ pc'[p] = "rest" /\ api'[p] = 1 /\ UNCHANGED tries
          /\ obj'[p] = [obj[p] EXCEPT !.calls = StatusSlots(obj[p])]
          /\ obj[p].apis > 0 /\ ~Tripped(obj[p].calls)
      BY <1>8 DEF GateRest, GoTo, IInv, LocalsOK
    <2>2. Met(p)' <= Met(p)
      BY <2>1, MetType, MetTypeNext
    <2>3. obj[p] \in Objects
      BY RequestTypes
    <2>4. obj'[p].apis = obj[p].apis /\ obj'[p].calls = StatusSlots(obj[p])
      BY <2>1, <2>3 DEF Objects
    <2>5. Asked(p)' = Asked(p)
      BY <1>3, <2>1, <2>4 DEF Asked, InHand
    <2>6. Outdated(p)' = Outdated(p) /\ FirstCount(p)' = FirstCount(p)
      BY <1>2, <2>5 DEF Outdated, FirstCount
    <2>7. StatusSlots(obj[p])[1] = FirstCount(p) /\ FirstCount(p) < MaxCalls
      <3>1. MaxCalls \in Nat /\ 0 < MaxCalls
        BY GitCommitAssumption
      <3>2. CASE Len(Current.calls) = obj[p].apis
        <4>1. 1 \in DOMAIN Current.calls /\ Current.calls # <<>>
          BY <1>5, <2>1, <1>4, <3>2
        <4>2. FirstCount(p) = Current.calls[1] /\ StatusSlots(obj[p])[1] = Current.calls[1]
          BY <1>3, <1>4, <3>2, <4>1 DEF FirstCount, Outdated, Count, StatusSlots
        <4>3. ~(Current.calls[1] >= MaxCalls) /\ Current.calls[1] \in Nat
          BY <1>4, <1>5, <2>1, <4>1 DEF Tripped
        <4> QED
          BY <3>1, <4>2, <4>3
      <3>3. CASE Len(Current.calls) # obj[p].apis
        <4>1. StatusSlots(obj[p]) = [i \in 1 .. obj[p].apis |-> 0]
          BY <1>4, <3>3 DEF StatusSlots
        <4>2. StatusSlots(obj[p])[1] = 0
          BY <1>4, <2>1, <4>1
        <4>3. FirstCount(p) = 0
          <5>1. CASE Len(Current.calls) = 0
            BY <1>5, <5>1 DEF FirstCount, Count
          <5>2. CASE Len(Current.calls) # 0
            BY <1>3, <3>3, <5>2 DEF FirstCount, Outdated
          <5> QED
            BY <5>1, <5>2
        <4> QED
          BY <3>1, <4>2, <4>3
      <3> QED
        BY <3>2, <3>3
    <2>8. HandOK(p)'
      <3>1. FirstCount(p) \in Nat
        BY RequestTypes DEF FirstCount
      <3>2. obj'[p].calls[1] = FirstCount(p)' + Bit(api'[p] > 1)
        BY <2>1, <2>4, <2>6, <2>7, <3>1 DEF Bit
      <3> QED
        BY <2>1, <2>6, <2>7, <3>2 DEF HandOK, At
    <2> QED
      BY <1>1, <1>3, <1>4, <1>5, <2>2, <2>4, <2>5, <2>8, RequestsCalm
  <1> QED
    BY <1>6, <1>7, <1>8

(* After the APIs: authentication and git make no request.                 *)
LEMMA RequestsWork ==
  ASSUME IInv, IInv', NEW p \in Procs, NEW n \in Nat, RequestsOK(n, p),
         AccountOK(p), Auth(p) \/ GitPushed(p) \/ GitFailed(p)
  PROVE  RequestsOK(n, p)'
  <1>1. /\ pc[p] \in {"auth", "git"}
        /\ UNCHANGED <<versions, apiCalls, edits, crashes, faults>>
    BY DEF Auth, GitPushed, GitFailed, At, worldVars, boundVars, kubeVars
  <1>2. /\ pc'[p] = "git" \/ (pc'[p] = "get" /\ want'[p] \in {"Failed", "Committed"})
        /\ tries'[p] = 0 \/ tries'[p] = tries[p]
        /\ \/ obj'[p] = obj[p]
           \/ \E k \in Nat : obj'[p] = [obj[p] EXCEPT !.sha = k]
    <2>1. CASE Auth(p)
      BY <2>1 DEF Auth, UpdateStatus, GoTo, IInv, LocalsOK
    <2>2. CASE GitPushed(p)
      <3>1. pushes + 1 \in Nat
        BY DEF IInv, CountersOK
      <3> QED
        BY <2>2, <3>1 DEF GitPushed, UpdateStatus, GoTo, IInv, LocalsOK
    <2>3. CASE GitFailed(p)
      BY <2>3 DEF GitFailed, UpdateStatus, GoTo, IInv, LocalsOK
    <2> QED
      BY <2>1, <2>2, <2>3
  <1>3. obj'[p].apis = obj[p].apis /\ obj[p].apis <= n /\ obj[p].apis \in Nat
    BY <1>2, RequestTypes DEF Objects, RequestsOK
  <1>4. Met(p)' <= Met(p)
    BY <1>2, MetType, MetTypeNext
  <1>5. InHand(p) /\ InHand(p)'
    BY <1>1, <1>2 DEF InHand
  <1>6. /\ Asked(p)' = Asked(p) /\ Open(p)
        /\ Made(p) = obj[p].apis /\ Made(p)' = obj[p].apis
    BY <1>1, <1>2, <1>3, <1>5 DEF Asked, Open, Made, At
  <1>7. HandOK(p)'
    BY <1>2 DEF HandOK, At
  <1> QED
    BY <1>1, <1>3, <1>4, <1>6, <1>7, RequestsCalm

LEMMA RequestsUserDelete ==
  ASSUME IInv, IInv', NEW p \in Procs, NEW n \in Nat, RequestsOK(n, p), AccountOK(p),
         UserDelete
  PROVE  RequestsOK(n, p)'
  <1>1. /\ UNCHANGED <<pc, obj, fresh, want, tries, api>>
        /\ UNCHANGED <<apiCalls, edits, crashes, faults>>
    BY DEF UserDelete, workerVars, worldVars, boundVars
  <1>2. [Current EXCEPT !.gone = TRUE] \in Objects
    BY CurrentOK DEF Objects
  <1>3. /\ Current' = [Current EXCEPT !.gone = TRUE]
        /\ Current'.gone /\ \A k \in 1 .. RV' : versions'[k].apis <= n
    BY <1>2, GoneVersion, WriteType DEF UserDelete, IInv, StoreOK
  <1>4. Current'.calls = Current.calls /\ Current'.apis = Current.apis
    BY <1>3, CurrentOK DEF Objects
  <1>5. ~Behind(p)'
    BY <1>3 DEF Behind
  <1>6. Met(p)' <= Met(p)
    BY <1>1, <1>5, MetType, MetTypeNext
  <1>7. Spare(p) \in Nat /\ Spare(p)' \in Nat /\ Spare(p) <= Spare(p)'
    BY <1>1, <1>6, SpareKept DEF AccountOK
  <1>8. InHand(p)' = InHand(p)
    BY <1>1 DEF InHand
  <1>9. Asked(p)' = Asked(p) /\ Made(p)' = Made(p) /\ (Open(p)' => Open(p))
    BY <1>1, <1>3, <1>4, <1>8 DEF Asked, Made, Open, At
  <1>10. Count(Current)' = Count(Current)
    BY <1>4 DEF Count
  <1>11. Outdated(p)' = Outdated(p)
    BY <1>4, <1>9 DEF Outdated
  <1>12. FirstCount(p)' = FirstCount(p)
    BY <1>10, <1>11 DEF FirstCount
  <1>13. HandOK(p)' /\ obj'[p].apis <= n
    BY <1>1, <1>4, <1>12 DEF HandOK, RequestsOK, At
  <1>14. Resets(p)' <= Resets(p)
    BY <1>4, <1>9, ResetsKept
  <1>15. edits + Resets(p)' <= edits' + Resets(p) /\ Made(p) <= Made(p)' /\ edits <= edits'
    BY <1>1, <1>9, <1>14, ResetsType
  <1> QED
    BY <1>1, <1>3, <1>4, <1>7, <1>9, <1>13, <1>15, RequestsKept

(* The number of APIs may grow: the account is kept for the largest one.   *)
LEMMA RequestsWidened ==
  ASSUME IInv, NEW p \in Procs, NEW n \in Nat, RequestsOK(n, p), NEW q \in Nat, n <= q,
         Spare(p) \in Nat
  PROVE  RequestsOK(q, p)
  <1>1. \A x \in Nat : x <= n => x <= q
    OBVIOUS
  <1>2. \A k \in 1 .. RV : versions[k].apis \in Nat
    <2>1. \A k \in 1 .. RV : versions[k] \in Objects
      BY RequestTypes DEF RV
    <2> QED
      BY <2>1 DEF Objects
  <1>3. /\ \A k \in 1 .. RV : versions[k].apis <= q
        /\ obj[p].apis <= q
    BY <1>1, <1>2, RequestTypes DEF RequestsOK
  <1>4. apiCalls <= q * (MaxCalls * (1 + edits) + Spare(p))
    <2> DEFINE x == MaxCalls * (1 + edits) + Spare(p)
    <2>1. x \in Nat
      <3>1. 1 + edits \in Nat
        BY RequestTypes
      <3> QED
        BY <3>1, RunsGrow
    <2>2. apiCalls <= n * x /\ apiCalls \in Nat
      BY RequestTypes DEF RequestsOK
    <2> HIDE DEF x
    <2>3. n * x \in Nat /\ q * x \in Nat
      BY <2>1
    <2>4. apiCalls <= n * x + 0
      BY <2>2, <2>3
    <2>5. apiCalls <= q * x + 0
      BY <2>1, <2>2, <2>4, RoomWidened
    <2> QED
      BY <2>3, <2>5 DEF x
  <1>5. ASSUME Open(p)
        PROVE  Resets(p) <= edits /\ apiCalls <= q * Executions(p) + Made(p)
    <2>1. Resets(p) <= edits /\ apiCalls <= n * Executions(p) + Made(p)
      BY <1>5 DEF RequestsOK
    <2>2. edits - Resets(p) \in Nat
      BY <2>1, RequestTypes
    <2>3. Count(Current) \in Nat /\ MaxCalls \in Nat
      BY RequestTypes
    <2>4. MaxCalls * (edits - Resets(p)) \in Nat
      <3> DEFINE i == edits - Resets(p)
      <3> HIDE DEF i
      <3>1. MaxCalls * i \in Nat
        BY <2>2, <2>3 DEF i
      <3> QED
        BY <3>1 DEF i
    <2>5. Executions(p) \in Nat
      BY <2>3, <2>4 DEF Executions
    <2>6. apiCalls \in Nat /\ Made(p) \in Nat
      BY RequestTypes
    <2> QED
      BY <2>1, <2>5, <2>6, RoomWidened
  <1> QED
    BY <1>3, <1>4, <1>5 DEF RequestsOK

LEMMA RequestsEdited ==
  ASSUME IInv, IInv', NEW p \in Procs, NEW n \in ApiCounts, RequestsOK(n, p),
         AccountOK(p), UserEdit
  PROVE  \E q \in ApiCounts : RequestsOK(q, p)'
  <1>1. PICK m \in ApiCounts : Write([Current EXCEPT !.apis = m])
    BY DEF UserEdit
  <1>2. n \in Nat /\ m \in Nat
    BY GitCommitAssumption
  <1>3. PICK q \in ApiCounts : n <= q /\ m <= q
    BY <1>2
  <1>4. q \in Nat
    BY GitCommitAssumption
  <1>5. /\ UNCHANGED <<pc, obj, fresh, want, tries, api>>
        /\ UNCHANGED <<apiCalls, crashes, faults>> /\ edits' = edits + 1
    BY DEF UserEdit, workerVars, worldVars
  <1>6. /\ [Current EXCEPT !.apis = m] \in Objects
        /\ [Current EXCEPT !.apis = m].phase = Current.phase
        /\ [Current EXCEPT !.apis = m].gone = Current.gone
        /\ [Current EXCEPT !.apis = m].calls = Current.calls
        /\ [Current EXCEPT !.apis = m].apis = m
    BY <1>2, CurrentOK DEF Objects
  <1>7. /\ Current' = [Current EXCEPT !.apis = m] /\ RV' = RV + 1
        /\ \A k \in 1 .. RV : versions'[k] = versions[k]
    BY <1>1, <1>6, WriteType DEF IInv, StoreOK
  <1>8. /\ Current'.calls = Current.calls /\ Current'.gone = Current.gone
        /\ Current'.phase = Current.phase /\ Current'.apis = m
    BY <1>6, <1>7
  <1>9. /\ crashes \in Nat /\ faults \in Nat /\ edits \in Nat /\ RV \in Nat
    BY GitCommitAssumption, RequestTypes DEF IInv, CountersOK
  <1>10. Met(p) \in Nat /\ Met(p)' \in Nat /\ Met(p)' <= Met(p) + 1
    BY <1>5, MetType, MetTypeNext
  <1>11. /\ crashes <= crashes' /\ faults <= faults' /\ edits <= edits'
         /\ edits - Met(p) <= edits' - Met(p)'
    BY <1>5, <1>9, <1>10
  <1>12. Spare(p) \in Nat /\ Spare(p)' \in Nat /\ Spare(p) <= Spare(p)'
    BY <1>11, SpareMoved DEF AccountOK
  <1>13. RequestsOK(q, p)
    BY <1>2, <1>3, <1>4, <1>12, RequestsWidened
  <1>14. \A k \in 1 .. RV' : versions'[k].apis <= q
    <2>1. versions'[RV'] = Current'
      BY DEF Current, RV
    <2>2. ASSUME NEW k \in 1 .. RV' PROVE versions'[k].apis <= q
      <3>1. CASE k = RV'
        BY <1>3, <1>8, <2>1, <3>1
      <3>2. CASE k \in 1 .. RV
        BY <1>7, <1>13, <3>2 DEF RequestsOK
      <3> QED
        BY <1>7, <1>9, <3>1, <3>2
    <2> QED
      BY <2>2
  <1>15. InHand(p)' = InHand(p)
    BY <1>5 DEF InHand
  <1>16. /\ Made(p)' = Made(p) /\ (Open(p)' => Open(p))
         /\ \/ Asked(p)' = Asked(p)
            \/ Asked(p) = Current.apis /\ Asked(p)' = Current'.apis
    BY <1>5, <1>8, <1>15 DEF Asked, Made, Open, At, IsSettled
  <1>17. HandOK(p)'
    <2>1. Count(Current)' = Count(Current)
      BY <1>8 DEF Count
    <2>2. InHand(p) => FirstCount(p)' = FirstCount(p)
      <3>1. InHand(p) => Asked(p)' = Asked(p)
        BY <1>5, <1>15 DEF Asked
      <3>2. InHand(p) => Outdated(p)' = Outdated(p)
        BY <1>8, <3>1 DEF Outdated
      <3> QED
        BY <2>1, <3>2 DEF FirstCount
    <2> QED
      BY <1>5, <1>8, <1>13, <2>2 DEF HandOK, RequestsOK, At, InHand
  <1>18. Resets(p)' <= Resets(p) + 1
    BY <1>8, <1>16, ResetsKept
  <1>19. edits + Resets(p)' <= edits' + Resets(p) /\ Made(p) <= Made(p)'
    BY <1>5, <1>9, <1>16, <1>18, ResetsType
  <1>20. obj'[p].apis <= q
    BY <1>5, <1>13 DEF RequestsOK
  <1>21. apiCalls' = apiCalls /\ edits <= edits'
    BY <1>5, <1>11
  <1> QED
    BY <1>4, <1>8, <1>12, <1>13, <1>14, <1>16, <1>17, <1>19, <1>20, <1>21, RequestsKept

(* An execution asks: one request more of those it may make.               *)
LEMMA RequestsAsked ==
  ASSUME IInv, IInv', NEW p \in Procs, NEW n \in Nat, RequestsOK(n, p), AccountOK(p),
         UNCHANGED <<versions, edits, crashes, faults>>, apiCalls' = apiCalls + 1,
         At(p, "rest"), tries'[p] \in {0, tries[p]}, pc'[p] # "put",
         InHand(p)', obj'[p].apis = obj[p].apis, Made(p) + 1 <= Made(p)', HandOK(p)'
  PROVE  RequestsOK(n, p)'
  <1> DEFINE i == edits - Resets(p)
             c == Count(Current)
             s == Spare(p)
             t == Spare(p)'
             x == MaxCalls * i + (c + s)
             y == MaxCalls * i + (c + t)
             m == Made(p)
  <1>1. Current' = Current /\ RV' = RV
    BY DEF Current, RV
  <1>2. Met(p)' <= Met(p)
    BY MetType, MetTypeNext
  <1>3. s \in Nat /\ t \in Nat /\ s <= t
    BY <1>2, SpareKept DEF AccountOK
  <1>4. InHand(p) /\ Open(p)
    BY DEF InHand, Open, At
  <1>5. Asked(p)' = Asked(p) /\ Outdated(p)' = Outdated(p) /\ Resets(p)' = Resets(p)
    <2>1. Asked(p)' = Asked(p)
      BY <1>4 DEF Asked
    <2>2. Outdated(p)' = Outdated(p)
      BY <1>1, <2>1 DEF Outdated
    <2> QED
      BY <1>1, <2>1, <2>2 DEF Resets
  <1>6. /\ Resets(p) <= edits /\ apiCalls <= n * Executions(p) + m
        /\ \A k \in 1 .. RV : versions[k].apis <= n
        /\ obj[p].apis <= n /\ FirstCount(p) < MaxCalls
    BY <1>4 DEF RequestsOK, HandOK
  <1>7. /\ apiCalls \in Nat /\ edits \in Nat /\ c \in Nat /\ c <= MaxCalls
        /\ MaxCalls \in Nat \ {0} /\ Resets(p) \in Nat /\ m \in Nat /\ i \in Nat
    BY <1>6, RequestTypes
  <1>8. m + 1 <= n /\ Made(p)' \in Nat
    BY RequestTypesNext, ResetsType, <1>6
  <1>9. x \in Nat /\ y \in Nat /\ x <= y /\ Executions(p) = x /\ Executions(p)' = y
    <2>1. Executions(p) = MaxCalls * i + c + s /\ Executions(p)' = MaxCalls * i + c + t
      BY <1>1, <1>5 DEF Executions, Count
    <2> HIDE DEF i, c, s, t
    <2>2. MaxCalls * i \in Nat
      BY <1>7
    <2>3. c + s \in Nat /\ c + t \in Nat /\ c + s <= c + t
      BY <1>3, <1>7
    <2> QED
      BY <1>3, <1>7, <2>1, <2>2, <2>3
  <1>10. apiCalls + 1 <= n * y + (m + 1)
    <2> HIDE DEF x, y, m
    <2>1. n * x \in Nat
      BY <1>9
    <2>2. apiCalls + 1 <= n * x + (m + 1)
      BY <1>6, <1>7, <1>9, <2>1
    <2> QED
      BY <1>7, <1>9, <2>2, RoomKept
  (* Another execution would still be within the bound. *)
  <1>11. y + 1 <= MaxCalls * (1 + edits) + t /\ MaxCalls * (1 + edits) + t \in Nat
    <2>1. /\ MaxCalls * edits \in Nat /\ MaxCalls * i \in Nat
          /\ MaxCalls * i <= MaxCalls * edits
          /\ MaxCalls * (1 + edits) = MaxCalls * edits + MaxCalls
      <3>1. i <= edits
        BY <1>7
      <3> HIDE DEF i
      <3> QED
        BY <1>7, <3>1
    <2>2. CASE ~Outdated(p)
      <3>1. c < MaxCalls
        BY <1>6, <2>2 DEF FirstCount
      <3> HIDE DEF i, c, t
      <3> QED
        BY <1>3, <1>7, <2>1, <3>1
    <2>3. CASE Outdated(p)
      <3>1. Resets(p) >= 1
        BY <2>3, RequestTypes DEF Resets, Bit
      <3>2. i + 1 <= edits
        BY <1>7, <3>1
      <3> HIDE DEF i, c, t
      <3>3. MaxCalls * i + MaxCalls <= MaxCalls * edits
        BY <1>7, <3>2, RunsRestart
      <3> QED
        BY <1>3, <1>7, <2>1, <3>3
    <2> QED
      BY <2>2, <2>3
  <1>12. apiCalls + 1 <= n * (MaxCalls * (1 + edits) + t)
    <2> DEFINE z == MaxCalls * (1 + edits) + t
    <2>1. z \in Nat /\ y + 1 <= z
      BY <1>11
    <2> HIDE DEF z, y, m
    <2>2. apiCalls + 1 <= n * z + 0
      BY <1>7, <1>8, <1>9, <1>10, <2>1, RoomKept
    <2>3. n * z \in Nat
      BY <2>1
    <2> QED
      BY <2>2, <2>3 DEF z
  <1>13. \A k \in 1 .. RV' : versions'[k].apis <= n
    BY <1>1, <1>6
  <1>14. apiCalls' <= n * Executions(p)' + Made(p)'
    <2>1. m + 1 <= Made(p)'
      OBVIOUS
    <2> HIDE DEF x, y, m
    <2>2. n * y \in Nat
      BY <1>9
    <2>3. apiCalls + 1 <= n * y + Made(p)'
      BY <1>7, <1>8, <1>10, <2>1, <2>2
    <2> QED
      BY <1>9, <2>3
  <1> HIDE DEF x, y, i
  <1> QED
    BY <1>1, <1>5, <1>6, <1>12, <1>13, <1>14 DEF RequestsOK

LEMMA RequestsRest ==
  ASSUME IInv, IInv', NEW p \in Procs, NEW n \in Nat, RequestsOK(n, p), AccountOK(p),
         RestAnswer(p) \/ RestError(p)
  PROVE  RequestsOK(n, p)'
  <1>1. /\ At(p, "rest") /\ pc[p] = "rest"
        /\ UNCHANGED <<versions, edits, crashes, faults>>
    BY DEF RestAnswer, RestError, At, boundVars, kubeVars
  <1>2. Current' = Current
    BY <1>1 DEF Current, RV
  <1>3. /\ Len(obj[p].calls) = obj[p].apis /\ api[p] \in 1 .. obj[p].apis
        /\ obj[p].apis \in Nat /\ obj[p].apis <= n
        /\ obj[p].calls \in Seq(Nat) /\ obj[p].apis > 0 /\ api[p] \in Nat /\ api[p] >= 1
    <2>1. /\ Len(obj[p].calls) = obj[p].apis /\ api[p] \in 1 .. obj[p].apis
          /\ obj[p].apis \in Nat /\ obj[p].calls \in Seq(Nat)
      BY <1>1, RequestTypes
    <2>2. obj[p].apis <= n
      BY DEF RequestsOK
    <2> QED
      BY <2>1, <2>2
  <1>4. /\ Counted(p).apis = obj[p].apis /\ Len(Counted(p).calls) = obj[p].apis
        /\ Counted(p) \in Objects
    BY <1>1, CountedOK
  <1>5. /\ obj[p].calls[1] = FirstCount(p) + Bit(api[p] > 1)
        /\ FirstCount(p) < MaxCalls
    BY <1>1 DEF RequestsOK, HandOK
  <1>6. Counted(p).calls[1] = FirstCount(p) + 1
    <2>1. FirstCount(p) \in Nat
      BY RequestTypes DEF FirstCount
    <2>2. obj[p] \in Objects
      BY RequestTypes
    <2>3. CASE api[p] = 1
      <3>1. Counted(p).calls[1] = obj[p].calls[1] + 1
        BY <1>3, <2>2, <2>3, CountType DEF Counted
      <3> QED
        BY <1>5, <2>1, <2>3, <3>1 DEF Bit
    <2>4. CASE api[p] # 1
      <3>1. Counted(p).calls[1] = obj[p].calls[1]
        BY <1>3, <2>2, <2>4, CountType DEF Counted
      <3> QED
        BY <1>3, <1>5, <2>1, <2>4, <3>1 DEF Bit
    <2> QED
      BY <2>3, <2>4
  <1>7. InHand(p) /\ Open(p) /\ Asked(p) = obj[p].apis /\ Made(p) = api[p] - 1
    BY <1>1 DEF InHand, Open, Asked, Made, At
  <1>8. ASSUME InHand(p)', obj'[p].apis = obj[p].apis
        PROVE  Asked(p)' = Asked(p) /\ FirstCount(p)' = FirstCount(p)
    <2>1. Asked(p)' = Asked(p)
      BY <1>7, <1>8 DEF Asked
    <2>2. Outdated(p)' = Outdated(p)
      BY <1>2, <2>1 DEF Outdated
    <2> QED
      BY <1>2, <2>1, <2>2 DEF FirstCount
  <1>9. CASE RestAnswer(p)
    <2>1. PICK met \in BOOLEAN : /\ NextApi(p, Counted(p), allMet[p] /\ met)
                                 /\ apiCalls' = apiCalls + 1
      BY <1>9, CountedOK DEF RestAnswer
    <2>2. CASE api[p] < Counted(p).apis
      <3>1. /\ api'[p] = api[p] + 1 /\ obj'[p] = Counted(p) /\ UNCHANGED <<pc, tries>>
        BY <2>1, <2>2 DEF NextApi, IInv, LocalsOK
      <3>2. InHand(p)' /\ pc'[p] = "rest"
        BY <1>1, <3>1 DEF InHand
      <3>3. FirstCount(p)' = FirstCount(p)
        BY <1>4, <1>8, <3>1, <3>2
      <3>4. Made(p)' = api[p]
        BY <1>3, <3>1, <3>2 DEF Made, At
      <3>5. HandOK(p)'
        <4>1. Bit(api'[p] > 1) = 1
          BY <1>3, <3>1 DEF Bit
        <4> QED
          BY <1>5, <1>6, <3>1, <3>2, <3>3, <4>1 DEF HandOK, At
      <3>6. Made(p) + 1 <= Made(p)'
        BY <1>3, <1>7, <3>4
      <3> QED
        BY <1>1, <1>4, <2>1, <3>1, <3>2, <3>5, <3>6, RequestsAsked
    <2>3. CASE ~(api[p] < Counted(p).apis) /\ allMet[p] /\ met
      <3>1. pc'[p] = "auth" /\ obj'[p] = Counted(p) /\ UNCHANGED tries
        BY <2>1, <2>3 DEF NextApi, GoTo, IInv, LocalsOK
      <3>2. InHand(p)' /\ HandOK(p)' /\ Made(p)' = obj[p].apis
        BY <1>4, <3>1 DEF InHand, HandOK, Made, At
      <3>3. Made(p) + 1 <= Made(p)'
        BY <1>3, <1>4, <1>7, <2>3, <3>2
      <3> QED
        BY <1>1, <1>4, <2>1, <3>1, <3>2, <3>3, RequestsAsked
    <2>4. CASE ~(api[p] < Counted(p).apis) /\ ~(allMet[p] /\ met)
      <3>1. /\ pc'[p] = "get" /\ want'[p] = "Pending" /\ obj'[p] = Counted(p)
            /\ tries'[p] = 0
        BY <2>1, <2>4 DEF NextApi, UpdateStatus, GoTo, IInv, LocalsOK
      <3>2. InHand(p)' /\ Made(p)' = obj[p].apis
        BY <1>4, <3>1 DEF InHand, Made, At
      <3>3. FirstCount(p)' = FirstCount(p)
        BY <1>4, <1>8, <3>1, <3>2
      <3>4. HandOK(p)'
        BY <1>3, <1>4, <1>6, <3>1, <3>3 DEF HandOK, At
      <3>5. Made(p) + 1 <= Made(p)'
        BY <1>3, <1>4, <1>7, <2>4, <3>2
      <3> QED
        BY <1>1, <1>4, <2>1, <3>1, <3>2, <3>4, <3>5, RequestsAsked
    <2> QED
      BY <2>2, <2>3, <2>4
  <1>10. CASE RestError(p)
    <2>1. PICK o \in {obj[p], Counted(p)} :
              /\ UpdateStatus(p, o, "Failed")
              /\ \/ apiCalls' = apiCalls + 1
                 \/ apiCalls' = apiCalls
      BY <1>10 DEF RestError
    <2>2. /\ pc'[p] = "get" /\ want'[p] = "Failed" /\ obj'[p] = o /\ tries'[p] = 0
      BY <2>1 DEF UpdateStatus, GoTo, IInv, LocalsOK
    <2>3. obj'[p].apis = obj[p].apis
      BY <1>4, <2>2
    <2>4. InHand(p)' /\ Made(p)' = obj[p].apis /\ HandOK(p)'
      BY <2>2, <2>3 DEF InHand, Made, HandOK, At
    <2>5. Made(p) + 1 <= Made(p)' /\ Made(p) <= Made(p)'
      BY <1>3, <1>7, <2>4
    <2>6. Asked(p)' = Asked(p)
      BY <1>8, <2>3, <2>4
    <2>7. Met(p)' <= Met(p)
      BY <2>2, MetType, MetTypeNext
    <2>8. CASE apiCalls' = apiCalls + 1
      BY <1>1, <2>2, <2>3, <2>4, <2>5, <2>8, RequestsAsked
    <2>9. CASE apiCalls' = apiCalls
      BY <1>1, <1>3, <1>7, <2>3, <2>4, <2>5, <2>6, <2>7, <2>9, RequestsCalm
    <2> QED
      BY <2>1, <2>8, <2>9
  <1> QED
    BY <1>9, <1>10

(* The counters of an execution whose conditions are not met are           *)
(* published: it is paid for.                                              *)
LEMMA RequestsCounted ==
  ASSUME IInv, IInv', NEW p \in Procs, NEW n \in Nat, RequestsOK(n, p), AccountOK(p),
         Leave(p), UNCHANGED <<apiCalls, edits>>,
         Spare(p) \in Nat, Spare(p)' \in Nat, Spare(p) <= Spare(p)',
         \A k \in 1 .. RV' : versions'[k].apis <= n,
         InHand(p), pc[p] \in {"get", "put"}, want[p] = "Pending",
         Current'.apis = Current.apis, Current'.calls = obj[p].calls
  PROVE  RequestsOK(n, p)'
  <1> DEFINE r == Resets(p)
             u == Resets(p)'
             i == edits - r
             j == edits - u
             c == Count(Current)
             s == Spare(p)
             t == Spare(p)'
             m == Made(p)
  <1>1. /\ Len(obj[p].calls) = obj[p].apis /\ obj[p].apis > 0
        /\ obj[p].calls[1] = FirstCount(p) + 1
        /\ r <= edits /\ apiCalls <= n * Executions(p) + m
    BY DEF RequestsOK, HandOK, Open
  <1>2. /\ apiCalls \in Nat /\ edits \in Nat /\ c \in Nat /\ c <= MaxCalls
        /\ MaxCalls \in Nat \ {0} /\ r \in Nat /\ m \in Nat
        /\ obj[p].calls \in Seq(Nat)
    BY RequestTypes
  <1>3. m <= n
    <2>1. Made(p) <= obj[p].apis /\ obj[p].apis <= n /\ obj[p].apis \in Nat /\ Made(p) \in Nat
      BY RequestTypes DEF RequestsOK
    <2> QED
      BY <2>1
  <1>4. /\ obj'[p].apis <= n /\ HandOK(p)' /\ Asked(p)' = Current.apis
    BY RequestsLeft
  <1>5. u \in Nat /\ Made(p)' \in Nat
    BY RequestTypesNext
  <1>6. Asked(p) = obj[p].apis
    BY DEF Asked
  <1>7. /\ ~Outdated(p) => u = r
        /\ Outdated(p) => u + 1 = r
    <2>1. u = Bit(obj[p].apis \notin {0, Current.apis}) + Bit(FALSE)
      BY <1>1, <1>4 DEF Resets, Outdated, Bit
    <2>2. r = Bit(Outdated(p)) + Bit(obj[p].apis # Current.apis)
      BY <1>6 DEF Resets
    <2>3. obj[p].apis # 0
      BY <1>1
    <2> QED
      BY <2>1, <2>2, <2>3 DEF Bit
  <1>8. i \in Nat /\ j \in Nat /\ u <= edits
        /\ (~Outdated(p) => j = i) /\ (Outdated(p) => i + 1 = j)
    <2>1. r \in Nat /\ u \in Nat /\ edits \in Nat /\ r <= edits
      BY <1>1, <1>2, <1>5
    <2>2. CASE ~Outdated(p)
      <3>1. u = r
        BY <1>7, <2>2
      <3> HIDE DEF r, u
      <3> QED
        BY <2>1, <2>2, <3>1
    <2>3. CASE Outdated(p)
      <3>1. u + 1 = r
        BY <1>7, <2>3
      <3> HIDE DEF r, u
      <3> QED
        BY <2>1, <2>3, <3>1
    <2> QED
      BY <2>2, <2>3
  <1>9. Count(Current)' = FirstCount(p) + 1
    <2>1. Current'.calls # <<>>
      BY <1>1, <1>2
    <2> QED
      BY <1>1, <2>1 DEF Count
  <1>10. /\ Executions(p) \in Nat /\ Executions(p)' \in Nat
         /\ Executions(p) + 1 <= Executions(p)'
    <2>1. /\ Executions(p) = MaxCalls * i + c + s
          /\ Executions(p)' = MaxCalls * j + (FirstCount(p) + 1) + t
      BY <1>9 DEF Executions
    <2> DEFINE g == MaxCalls * i
               h == MaxCalls * j
               e == Executions(p)
               f == Executions(p)'
    <2>0. /\ s \in Nat /\ t \in Nat /\ s <= t /\ c \in Nat /\ c <= MaxCalls
          /\ MaxCalls \in Nat \ {0}
      BY <1>2
    <2>2. CASE ~Outdated(p)
      <3>1. FirstCount(p) = c /\ h = g
        BY <1>8, <2>2 DEF FirstCount
      <3>2. g \in Nat
        <4> HIDE DEF i
        <4> QED
          BY <1>2, <1>8
      <3>3. e = g + c + s /\ f = g + (c + 1) + t
        BY <2>1, <3>1
      <3> HIDE DEF g, h, e, f, c, s, t
      <3>4. e \in Nat /\ f \in Nat /\ e + 1 <= f
        BY <2>0, <3>2, <3>3
      <3> QED
        BY <3>4 DEF e, f
    <2>3. CASE Outdated(p)
      <3>1. FirstCount(p) = 0 /\ i + 1 <= j
        BY <1>8, <2>3 DEF FirstCount
      <3>2. g \in Nat /\ h \in Nat /\ g + MaxCalls <= h
        <4> HIDE DEF i, j
        <4> QED
          BY <1>8, <3>1, RunsRestart
      <3>3. e = g + c + s /\ f = h + 1 + t
        BY <2>1, <3>1
      <3> HIDE DEF g, h, e, f, c, s, t
      <3>4. e \in Nat /\ f \in Nat /\ e + 1 <= f
        BY <2>0, <3>2, <3>3
      <3> QED
        BY <3>4 DEF e, f
    <2> QED
      BY <2>2, <2>3
  <1>11. apiCalls <= n * Executions(p)' + Made(p)'
    BY <1>1, <1>2, <1>3, <1>5, <1>10, RoomKept
  <1>12. apiCalls <= n * (MaxCalls * (1 + edits) + t)
    <2>1. apiCalls <= n * (MaxCalls * (1 + edits) + s)
      BY DEF RequestsOK
    <2>2. s \in Nat /\ t \in Nat /\ s <= t /\ edits <= edits
      BY <1>2
    <2> HIDE DEF s, t
    <2> QED
      BY <1>2, <2>1, <2>2, TotalKept
  <1>13. apiCalls' = apiCalls /\ edits' = edits
    OBVIOUS
  <1> QED
    BY <1>4, <1>8, <1>11, <1>12, <1>13 DEF RequestsOK

(* What a status write of the worker publishes.                            *)
LEMMA WrittenRequests ==
  ASSUME IInv, InStep, NEW p \in Procs, NEW n \in Nat, RequestsOK(n, p),
         At(p, "put"), fresh[p] = RV, Write(Written(p))
  PROVE  /\ Current' = Written(p) /\ Current'.apis = Current.apis
         /\ \A k \in 1 .. RV' : versions'[k].apis <= n
         /\ want[p] = "Running" => Current'.calls = Current.calls
         /\ want[p] = "Pending" => Current'.calls = obj[p].calls
         /\ want[p] \notin {"Running", "Pending"} => IsSettled(Current')
  <1>1. /\ Current \in Objects /\ obj[p] \in Objects /\ Written(p) \in Objects
        /\ want[p] \in Wants
    BY CurrentOK, WrittenOK DEF IInv, LocalsOK
  <1>2. /\ Current' = Written(p) /\ RV' = RV + 1
        /\ \A k \in 1 .. RV : versions'[k] = versions[k]
    BY <1>1, WriteType DEF IInv, StoreOK
  <1>3. Written(p) = Merge(Current, obj[p], want[p])
    BY DEF Written, Current
  <1>4. /\ Written(p).apis = Current.apis
        /\ Written(p).calls = IF Len(obj[p].calls) > 0 THEN obj[p].calls
                                                      ELSE Current.calls
    BY <1>1, <1>3 DEF Merge, Objects
  <1>5. want[p] = "Running" => obj[p].calls = Current.calls
    BY DEF RequestsOK, HandOK, At
  <1>6. want[p] = "Pending" => Len(obj[p].calls) > 0
    BY <1>1 DEF RequestsOK, HandOK, At, Objects
  <1>7. want[p] \notin {"Running", "Pending"} => IsSettled(Current')
    <2>1. Current'.phase = PhaseOf(want[p])
      BY WrittenPhase
    <2> QED
      BY <1>1, <2>1 DEF IsSettled, PhaseOf, Wants
  <1>8. ASSUME NEW k \in 1 .. RV' PROVE versions'[k].apis <= n
    <2>1. versions'[RV'] = Current' /\ RV \in Nat
      BY RequestTypes DEF Current, RV
    <2>2. Current.apis <= n
      BY PublishedApis
    <2>3. CASE k = RV'
      BY <1>2, <1>4, <2>1, <2>2, <2>3
    <2>4. CASE k \in 1 .. RV
      BY <1>2, <2>4 DEF RequestsOK
    <2> QED
      BY <1>2, <2>1, <2>3, <2>4
  <1> QED
    BY <1>2, <1>4, <1>5, <1>6, <1>7, <1>8

(* The write is accepted: the execution begins, is paid for or was the     *)
(* last one.                                                               *)
LEMMA RequestsWritten ==
  ASSUME IInv, InStep, IInv', NEW p \in Procs, NEW n \in Nat, RequestsOK(n, p),
         AccountOK(p), At(p, "put"), fresh[p] = RV, Write(Written(p)),
         UNCHANGED <<apiCalls, edits>>,
         Spare(p) \in Nat, Spare(p)' \in Nat, Spare(p) <= Spare(p)',
         \/ Leave(p)
         \/ want[p] = "Running" /\ pc'[p] = "gate" /\ obj'[p] = Written(p)
  PROVE  RequestsOK(n, p)'
  <1>1. /\ Current' = Written(p) /\ Current'.apis = Current.apis
        /\ \A k \in 1 .. RV' : versions'[k].apis <= n
        /\ want[p] = "Running" => Current'.calls = Current.calls
        /\ want[p] = "Pending" => Current'.calls = obj[p].calls
        /\ want[p] \notin {"Running", "Pending"} => IsSettled(Current')
    BY WrittenRequests
  <1>2. apiCalls' = apiCalls /\ edits' = edits /\ edits <= edits'
    BY ResetsType
  <1>3. Current.apis <= n
    BY PublishedApis
  <1>4. CASE want[p] = "Running"
    <2>1. ~InHand(p) /\ Asked(p) = Current.apis /\ Made(p) = 0
      BY <1>4 DEF InHand, At, Asked, Made
    <2>2. ~Current.gone /\ Current.phase \in {"", "Pending"}
      BY <1>4, WrittenPhase DEF PhasesBefore
    <2>3. Open(p)
      BY <2>2 DEF Open, IsSettled
    <2>4. obj'[p].apis <= n /\ HandOK(p)' /\ Asked(p)' = Current'.apis /\ Made(p)' = 0
      <3>1. CASE Leave(p)
        <4>1. obj'[p].apis <= n /\ HandOK(p)' /\ ~InHand(p)' /\ Asked(p)' = Current'.apis
          BY <3>1, RequestsLeft
        <4> QED
          BY <4>1 DEF Made
      <3>2. CASE pc'[p] = "gate" /\ obj'[p] = Written(p)
        BY <1>1, <1>3, <3>2 DEF HandOK, Asked, Made, At
      <3> QED
        BY <3>1, <3>2
    <2>5. Resets(p)' <= Resets(p)
      BY <1>1, <1>4, <2>1, <2>4, ResetsKept
    <2>6. edits + Resets(p)' <= edits' + Resets(p) /\ Made(p) <= Made(p)'
      BY <1>2, <2>1, <2>4, <2>5, ResetsType
    <2> QED
      BY <1>1, <1>2, <1>4, <2>3, <2>4, <2>6, RequestsKept
  <1>5. CASE want[p] = "Pending"
    <2>1. Leave(p) /\ pc[p] = "put"
      BY <1>5 DEF At
    <2>2. InHand(p)
      BY <1>5, <2>1 DEF InHand
    <2> QED
      BY <1>1, <1>5, <2>1, <2>2, RequestsCounted
  <1>6. CASE want[p] \notin {"Running", "Pending"}
    <2>1. Leave(p)
      BY <1>6
    <2> QED
      BY <1>1, <1>2, <1>6, <2>1, RequestsOver
  <1> QED
    BY <1>4, <1>5, <1>6

LEMMA RequestsPut ==
  ASSUME IInv, InStep, IInv', NEW p \in Procs, NEW n \in Nat, RequestsOK(n, p),
         AccountOK(p), PutOk(p) \/ PutFault(p)
  PROVE  RequestsOK(n, p)'
  <1>1. /\ At(p, "put") /\ UNCHANGED <<apiCalls, edits>>
    BY DEF PutOk, PutFault, worldVars, boundVars
  <1>2. CASE PutOk(p)
    <2>1. /\ fresh[p] = RV /\ Write(Written(p)) /\ UpdateDone(p, Written(p))
          /\ UNCHANGED <<edits, crashes, faults>>
      BY <1>2 DEF PutOk, boundVars
    <2>2. \/ Leave(p)
          \/ want[p] = "Running" /\ pc'[p] = "gate" /\ obj'[p] = Written(p)
             /\ UNCHANGED tries
      BY <2>1 DEF UpdateDone, Return, GoTo, IInv, LocalsOK
    <2>3. Met(p)' <= Met(p)
      <3>1. CASE Leave(p)
        BY <3>1, MetLeft, MetType
      <3>2. CASE pc'[p] = "gate" /\ UNCHANGED tries
        BY <3>2, MetType, MetTypeNext
      <3> QED
        BY <2>2, <3>1, <3>2
    <2>4. Spare(p) \in Nat /\ Spare(p)' \in Nat /\ Spare(p) <= Spare(p)'
      BY <2>1, <2>3, SpareKept DEF AccountOK
    <2> QED
      BY <1>1, <2>1, <2>2, <2>4, RequestsWritten
  <1>3. CASE PutFault(p)
    <2>1. Leave(p) /\ faults' = faults + 1 /\ UNCHANGED <<edits, crashes, apiCalls>>
      BY <1>3 DEF PutFault, UpdateFailed, Return, worldVars
    <2>2. Spare(p) \in Nat /\ Spare(p)' \in Nat /\ Spare(p) + 1 <= Spare(p)'
      BY <2>1, SpareLost DEF AccountOK
    <2>3. Spare(p) <= Spare(p)'
      BY <2>2
    <2>4. CASE UNCHANGED versions
      BY <2>1, <2>4, RequestsLost
    <2>5. CASE fresh[p] = RV /\ Write(Written(p))
      BY <1>1, <2>1, <2>2, <2>3, <2>5, RequestsWritten
    <2> QED
      BY <1>3, <2>4, <2>5 DEF PutFault
  <1> QED
    BY <1>2, <1>3

LEMMA RequestsNext ==
  ASSUME OneCurrentProcess, IInv, IInv', InStep, NEW p, Procs = {p}, AccountOK(p),
         NEW n \in ApiCounts, RequestsOK(n, p), [Next]_vars
  PROVE  \E q \in ApiCounts : RequestsOK(q, p)'
  <1>1. p \in Procs /\ n \in Nat
    BY GitCommitAssumption
  <1>2. CASE \/ UNCHANGED vars
             \/ ReconcileGone(p) \/ ReconcileSettled(p) \/ Watch(p) \/ Timer(p)
             \/ TTLPasses
    <2>1. UNCHANGED <<versions, workerVars, apiCalls, edits, crashes, faults>>
      BY <1>2 DEF ReconcileGone, ReconcileSettled, Watch, Timer, Deliver, TimerFire,
                  TTLPasses, vars, kubeVars, worldVars, boundVars
    <2> QED
      BY <1>1, <2>1, RequestsIdle
  <1>3. CASE ReconcileExpired(p) \/ Start(p) \/ Resume(p)
    BY <1>1, <1>3, RequestsBegun
  <1>4. CASE StatusGet(p) \/ PutConflict(p) \/ PutNotFound(p)
    BY <1>1, <1>4, RequestsStatus
  <1>5. CASE PutOk(p) \/ PutFault(p)
    BY <1>1, <1>5, RequestsPut
  <1>6. CASE Crash(p)
    <2>1. /\ Leave(p) /\ UNCHANGED <<versions, edits, faults, apiCalls>>
          /\ crashes' = crashes + 1
      BY <1>6 DEF Crash, Relist, worldVars
    <2> QED
      BY <1>1, <2>1, RequestsLost
  <1>7. CASE GateOpen(p) \/ GateTripped(p) \/ GateRest(p)
    BY <1>1, <1>7, RequestsGate
  <1>8. CASE RestAnswer(p) \/ RestError(p)
    BY <1>1, <1>8, RequestsRest
  <1>9. CASE Auth(p) \/ GitPushed(p) \/ GitFailed(p)
    BY <1>1, <1>9, RequestsWork
  <1>10. CASE Delete(p) \/ DeleteFault(p)
    BY <1>1, <1>10, RequestsDeleted
  <1>11. CASE UserEdit
    BY <1>1, <1>11, RequestsEdited
  <1>12. CASE UserDelete
    BY <1>1, <1>12, RequestsUserDelete
  <1> QED
    BY <1>1, <1>2, <1>3, <1>4, <1>5, <1>6, <1>7, <1>8, <1>9, <1>10, <1>11, <1>12
       DEF Next, System, Step, Environment

(* Nothing has been asked yet.                                             *)
LEMMA RequestsInit ==
  ASSUME Init, NEW p \in Procs
  PROVE  \E n \in ApiCounts : RequestsOK(n, p)
  <1>1. PICK n \in ApiCounts : KubeInit(NewObject(n))
    BY DEF Init
  <1>2. n \in Nat
    BY GitCommitAssumption
  <1>3. /\ versions = <<NewObject(n)>> /\ RV = 1 /\ versions[1] = NewObject(n)
        /\ NewObject(n).apis = n /\ NewObject(n).calls = <<>>
    BY <1>1 DEF KubeInit, RV, NewObject
  <1>4. Current = NewObject(n)
    BY <1>3 DEF Current
  <1>5. /\ pc[p] = "idle" /\ obj[p] = NewObject(n) /\ apiCalls = 0 /\ edits = 0
        /\ crashes = 0 /\ faults = 0 /\ tries[p] = 0
    BY <1>3 DEF Init
  <1>6. ~InHand(p) /\ HandOK(p)
    BY <1>5 DEF InHand, HandOK, At
  <1>7. Asked(p) = n /\ Made(p) = 0 /\ Count(Current) = 0
    BY <1>3, <1>4, <1>6 DEF Asked, Made, Count
  <1>8. Resets(p) = 0
    <2>1. ~Outdated(p)
      BY <1>3, <1>4 DEF Outdated
    <2>2. Asked(p) = Current.apis
      BY <1>3, <1>4, <1>7
    <2> QED
      BY <2>1, <2>2 DEF Resets, Bit
  <1>9. Spare(p) \in Nat
    <2>1. ~Behind(p)
      BY <1>5 DEF Behind, At
    <2>2. Met(p) = 0
      BY <1>5, <2>1 DEF Met
    <2>3. 0 \div MaxRetries \in Nat
      BY GitCommitAssumption, DivDef
    <2>4. Spare(p) = 0 + 0 + (0 - 0) \div MaxRetries
      BY <1>5, <2>2 DEF Spare
    <2> QED
      BY <2>3, <2>4
  <1>10. 0 <= n * (MaxCalls * (1 + edits) + Spare(p)) /\ 0 <= n * Executions(p) + Made(p)
    <2> DEFINE s == Spare(p)
    <2> HIDE DEF s
    <2>1. s \in Nat /\ MaxCalls * (1 + 0) + s \in Nat /\ MaxCalls * (0 - 0) + 0 + s \in Nat
      BY <1>9, GitCommitAssumption DEF s
    <2>2. n * (MaxCalls * (1 + 0) + s) \in Nat /\ n * (MaxCalls * (0 - 0) + 0 + s) \in Nat
      BY <1>2, <2>1
    <2>3. Executions(p) = MaxCalls * (0 - 0) + 0 + s
      BY <1>5, <1>7, <1>8 DEF Executions, s
    <2> QED
      BY <1>5, <1>7, <2>2, <2>3 DEF s
  <1>11. /\ \A k \in 1 .. RV : versions[k].apis <= n
         /\ obj[p].apis <= n
    BY <1>2, <1>3, <1>5
  <1>12. RequestsOK(n, p)
    BY <1>5, <1>6, <1>8, <1>10, <1>11 DEF RequestsOK
  <1> QED
    BY <1>12

(* The mishaps to spare are some of all mishaps.                           *)
LEMMA RequestsBounds ==
  ASSUME IInv, NEW p \in Procs, AccountOK(p), NEW n \in ApiCounts, RequestsOK(n, p)
  PROVE  RequestsBounded
  <1> DEFINE a == edits - Met(p)
             x == a \div MaxRetries
             y == edits \div MaxRetries
             b == MaxCalls * (1 + edits)
  <1>1. /\ crashes \in Nat /\ faults \in Nat /\ edits \in Nat /\ apiCalls \in Nat
        /\ n \in Nat
    BY GitCommitAssumption DEF IInv, CountersOK
  <1>2. Met(p) \in Nat /\ Met(p) <= edits
    BY MetType DEF AccountOK
  <1>3. a \in Nat /\ a <= edits
    BY <1>1, <1>2
  <1>4. x \in Nat /\ y \in Nat /\ x <= y
    <2> HIDE DEF a
    <2> QED
      BY <1>1, <1>3, DivDef, DivLe, GitCommitAssumption
  <1>5. b \in Nat
    BY <1>1, GitCommitAssumption
  <1>6. apiCalls <= n * (b + (crashes + faults + x))
    BY DEF RequestsOK, Spare
  <1>7. apiCalls <= n * (b + crashes + faults + y)
    <2> DEFINE u == b + (crashes + faults + x)
               v == b + crashes + faults + y
    <2> HIDE DEF b, x, y
    <2>1. u \in Nat /\ v \in Nat /\ u <= v
      BY <1>1, <1>4, <1>5
    <2>2. apiCalls <= n * u
      BY <1>6
    <2> HIDE DEF u, v
    <2>3. n * u \in Nat /\ n * v \in Nat /\ apiCalls <= n * u + 0
      BY <1>1, <2>1, <2>2
    <2>4. apiCalls <= n * v + 0
      BY <1>1, <2>1, <2>3, RoomKept
    <2>5. apiCalls <= n * v
      BY <2>3, <2>4
    <2> QED
      BY <2>5 DEF v
  <1> QED
    BY <1>7 DEF RequestsBounded

(* With one process and an up-to-date view the circuit breaker bounds the  *)
(* traffic of a resource that never settles: MaxCalls requests to each of  *)
(* its APIs, as many again for every edit, and one for every crash, every  *)
(* failed call and every MaxRetries edits that fall into one status update *)
(* (Reconcile, checkRestAPIConditions, updateStatus).                      *)
THEOREM RequestsAreBounded ==
  ASSUME OneCurrentProcess
  PROVE  Spec => []RequestsBounded
  <1>1. PICK p : Procs = {p}
    BY DEF OneCurrentProcess
  <1> DEFINE Accounted == \E n \in ApiCounts : RequestsOK(n, p)
  <1>2. Init => InStep /\ AccountOK(p) /\ Accounted
    BY <1>1, InStepInit, AccountInit, RequestsInit
  <1>3. IInv /\ InStep /\ [Next]_vars => InStep'
    BY InStepNext
  <1>4. IInv /\ IInv' /\ InStep /\ AccountOK(p) /\ [Next]_vars => AccountOK(p)'
    BY <1>1, AccountNext
  <1>5. IInv /\ IInv' /\ InStep /\ AccountOK(p) /\ Accounted /\ [Next]_vars => Accounted'
    BY <1>1, RequestsNext
  <1>6. IInv /\ AccountOK(p) /\ Accounted => RequestsBounded
    BY <1>1, RequestsBounds
  <1> HIDE DEF Accounted
  <1> QED
    BY <1>2, <1>3, <1>4, <1>5, <1>6, Invariance, PTL DEF Spec
=============================================================================
