------------------------- MODULE ReservationProofs -------------------------
(***************************************************************************)
(* Safety of the keyed lock manager and of the reservation store built on  *)
(* it, for every set of threads, keys, claims and commands.                *)
(*                                                                         *)
(* LockInv is the inductive invariant of the locks: the safety properties  *)
(* of KeyedLocks, what a thread's place in locked_all says about the       *)
(* queues (QueueCoherent), and that acquired keys lie below the keys still *)
(* wanted (HeldBelowTodo).  GateInv adds to it what a thread in apply has  *)
(* checked under the gates it holds; it gives LiveKeyExclusivity and       *)
(* NoLostUpdate.  StoreInv adds what was drafted and, with the refinement  *)
(* mapping KeyedView, gives that apply is atomic.  The records themselves  *)
(* are coherent because every transition builds a coherent record from a   *)
(* coherent one.                                                           *)
(***************************************************************************)
EXTENDS ReservationStore, TLAPS

\* A thread is queued at gate k exactly while it waits for its next key, k.
QueueCoherent ==
    \A t \in Threads : \A k \in Keys :
        t \in waiters[k] <=> pc[t] \in Waiting /\ IsNext(t, k)

\* The keys a thread holds come before the keys it still wants, and a thread
\* outside locked_all holds none.
HeldBelowTodo ==
    \A t \in Threads :
        /\ \A j \in held[t] : \A k \in todo[t] : j < k
        /\ pc[t] \in {"idle", "done"} => held[t] = {}

LockInv ==
    /\ LockTypeOK
    /\ HolderIsExclusive
    /\ QueueCoherent
    /\ HeldBelowTodo
    /\ NoLostWakeup
    /\ OneThreadPerCommand

-----------------------------------------------------------------------------

\* A new lock manager, with no gate held and nobody queued, satisfies the
\* invariant.
LEMMA LockInitInv == LockInit => LockInv
  BY NoThreadAssumption
  DEF LockInit, LockInv, LockTypeOK, PC, Waiting, HolderIsExclusive,
      QueueCoherent, HeldBelowTodo, NoLostWakeup, OneThreadPerCommand, IsNext

\* A grant, however the thread came to it, preserves the invariant.
LEMMA GrantInv ==
    ASSUME LockInv, NEW t \in Threads, NEW k \in Keys,
           pc[t] \in {"entering", "woken", "timedout"},
           IsNext(t, k), Granted(t, k),
           pc[t] = "entering" => ~Duplicate(t, k),
           Grant(t, k)
    PROVE  LockInv'
<1> USE DEF LockInv
<1>1. LockTypeOK'
  BY DEF LockTypeOK, Grant, NotifyAll, PC, Waiting
<1>2. HolderIsExclusive'
  BY NoThreadAssumption DEF HolderIsExclusive, LockTypeOK, Grant, Granted
<1>3. HeldBelowTodo'
  BY KeysAssumption DEF HeldBelowTodo, LockTypeOK, Grant, IsNext, NotifyAll
<1>4. QueueCoherent'
  BY KeysAssumption DEF QueueCoherent, LockTypeOK, Grant, IsNext, NotifyAll, Waiting
<1>5. NoLostWakeup'
  BY NoThreadAssumption
  DEF NoLostWakeup, LockTypeOK, Grant, IsWinner, NotifyAll
<1>6. OneThreadPerCommand'
  BY NoThreadAssumption
  DEF OneThreadPerCommand, QueueCoherent, LockTypeOK, Grant, Granted, Duplicate,
      SameCommand, Waiting
<1> QED BY <1>1, <1>2, <1>3, <1>4, <1>5, <1>6

\* So does a thread that leaves a queue with an exception.
LEMMA AbandonInv ==
    ASSUME LockInv, NEW t \in Threads, NEW k \in Keys,
           pc[t] \in Waiting, IsNext(t, k), Abandon(t, k)
    PROVE  LockInv'
<1> USE DEF LockInv
<1>1. LockTypeOK'
  BY DEF LockTypeOK, Abandon, NotifyAll, Unwind, PC, Waiting
<1>2. HolderIsExclusive'
  BY DEF HolderIsExclusive, Abandon
<1>3. HeldBelowTodo'
  BY DEF HeldBelowTodo, LockTypeOK, Abandon, NotifyAll, Unwind
<1>4. QueueCoherent'
  BY KeysAssumption
  DEF QueueCoherent, LockTypeOK, Abandon, IsNext, NotifyAll, Unwind, Waiting
<1>5. NoLostWakeup'
  BY DEF NoLostWakeup, LockTypeOK, QueueCoherent, Abandon, IsWinner, NotifyAll, Unwind
<1>6. OneThreadPerCommand'
  BY DEF OneThreadPerCommand, LockTypeOK, Abandon, SameCommand
<1> QED BY <1>1, <1>2, <1>3, <1>4, <1>5, <1>6

\* Joining a queue: only the newcomer falls asleep, and not as the winner of a
\* free gate.
LEMMA EnterWaitsInv ==
    ASSUME LockInv, NEW t \in Threads, NEW k \in Keys, EnterWaits(t, k)
    PROVE  LockInv'
<1> USE DEF LockInv
<1>1. LockTypeOK'
  BY DEF LockTypeOK, EnterWaits, PC, Waiting
<1>2. HolderIsExclusive'
  BY DEF HolderIsExclusive, EnterWaits
<1>3. HeldBelowTodo'
  BY DEF HeldBelowTodo, LockTypeOK, EnterWaits
<1>4. QueueCoherent'
  BY KeysAssumption DEF QueueCoherent, LockTypeOK, EnterWaits, IsNext, Waiting
<1>5. NoLostWakeup'
  BY DEF NoLostWakeup, LockTypeOK, QueueCoherent, Waiting, EnterWaits, IsWinner, Granted
<1>6. OneThreadPerCommand'
  BY DEF OneThreadPerCommand, LockTypeOK, EnterWaits, Duplicate, SameCommand
<1> QED BY <1>1, <1>2, <1>3, <1>4, <1>5, <1>6

\* Releasing a gate wakes everyone queued at it.
LEMMA ReleaseInv ==
    ASSUME LockInv, NEW t \in Threads, NEW k \in Keys, Release(t, k)
    PROVE  LockInv'
<1> USE DEF LockInv
<1>1. LockTypeOK'
  BY DEF LockTypeOK, Release, NotifyAll, PC, Waiting
<1>2. HolderIsExclusive'
  BY NoThreadAssumption DEF HolderIsExclusive, LockTypeOK, Release, IsLast
<1>3. HeldBelowTodo'
  BY DEF HeldBelowTodo, LockTypeOK, Release, NotifyAll
<1>4. QueueCoherent'
  BY DEF QueueCoherent, LockTypeOK, Release, IsNext, NotifyAll, Waiting
<1>5. NoLostWakeup'
  BY DEF NoLostWakeup, LockTypeOK, QueueCoherent, Release, IsWinner, NotifyAll
<1>6. OneThreadPerCommand'
  BY DEF OneThreadPerCommand, LockTypeOK, Release, SameCommand
<1> QED BY <1>1, <1>2, <1>3, <1>4, <1>5, <1>6

\* The steps that move only the thread's own place in the code.
LEMMA LocalStepInv ==
    ASSUME LockInv, NEW t \in Threads,
           UNCHANGED <<holder, waiters, held>>,
           \/ \E S \in KeySets[t] : Begin(t, S)
           \/ \E k \in Keys : EnterRefused(t, k)
           \/ \E k \in Keys : ~Granted(t, k) /\ pc[t] = "woken" /\ IsNext(t, k)
                  /\ pc' = [pc EXCEPT ![t] = "sleeping"] /\ todo' = todo
           \/ TimeOut(t)
           \/ Leave(t)
    PROVE  LockInv'
<1> USE DEF LockInv
<1>1. LockTypeOK'
  BY KeySetsAssumption
  DEF LockTypeOK, Begin, EnterRefused, TimeOut, Leave, Unwind, PC, Waiting
<1>2. HolderIsExclusive'
  BY DEF HolderIsExclusive
<1>3. HeldBelowTodo'
  BY KeySetsAssumption
  DEF HeldBelowTodo, LockTypeOK, Begin, EnterRefused, TimeOut, Leave, Unwind
<1>4. QueueCoherent'
  BY KeySetsAssumption
  DEF QueueCoherent, LockTypeOK, IsNext, Begin, EnterRefused, TimeOut, Leave, Unwind, Waiting
<1>5. NoLostWakeup'
  <2>1. CASE \E k \in Keys : ~Granted(t, k) /\ pc[t] = "woken" /\ IsNext(t, k)
                  /\ pc' = [pc EXCEPT ![t] = "sleeping"] /\ todo' = todo
    <3> PICK k \in Keys : /\ ~Granted(t, k) /\ pc[t] = "woken" /\ IsNext(t, k)
                          /\ pc' = [pc EXCEPT ![t] = "sleeping"]
      BY <2>1
    <3>1. \A j \in Keys : t \in waiters[j] => j = k
      BY KeysAssumption DEF QueueCoherent, LockTypeOK, IsNext
    <3> QED
      BY <3>1 DEF NoLostWakeup, LockTypeOK, IsWinner, Granted
  <2>2. CASE pc'[t] # "sleeping" /\ \A u \in Threads \ {t} : pc'[u] = pc[u]
    BY <2>2 DEF NoLostWakeup, LockTypeOK, IsWinner
  <2> QED
    BY <2>1, <2>2 DEF LockTypeOK, Begin, EnterRefused, TimeOut, Leave, Unwind
<1>6. OneThreadPerCommand'
  BY DEF OneThreadPerCommand, SameCommand
<1> QED BY <1>1, <1>2, <1>3, <1>4, <1>5, <1>6

\* Every step of a thread preserves the invariant.
LEMMA ThreadStepInv ==
    ASSUME LockInv, NEW t \in Threads,
           \/ \E S \in KeySets[t] : Begin(t, S)
           \/ GateStep(t)
           \/ Leave(t)
           \/ Disturb(t)
    PROVE  LockInv'
<1>1. CASE \E S \in KeySets[t] : Begin(t, S)
  BY <1>1, LocalStepInv DEF Begin
<1>2. CASE \E k \in Keys : EnterRefused(t, k)
  BY <1>2, LocalStepInv DEF EnterRefused
<1>3. CASE \E k \in Keys : EnterGranted(t, k)
  BY <1>3, GrantInv DEF EnterGranted
<1>4. CASE \E k \in Keys : EnterWaits(t, k)
  BY <1>4, EnterWaitsInv
<1>5. CASE \E k \in Keys : Recheck(t, k)
  <2> PICK k \in Keys : Recheck(t, k)
    BY <1>5
  <2>1. CASE Granted(t, k) /\ Grant(t, k)
    BY <2>1, GrantInv DEF Recheck
  <2>2. CASE ~Granted(t, k)
    BY <2>2, LocalStepInv DEF Recheck
  <2> QED BY <2>1, <2>2 DEF Recheck
<1>6. CASE \E k \in Keys : FinalCheck(t, k)
  <2> PICK k \in Keys : FinalCheck(t, k)
    BY <1>6
  <2>1. CASE Granted(t, k) /\ Grant(t, k)
    BY <2>1, GrantInv DEF FinalCheck
  <2>2. CASE Abandon(t, k)
    BY <2>2, AbandonInv DEF FinalCheck, Waiting
  <2> QED BY <2>1, <2>2 DEF FinalCheck
<1>7. CASE \E k \in Keys : Release(t, k)
  BY <1>7, ReleaseInv
<1>8. CASE Leave(t)
  BY <1>8, LocalStepInv DEF Leave
<1>9. CASE TimeOut(t)
  BY <1>9, LocalStepInv DEF TimeOut
<1>10. CASE \E k \in Keys : Interrupt(t, k)
  BY <1>10, AbandonInv DEF Interrupt, Waiting
<1> QED
  BY <1>1, <1>2, <1>3, <1>4, <1>5, <1>6, <1>7, <1>8, <1>9, <1>10
  DEF GateStep, Disturb

\* Any thread's step, and the stuttering of a manager at rest, preserve it.
LEMMA LockNextInv == LockInv /\ [LockNext]_lockVars => LockInv'
<1> SUFFICES ASSUME LockInv, [LockNext]_lockVars PROVE LockInv'
  OBVIOUS
<1>1. CASE UNCHANGED lockVars
  BY <1>1
  DEF lockVars, LockInv, LockTypeOK, HolderIsExclusive, QueueCoherent,
      HeldBelowTodo, NoLostWakeup, OneThreadPerCommand, IsNext, IsWinner, SameCommand
<1>2. CASE LockNext /\ ~UNCHANGED lockVars
  BY <1>2, ThreadStepInv DEF LockNext, LockTerminated
<1> QED BY <1>1, <1>2

\* The inductive invariant of the lock manager: the properties below are each
\* read off it.
THEOREM LockInvariance == LockSafetySpec => []LockInv
  BY LockInitInv, LockNextInv, PTL DEF LockSafetySpec

-----------------------------------------------------------------------------

\* Type correctness of the lock manager's state.
THEOREM LockTypeCorrect == LockSafetySpec => []LockTypeOK
<1>1. LockInv => LockTypeOK
  BY DEF LockInv
<1> QED BY <1>1, LockInvariance, PTL

\* No two threads are past one gate, and release is never refused.
THEOREM MutualExclusion == LockSafetySpec => []HolderIsExclusive
<1>1. LockInv => HolderIsExclusive
  BY DEF LockInv
<1> QED BY <1>1, LockInvariance, PTL

\* A free gate's winner is never asleep.
THEOREM WakeupsAreNotLost == LockSafetySpec => []NoLostWakeup
<1>1. LockInv => NoLostWakeup
  BY DEF LockInv
<1> QED BY <1>1, LockInvariance, PTL

\* No cycle of waiting threads: the holder of a gate only waits further up.
THEOREM NoWaitCycle == LockSafetySpec => []WaitsGoUpward
<1>1. LockInv => WaitsGoUpward
  <2> SUFFICES ASSUME LockInv, NEW k \in Keys, NEW t \in waiters[k]
               PROVE  /\ \A j \in held[t] : j < k
                      /\ \A j \in Keys : holder[k] # NoThread /\ holder[k] \in waiters[j]
                                          => k < j
    BY DEF WaitsGoUpward
  <2>1. t \in Threads /\ k \in todo[t]
    BY DEF LockInv, LockTypeOK, QueueCoherent, IsNext
  <2>2. ASSUME NEW j \in Keys, holder[k] # NoThread, holder[k] \in waiters[j]
        PROVE  k < j
    <3>1. holder[k] \in Threads /\ k \in held[holder[k]]
      BY <2>2 DEF LockInv, LockTypeOK, HolderIsExclusive
    <3>2. j \in todo[holder[k]]
      BY <2>2, <3>1 DEF LockInv, QueueCoherent, IsNext
    <3> QED BY <3>1, <3>2 DEF LockInv, HeldBelowTodo
  <2> QED BY <2>1, <2>2 DEF LockInv, HeldBelowTodo
<1> QED BY <1>1, LockInvariance, PTL

\* The duplicate tests keep command ids unique at a gate.
THEOREM CommandsAreUnique == LockSafetySpec => []OneThreadPerCommand
<1>1. LockInv => OneThreadPerCommand
  BY DEF LockInv
<1> QED BY <1>1, LockInvariance, PTL

\* A gate goes to the claim that precedes every claim left in its queue.
THEOREM GrantOrder == LockSafetySpec => GrantsFollowPrecedence
<1> DEFINE Ordered == \A k \in Keys : \A t \in Threads :
                        holder'[k] = t /\ holder[k] # t =>
                            \A u \in waiters'[k] : Precedes(t, u)
<1>1. ASSUME LockInv, LockNext PROVE Ordered
  <2> SUFFICES ASSUME NEW k \in Keys, NEW t \in Threads, holder'[k] = t, holder[k] # t
               PROVE  \A u \in waiters'[k] : Precedes(t, u)
    OBVIOUS
  <2>1. \E u \in Threads, j \in Keys : Granted(u, j) /\ Grant(u, j)
    <3>1. holder' # holder
      OBVIOUS
    <3>2. ASSUME NEW u \in Threads, NEW j \in Keys, Release(u, j) PROVE FALSE
      BY <3>2, NoThreadAssumption DEF Release, LockInv, LockTypeOK
    <3> QED
      BY <1>1, <3>1, <3>2
      DEF LockNext, GateStep, Disturb, Begin, EnterRefused, EnterGranted, EnterWaits,
          Recheck, TimeOut, FinalCheck, Interrupt, Abandon, Leave, LockTerminated, lockVars
  <2>2. PICK u \in Threads, j \in Keys : Granted(u, j) /\ Grant(u, j)
    BY <2>1
  <2>3. j = k /\ u = t
    BY <1>1, <2>2 DEF Grant, LockInv, LockTypeOK
  <2>4. waiters'[k] = waiters[k] \ {t}
    BY <1>1, <2>2, <2>3 DEF Grant, LockInv, LockTypeOK
  <2> QED BY <2>2, <2>3, <2>4 DEF Granted, IsWinner
<1>2. LockInv /\ [LockNext]_lockVars => [Ordered]_lockVars
  BY <1>1
<1> QED BY <1>2, LockInvariance, PTL DEF GrantsFollowPrecedence, LockSafetySpec

-----------------------------------------------------------------------------
(***************************************************************************)
(* The reservation store.  GateInv is its inductive invariant for ids on   *)
(* any number of keys: a thread inside the body of apply holds the gates   *)
(* of its whole batch (PhasesAgree), so a record it has checked keeps its  *)
(* version or is put on another key (GatedStaysValid), and no two ids make *)
(* a live claim on one key (ClaimsExclusive).                              *)
(*                                                                         *)
(* StoreInv adds to it, for the ids that belong to one key, that what was  *)
(* validated stays valid until it is published (ValidatedStaysValid), and  *)
(* that drafts succeed the versions they declare (DraftsDescend).  Of an   *)
(* id of two keys neither is true: apply takes the gates of keys, so two   *)
(* creators may take such an id under two gates.                           *)
(*                                                                         *)
(* One hypothesis is about how the store is used, not about its code.      *)
(* SeedsSound: the records a store is constructed with were built by the   *)
(* command family.                                                         *)
(***************************************************************************)

RecordOrNone == Reservation \cup {NoRecord}

StoreTypeOK ==
    /\ records \in [Ids -> RecordOrNone]
    /\ draft \in [Threads -> [Ids -> RecordOrNone]]
    /\ expected \in [Threads -> [Ids -> Nat]]
    /\ stage \in [Threads -> {"out", "versions", "exclusivity", "publish"}]
    /\ pending \in [Threads -> SUBSET Ids]

\* Stored and drafted records are on a key of their id.
RecordsKeyed ==
    \A id \in Ids :
        /\ Exists(records[id]) => records[id].key \in KeysOf[id]
        /\ \A t \in Threads : Exists(draft[t][id]) => draft[t][id].key \in KeysOf[id]

\* Where a thread stands in apply, and the gates of its batch: inside the body it
\* holds them all, and it validates and publishes nowhere else.
PhasesAgree ==
    \A t \in Threads :
        /\ pc[t] \in {"entering"} \cup Waiting =>
              stage[t] = "versions" /\ BatchKeys(t) \subseteq held[t] \cup todo[t]
        /\ pc[t] = "critical" => BatchKeys(t) \subseteq held[t]
        /\ stage[t] \in {"exclusivity", "publish"} => pc[t] = "critical"
        /\ pending[t] # {} => stage[t] = "publish"
        /\ pending[t] \subseteq BatchIds(t)

\* A record t has checked and not yet published is still at the version t
\* declared, or has been put on another key than the one t writes it on.
GatedStaysValid ==
    \A t \in Threads : \A id \in BatchIds(t) :
        stage[t] = "exclusivity" \/ id \in pending[t] =>
            Version(records[id]) = expected[t][id] \/ Displaced(t, id)

\* Two ids never make a live claim on one key: a batch under publication not
\* with itself or another one, nor with a record it does not replace; and two
\* stored records only while one of them is being replaced.
Clash(r, q) == Live(r) /\ Live(q) /\ r.key = q.key

ClaimsExclusive ==
    /\ \A t, u \in Threads : \A a \in pending[t], b \in pending[u] :
          a # b => ~Clash(draft[t][a], draft[u][b])
    /\ \A t \in Threads : \A a \in pending[t], b \in Ids \ pending[t] :
          ~Clash(draft[t][a], records[b])
    /\ \A a, b \in Ids :
          a # b /\ Clash(records[a], records[b]) =>
              \E t \in Threads : a \in pending[t] \/ b \in pending[t]

\* What ValidateVersions established of an id of one key stays true until its
\* record is published.
ValidatedStaysValid ==
    \A t \in Threads : \A id \in BatchIds(t) \cap KeyedIds :
        stage[t] = "exclusivity" \/ id \in pending[t] =>
            /\ Version(records[id]) = expected[t][id]
            /\ draft[t][id].ver = expected[t][id] + 1

\* A drafted record is a creation, or the successor of the record its writer
\* read; that version may have been superseded since, never undone.
DraftsDescend ==
    \A t \in Threads : \A id \in BatchIds(t) \cap KeyedIds :
        /\ expected[t][id] = 0 => IsCreation(draft[t][id])
        /\ expected[t][id] # 0 =>
              /\ Version(records[id]) >= expected[t][id]
              /\ Version(records[id]) = expected[t][id] => IsSuccessor(records[id], draft[t][id])

StoreBase == StoreTypeOK /\ RecordsKeyed /\ PhasesAgree

GateInv == LockInv /\ StoreBase /\ GatedStaysValid /\ ClaimsExclusive

DraftInv == ValidatedStaysValid /\ DraftsDescend

StoreInv == GateInv /\ DraftInv

-----------------------------------------------------------------------------
(* What the commands build. *)

\* _advance, and the amendment's two fields, one field at a time.
LEMMA AdvanceByField ==
    ASSUME NEW r, NEW state
    PROVE  Advance(r, state) = [[r EXCEPT !.ver = r.ver + 1] EXCEPT !.state = state]
  BY DEF Advance

\* _amended, one field at a time.
LEMMA AmendedByField ==
    ASSUME NEW r, NEW w, NEW c
    PROVE  Amended(r, w, c) = [[Advance(r, r.state) EXCEPT !.window = w] EXCEPT !.conds = c]
  BY DEF Amended

\* _advance builds a record on the same key, one version on.
LEMMA AdvanceShape ==
    ASSUME NEW r \in Reservation, NEW state \in ReservationState
    PROVE  /\ Advance(r, state) \in Reservation
           /\ Advance(r, state).key = r.key
           /\ Advance(r, state).ver = r.ver + 1
<1> DEFINE next == [r EXCEPT !.ver = r.ver + 1]
<1>1. next \in Reservation /\ next.key = r.key /\ next.ver = r.ver + 1
  BY DEF Reservation
<1> HIDE DEF next
<1>2. LET new == [next EXCEPT !.state = state]
      IN  new \in Reservation /\ new.key = next.key /\ new.ver = next.ver
  BY <1>1 DEF Reservation
<1> QED BY <1>1, <1>2, AdvanceByField DEF next

\* A successor is a record on the same key, one version on.
LEMMA SuccessorShape ==
    ASSUME NEW old \in Reservation, NEW new, IsSuccessor(old, new)
    PROVE  new \in Reservation /\ new.key = old.key /\ new.ver = old.ver + 1
<1>1. old.state \in ReservationState
  BY DEF Reservation
<1>2. {"HELD", "COMMITTED", "RELEASED", "EXPIRED", "DEFAULTED", "CONSUMED"}
         \subseteq ReservationState
  BY DEF ReservationState
<1>3. CASE new = Held(old)
  BY <1>2, <1>3, AdvanceShape DEF Held, Reservation
<1>4. CASE \E w \in Windows, c \in CondSets : new = Amended(old, w, c)
  BY <1>1, <1>4, AdvanceShape, AmendedByField DEF Reservation
<1>5. CASE \E asOf \in Instants : new = Committed(old, asOf)
  BY <1>2, <1>5, AdvanceShape DEF Committed, Reservation
<1>6. CASE \E asOf \in Instants : new = Defaulted(old, asOf)
  BY <1>2, <1>6, AdvanceShape DEF Defaulted, Reservation
<1>7. CASE \E asOf \in Instants : new = Consumed(old, asOf)
  BY <1>2, <1>7, AdvanceShape DEF Consumed, Reservation
<1>8. CASE new = Advance(old, "RELEASED")
  BY <1>2, <1>8, AdvanceShape
<1>9. CASE new = Advance(old, "EXPIRED")
  BY <1>2, <1>9, AdvanceShape
<1> QED
  BY <1>3, <1>4, <1>5, <1>6, <1>7, <1>8, <1>9 DEF IsSuccessor

\* A created record is a record at version 1 on the key asked for.
LEMMA CreationShape ==
    ASSUME NEW k \in Keys, NEW w \in Windows, NEW c \in CondSets
    PROVE  /\ Created(k, w, c) \in Reservation
           /\ Created(k, w, c).key = k /\ Created(k, w, c).ver = 1
           /\ IsCreation(Created(k, w, c))
<1>1. Created(k, w, c) \in Reservation
  BY DEF Created, Reservation, ReservationState
<1>2. Created(k, w, c).key = k /\ Created(k, w, c).ver = 1
  BY DEF Created
<1>3. IsCreation(Created(k, w, c))
  BY DEF IsCreation
<1> QED BY <1>1, <1>2, <1>3

\* A record the command family may have built for its id and version.
Drafted(id, new, version) ==
    \/ version = 0 /\ IsCreation(new) /\ new.key \in KeysOf[id]
    \/ Exists(records[id]) /\ version = records[id].ver /\ IsSuccessor(records[id], new)

\* Every command drafts a creation or a successor of the stored record.
LEMMA CommandDrafts ==
    ASSUME NEW t \in Threads, NEW id \in Ids, StoreTypeOK, Command(t, id)
    PROVE  \E new, version : Draft(t, id, new, version) /\ Drafted(id, new, version)
<1>1. CASE Create(t, id)
  <2>1. PICK k \in KeysOf[id], w \in Windows, c \in CondSets :
           Draft(t, id, Created(k, w, c), 0)
    BY <1>1 DEF Create
  <2>2. Drafted(id, Created(k, w, c), 0)
    BY CreationShape, KeysOfAssumption DEF Drafted
  <2> QED BY <2>1, <2>2
<1>2. CASE Hold(t, id)
  <2>1. Drafted(id, Held(records[id]), records[id].ver)
    BY <1>2 DEF Hold, Drafted, IsSuccessor
  <2> QED BY <1>2, <2>1 DEF Hold
<1>3. CASE Amend(t, id)
  <2>1. PICK w \in Windows, c \in CondSets :
           Draft(t, id, Amended(records[id], w, c), records[id].ver)
    BY <1>3 DEF Amend
  <2>2. Drafted(id, Amended(records[id], w, c), records[id].ver)
    BY <1>3 DEF Amend, Drafted, IsSuccessor
  <2> QED BY <2>1, <2>2
<1>4. CASE Commit(t, id)
  <2>1. PICK a \in Instants, satisfied \in CondSets :
           /\ CanCommit(records[id], a, satisfied)
           /\ Draft(t, id, Committed(records[id], a), records[id].ver)
    BY <1>4 DEF Commit
  <2>2. Drafted(id, Committed(records[id], a), records[id].ver)
    BY <1>4, <2>1 DEF Commit, Drafted, IsSuccessor, CanCommit
  <2> QED BY <2>1, <2>2
<1>5. CASE ReleaseClaim(t, id)
  <2>1. Drafted(id, Advance(records[id], "RELEASED"), records[id].ver)
    BY <1>5 DEF ReleaseClaim, Drafted, IsSuccessor
  <2> QED BY <1>5, <2>1 DEF ReleaseClaim
<1>6. CASE Expire(t, id)
  <2>1. Drafted(id, Advance(records[id], "EXPIRED"), records[id].ver)
    BY <1>6 DEF Expire, Drafted, IsSuccessor
  <2> QED BY <1>6, <2>1 DEF Expire
<1>7. CASE Default(t, id)
  <2>1. PICK a \in Instants :
           /\ CanDefault(records[id], a)
           /\ Draft(t, id, Defaulted(records[id], a), records[id].ver)
    BY <1>7 DEF Default
  <2>2. Drafted(id, Defaulted(records[id], a), records[id].ver)
    BY <1>7, <2>1 DEF Default, Drafted, IsSuccessor
  <2> QED BY <2>1, <2>2
<1>8. CASE Consume(t, id)
  <2>1. PICK a \in Instants :
           /\ CanConsume(records[id], a)
           /\ Draft(t, id, Consumed(records[id], a), records[id].ver)
    BY <1>8 DEF Consume
  <2>2. Drafted(id, Consumed(records[id], a), records[id].ver)
    BY <1>8, <2>1 DEF Consume, Drafted, IsSuccessor
  <2> QED BY <2>1, <2>2
<1> QED
  BY <1>1, <1>2, <1>3, <1>4, <1>5, <1>6, <1>7, <1>8 DEF Command

-----------------------------------------------------------------------------
(* The gates under the store. *)

Inside == {"entering"} \cup Waiting

\* What a step at the gates does to the thread that takes it and to the others:
\* a thread enters the body only with every key it asked for.
GateEffect(t) ==
    /\ \A u \in Threads \ {t} :
          /\ held'[u] = held[u] /\ todo'[u] = todo[u]
          /\ pc'[u] = pc[u] \/ (pc[u] \in Waiting /\ pc'[u] \in Waiting)
    /\ pc[t] \in Inside \cup {"releasing"}
    /\ pc'[t] # "idle"
    /\ pc'[t] \in Inside \cup {"critical"} =>
          pc[t] \in Inside /\ held[t] \cup todo[t] \subseteq held'[t] \cup todo'[t]
    /\ pc'[t] = "critical" => todo'[t] = {}

\* Every step at the gates has that effect.
LEMMA GateEffects ==
    ASSUME LockInv, NEW t \in Threads, GateStep(t) \/ Disturb(t)
    PROVE  GateEffect(t)
<1> SUFFICES ASSUME LockTypeOK PROVE GateEffect(t)
  BY DEF LockInv
<1> USE DEF LockTypeOK, Inside, Waiting
<1>1. ASSUME NEW k \in Keys, IsNext(t, k), Grant(t, k), pc[t] \in Inside
      PROVE  GateEffect(t)
  <2>1. \A u \in Threads \ {t} : held'[u] = held[u] /\ todo'[u] = todo[u]
    BY <1>1 DEF Grant
  <2>2. \A u \in Threads \ {t} : pc'[u] = pc[u] \/ (pc[u] \in Waiting /\ pc'[u] \in Waiting)
    BY <1>1 DEF Grant, NotifyAll
  <2>3. pc'[t] = IF todo[t] = {k} THEN "critical" ELSE "entering"
    BY <1>1 DEF Grant, NotifyAll
  <2>4. held[t] \cup todo[t] \subseteq held'[t] \cup todo'[t]
    BY <1>1 DEF Grant
  <2>5. todo[t] = {k} => todo'[t] = {}
    BY <1>1 DEF Grant
  <2> QED BY <1>1, <2>1, <2>2, <2>3, <2>4, <2>5 DEF GateEffect
<1>2. ASSUME NEW k \in Keys, Abandon(t, k), pc[t] \in Inside
      PROVE  GateEffect(t)
  <2>1. \A u \in Threads \ {t} : held'[u] = held[u] /\ todo'[u] = todo[u]
    BY <1>2 DEF Abandon
  <2>2. \A u \in Threads \ {t} : pc'[u] = pc[u] \/ (pc[u] \in Waiting /\ pc'[u] \in Waiting)
    BY <1>2 DEF Abandon, NotifyAll
  <2>3. pc'[t] \in {"done", "releasing"}
    BY <1>2 DEF Abandon, NotifyAll, Unwind
  <2> QED BY <1>2, <2>1, <2>2, <2>3 DEF GateEffect
<1>3. CASE \E k \in Keys : EnterRefused(t, k)
  <2>1. pc'[t] \in {"done", "releasing"} /\ pc[t] = "entering"
    BY <1>3 DEF EnterRefused, Unwind
  <2>2. \A u \in Threads \ {t} : held'[u] = held[u] /\ todo'[u] = todo[u] /\ pc'[u] = pc[u]
    BY <1>3 DEF EnterRefused
  <2> QED BY <2>1, <2>2 DEF GateEffect
<1>4. CASE \E k \in Keys : EnterGranted(t, k)
  BY <1>1, <1>4 DEF EnterGranted
<1>5. ASSUME pc[t] \in Inside, pc' = [pc EXCEPT ![t] = "sleeping"] \/ pc' = [pc EXCEPT ![t] = "timedout"],
             UNCHANGED <<todo, held>>
      PROVE  GateEffect(t)
  BY <1>5 DEF GateEffect
<1>6. CASE \E k \in Keys : EnterWaits(t, k)
  BY <1>5, <1>6 DEF EnterWaits
<1>7. CASE \E k \in Keys : Recheck(t, k)
  BY <1>1, <1>5, <1>7 DEF Recheck
<1>8. CASE \E k \in Keys : FinalCheck(t, k)
  BY <1>1, <1>2, <1>8 DEF FinalCheck
<1>9. CASE \E k \in Keys : Release(t, k)
  <2> PICK k \in Keys : Release(t, k)
    BY <1>9
  <2>1. \A u \in Threads \ {t} : held'[u] = held[u] /\ todo'[u] = todo[u]
    BY DEF Release
  <2>2. \A u \in Threads \ {t} : pc'[u] = pc[u] \/ (pc[u] \in Waiting /\ pc'[u] \in Waiting)
    BY DEF Release, NotifyAll
  <2>3. pc'[t] \in {"done", "releasing"} /\ pc[t] = "releasing"
    BY DEF Release, NotifyAll
  <2> QED BY <2>1, <2>2, <2>3 DEF GateEffect
<1>10. CASE TimeOut(t)
  BY <1>5, <1>10 DEF TimeOut
<1>11. CASE \E k \in Keys : Interrupt(t, k)
  BY <1>2, <1>11 DEF Interrupt
<1> QED
  BY <1>3, <1>4, <1>6, <1>7, <1>8, <1>9, <1>10, <1>11 DEF GateStep, Disturb

\* A caller that comes back for another batch holds no gate and waits at none.
LEMMA ReturnLockInv ==
    ASSUME LockInv, NEW t \in Threads, Return(t)
    PROVE  LockInv'
<1> USE DEF LockInv, Return
<1>1. LockTypeOK'
  BY DEF LockTypeOK, PC, Waiting
<1>2. HolderIsExclusive'
  BY DEF HolderIsExclusive
<1>3. HeldBelowTodo'
  BY DEF HeldBelowTodo, LockTypeOK
<1>4. QueueCoherent'
  BY DEF QueueCoherent, LockTypeOK, IsNext, Waiting
<1>5. NoLostWakeup'
  BY DEF NoLostWakeup, LockTypeOK, IsWinner
<1>6. OneThreadPerCommand'
  BY DEF OneThreadPerCommand, SameCommand
<1> QED BY <1>1, <1>2, <1>3, <1>4, <1>5, <1>6

\* A step that leaves the gates alone.
LEMMA LockStutter ==
    ASSUME LockInv, UNCHANGED lockVars PROVE LockInv'
  BY LockNextInv DEF LockNext

\* The steps of the store use the gates as the lock manager allows.
LEMMA StoreLockInv == LockInv /\ [Next]_vars => LockInv'
<1> SUFFICES ASSUME LockInv, [Next]_vars PROVE LockInv'
  OBVIOUS
<1>1. ASSUME NEW t \in Threads, NEW id \in Ids, Command(t, id) PROVE LockInv'
  BY <1>1, LockStutter
  DEF Command, Create, Hold, Amend, Commit, ReleaseClaim, Expire, Default, Consume, Draft
<1>2. ASSUME NEW t \in Threads, Apply(t) PROVE LockInv'
  BY <1>2, ThreadStepInv DEF Apply
<1>3. ASSUME NEW t \in Threads, GateStep(t) \/ Disturb(t) PROVE LockInv'
  BY <1>3, ThreadStepInv
<1>4. ASSUME NEW t \in Threads, EndApply(t) \/ UNCHANGED lockVars PROVE LockInv'
  BY <1>4, ThreadStepInv, LockStutter DEF EndApply
<1>5. ASSUME NEW t \in Threads, ApplyStep(t) PROVE LockInv'
  <2>1. CASE GateStep(t)
    BY <2>1, <1>3
  <2>2. CASE ValidateVersions(t)
    BY <2>2, <1>4 DEF ValidateVersions
  <2>3. CASE ValidateExclusivity(t)
    BY <2>3, <1>4 DEF ValidateExclusivity
  <2>4. CASE \E id \in Ids : Publish(t, id)
    BY <2>4, <1>4 DEF Publish, lockVars
  <2> QED BY <1>5, <2>1, <2>2, <2>3, <2>4 DEF ApplyStep
<1>6. CASE UNCHANGED vars
  BY <1>6, LockStutter DEF vars
<1>7. ASSUME NEW t \in Threads, Return(t) PROVE LockInv'
  BY <1>7, ReturnLockInv
<1> QED
  BY <1>1, <1>2, <1>3, <1>5, <1>6, <1>7 DEF Next

-----------------------------------------------------------------------------
(* Each action of the store, on the parts of the invariant below exclusivity. *)

\* Two threads inside the body of apply never work on one key, nor on one id.
LEMMA BodiesDisjoint ==
    ASSUME LockInv, StoreBase, NEW t \in Threads, NEW u \in Threads, t # u,
           pc[t] = "critical", pc[u] = "critical",
           NEW a \in BatchIds(t), NEW b \in BatchIds(u)
    PROVE  /\ draft[t][a].key # draft[u][b].key
           /\ a \in KeyedIds => a # b
<1> USE DEF StoreBase, BatchIds
<1>1. draft[t][a].key \in held[t] /\ draft[u][b].key \in held[u]
  BY DEF PhasesAgree, BatchKeys
<1>2. draft[t][a].key # draft[u][b].key
  BY <1>1 DEF LockInv, LockTypeOK, HolderIsExclusive
<1>3. draft[t][a].key \in KeysOf[a] /\ draft[u][b].key \in KeysOf[b]
  BY DEF RecordsKeyed
<1> QED BY <1>2, <1>3 DEF KeyedIds

\* A drafted record is on a key of its id.
LEMMA DraftedShape ==
    ASSUME StoreBase, NEW id \in Ids, NEW new, NEW version, Drafted(id, new, version)
    PROVE  /\ new \in Reservation /\ Exists(new)
           /\ new.key \in KeysOf[id]
           /\ version \in Nat
<1> USE DEF StoreBase
<1>1. CASE version = 0 /\ IsCreation(new) /\ new.key \in KeysOf[id]
  <2>1. new \in Reservation
    BY <1>1, CreationShape DEF IsCreation
  <2> QED BY <1>1, <2>1, NoRecordAssumption DEF Exists
<1>2. CASE Exists(records[id]) /\ version = records[id].ver /\ IsSuccessor(records[id], new)
  <2>1. records[id] \in Reservation
    BY <1>2 DEF StoreTypeOK, RecordOrNone, Exists
  <2>2. new \in Reservation /\ new.key = records[id].key
    BY <1>2, <2>1, SuccessorShape
  <2>3. version \in Nat
    BY <1>2, <2>1 DEF Reservation
  <2> QED BY <1>2, <2>2, <2>3, NoRecordAssumption DEF Exists, RecordsKeyed
<1> QED BY <1>1, <1>2 DEF Drafted

\* Drafting a record.
LEMMA DraftBase ==
    ASSUME StoreBase, NEW t \in Threads, NEW id \in Ids, NEW new, NEW version,
           Draft(t, id, new, version), Drafted(id, new, version)
    PROVE  StoreBase'
<1> USE DEF StoreBase, Draft
<1>1. /\ new \in Reservation /\ Exists(new)
      /\ new.key \in KeysOf[id]
      /\ version \in Nat
  BY DraftedShape
<1>2. StoreTypeOK'
  BY <1>1 DEF StoreTypeOK, RecordOrNone
<1>3. RecordsKeyed'
  BY <1>1 DEF RecordsKeyed, StoreTypeOK
<1>4. ASSUME NEW u \in Threads, u # t
      PROVE  BatchKeys(u)' = BatchKeys(u) /\ BatchIds(u)' = BatchIds(u)
  BY <1>4 DEF BatchKeys, BatchIds, StoreTypeOK
<1>5. pending[t] = {} /\ stage[t] \notin {"exclusivity", "publish"}
  BY DEF PhasesAgree
<1>6. PhasesAgree'
  BY <1>4, <1>5 DEF PhasesAgree, lockVars, Waiting
<1> QED BY <1>2, <1>3, <1>6

\* Calling apply.
LEMMA ApplyBase ==
    ASSUME LockInv, StoreBase, NEW t \in Threads, Apply(t)
    PROVE  StoreBase'
<1> USE DEF StoreBase, Apply, Begin
<1>1. StoreTypeOK'
  BY DEF StoreTypeOK
<1>2. RecordsKeyed'
  BY DEF RecordsKeyed
<1>3. \A u \in Threads : BatchKeys(u)' = BatchKeys(u) /\ BatchIds(u)' = BatchIds(u)
  BY DEF BatchKeys, BatchIds
<1>4. PhasesAgree'
  BY <1>3 DEF PhasesAgree, LockInv, LockTypeOK, StoreTypeOK, Waiting
<1> QED BY <1>1, <1>2, <1>4

\* A step at the gates.
LEMMA GateBase ==
    ASSUME LockInv, StoreBase, NEW t \in Threads, GateEffect(t), UNCHANGED storeVars
    PROVE  StoreBase'
<1> USE DEF StoreBase, storeVars
<1>1. StoreTypeOK'
  BY DEF StoreTypeOK
<1>2. RecordsKeyed'
  BY DEF RecordsKeyed
<1>3. \A u \in Threads : BatchKeys(u)' = BatchKeys(u) /\ BatchIds(u)' = BatchIds(u)
  BY DEF BatchKeys, BatchIds
<1>4. PhasesAgree'
  BY <1>3 DEF PhasesAgree, GateEffect, Inside, Waiting
<1> QED BY <1>1, <1>2, <1>4

\* Validating the declared versions.
LEMMA VersionsBase ==
    ASSUME LockInv, StoreBase, NEW t \in Threads, ValidateVersions(t)
    PROVE  StoreBase'
<1> USE DEF StoreBase, ValidateVersions, EndApply, Leave
<1>1. StoreTypeOK'
  BY DEF StoreTypeOK
<1>2. RecordsKeyed'
  BY DEF RecordsKeyed
<1>3. \A u \in Threads : BatchKeys(u)' = BatchKeys(u) /\ BatchIds(u)' = BatchIds(u)
  BY DEF BatchKeys, BatchIds
<1>4. PhasesAgree'
  BY <1>3 DEF PhasesAgree, LockInv, LockTypeOK, StoreTypeOK, Waiting, lockVars
<1> QED BY <1>1, <1>2, <1>4

\* Validating exclusivity.
LEMMA ExclusivityBase ==
    ASSUME LockInv, StoreBase, NEW t \in Threads, ValidateExclusivity(t)
    PROVE  StoreBase'
<1> USE DEF StoreBase, ValidateExclusivity, EndApply, Leave
<1>1. StoreTypeOK'
  BY DEF StoreTypeOK, BatchIds
<1>2. RecordsKeyed'
  BY DEF RecordsKeyed
<1>3. \A u \in Threads : BatchKeys(u)' = BatchKeys(u) /\ BatchIds(u)' = BatchIds(u)
  BY DEF BatchKeys, BatchIds
<1>4. /\ \A u \in Threads \ {t} : pc'[u] = pc[u] /\ stage'[u] = stage[u] /\ pending'[u] = pending[u]
      /\ held' = held /\ todo' = todo
      /\ \/ pc'[t] = "critical" /\ stage'[t] = "publish" /\ pending'[t] = BatchIds(t)
         \/ pc'[t] = "releasing" /\ stage'[t] = "out" /\ pending'[t] = pending[t]
  BY DEF LockInv, LockTypeOK, StoreTypeOK, lockVars
<1>5. pending[t] = {}
  BY DEF PhasesAgree
<1>6. PhasesAgree'
  BY <1>3, <1>4, <1>5 DEF PhasesAgree, Waiting
<1> QED BY <1>1, <1>2, <1>6

\* Publishing a record.
LEMMA PublishBase ==
    ASSUME LockInv, StoreBase, NEW t \in Threads, NEW id \in Ids, Publish(t, id)
    PROVE  StoreBase'
<1> USE DEF StoreBase, Publish, EndApply, Leave
<1>1. StoreTypeOK'
  BY DEF StoreTypeOK
<1>2. id \in BatchIds(t)
  BY DEF PhasesAgree
<1>3. RecordsKeyed'
  BY <1>2 DEF RecordsKeyed, StoreTypeOK, BatchIds
<1>4. \A u \in Threads : BatchKeys(u)' = BatchKeys(u) /\ BatchIds(u)' = BatchIds(u)
  BY DEF BatchKeys, BatchIds
<1>5. /\ \A u \in Threads \ {t} : pc'[u] = pc[u] /\ stage'[u] = stage[u] /\ pending'[u] = pending[u]
      /\ held' = held /\ todo' = todo
      /\ pending'[t] = pending[t] \ {id}
      /\ \/ pending'[t] = {} /\ pc'[t] = "releasing" /\ stage'[t] = "out"
         \/ pc'[t] = pc[t] /\ stage'[t] = stage[t]
  BY DEF LockInv, LockTypeOK, StoreTypeOK, lockVars
<1>6. PhasesAgree'
  BY <1>4, <1>5 DEF PhasesAgree, Waiting
<1> QED BY <1>1, <1>3, <1>6

\* Coming back for another batch.
LEMMA ReturnBase ==
    ASSUME LockInv, StoreBase, NEW t \in Threads, Return(t)
    PROVE  StoreBase'
<1> USE DEF StoreBase, Return
<1>1. StoreTypeOK'
  BY DEF StoreTypeOK, NoBatch, RecordOrNone
<1>2. RecordsKeyed'
  BY DEF RecordsKeyed, StoreTypeOK, NoBatch, Exists
<1>3. ASSUME NEW u \in Threads, u # t
      PROVE  BatchKeys(u)' = BatchKeys(u) /\ BatchIds(u)' = BatchIds(u)
  BY <1>3 DEF BatchKeys, BatchIds, StoreTypeOK
<1>4. pending[t] = {}
  BY DEF PhasesAgree
<1>5. PhasesAgree'
  BY <1>3, <1>4 DEF PhasesAgree, LockInv, LockTypeOK, StoreTypeOK, Waiting
<1> QED BY <1>1, <1>2, <1>5

-----------------------------------------------------------------------------
(* The steps, by what they do to the records and the batches. *)

\* t's batch passes the exclusivity check.
BatchAccepted(t) ==
    /\ pc[t] = "critical"
    /\ stage[t] = "exclusivity"
    /\ Crowded(Overlay(t)) = {}
    /\ pending' = [pending EXCEPT ![t] = BatchIds(t)]
    /\ stage' = [stage EXCEPT ![t] = "publish"]
    /\ UNCHANGED <<records, draft, expected>>

\* Nothing is stored, and no batch past its version check is touched.
QuietStep ==
    /\ UNCHANGED <<records, pending>>
    /\ \A u \in Threads :
          pending[u] # {} \/ stage'[u] = "exclusivity" =>
              draft'[u] = draft[u] /\ expected'[u] = expected[u]
    /\ \A u \in Threads :
          stage'[u] = "exclusivity" => stage[u] = "exclusivity" \/ VersionsHold(u)

\* Every step is one of the three.
LEMMA StoreCases ==
    ASSUME LockInv, StoreBase, [Next]_vars
    PROVE  /\ StoreBase'
           /\ \/ QuietStep
              \/ \E t \in Threads : BatchAccepted(t)
              \/ \E t \in Threads, id \in Ids : Publish(t, id)
<1> DEFINE Result == StoreBase' /\ (QuietStep \/ (\E t \in Threads : BatchAccepted(t))
                                     \/ (\E t \in Threads, id \in Ids : Publish(t, id)))
<1>1. ASSUME NEW t \in Threads, NEW id \in Ids, Command(t, id) PROVE Result
  <2>1. PICK new, version : Draft(t, id, new, version) /\ Drafted(id, new, version)
    BY <1>1, CommandDrafts DEF StoreBase
  <2>2. StoreBase'
    BY <2>1, DraftBase
  <2>3. pending[t] = {} /\ stage[t] # "exclusivity" /\ stage' = stage
    BY <2>1 DEF StoreBase, PhasesAgree, Draft
  <2>4. QuietStep
    BY <2>1, <2>3 DEF QuietStep, Draft, StoreBase, StoreTypeOK
  <2> QED BY <2>2, <2>4
<1>2. ASSUME NEW t \in Threads, Apply(t) PROVE Result
  BY <1>2, ApplyBase DEF QuietStep, Apply, StoreBase, StoreTypeOK
<1>3. ASSUME NEW t \in Threads, GateStep(t) \/ Disturb(t), UNCHANGED storeVars PROVE Result
  BY <1>3, GateEffects, GateBase DEF QuietStep, storeVars
<1>4. ASSUME NEW t \in Threads, ValidateVersions(t) PROVE Result
  BY <1>4, VersionsBase DEF QuietStep, ValidateVersions, EndApply, StoreBase, StoreTypeOK
<1>5. ASSUME NEW t \in Threads, ValidateExclusivity(t) PROVE Result
  <2>1. StoreBase'
    BY <1>5, ExclusivityBase
  <2>2. CASE Crowded(Overlay(t)) = {}
    <3>1. BatchAccepted(t)
      BY <1>5, <2>2 DEF ValidateExclusivity, BatchAccepted
    <3> QED BY <2>1, <3>1
  <2>3. CASE Crowded(Overlay(t)) # {}
    <3>1. QuietStep
      BY <1>5, <2>3 DEF QuietStep, ValidateExclusivity, EndApply, StoreBase, StoreTypeOK
    <3> QED BY <2>1, <3>1
  <2> QED BY <2>2, <2>3
<1>6. ASSUME NEW t \in Threads, NEW id \in Ids, Publish(t, id) PROVE Result
  BY <1>6, PublishBase
<1>7. ASSUME NEW t \in Threads, Return(t) PROVE Result
  <2>1. pending[t] = {}
    BY <1>7 DEF StoreBase, PhasesAgree, Return
  <2>2. QuietStep
    BY <1>7, <2>1 DEF QuietStep, Return, StoreBase, StoreTypeOK
  <2> QED BY <1>7, <2>2, ReturnBase
<1>8. CASE UNCHANGED vars
  <2>1. StoreBase'
    BY <1>8 DEF vars, lockVars, storeVars, StoreBase, StoreTypeOK, RecordsKeyed,
                PhasesAgree, BatchKeys, BatchIds
  <2>2. QuietStep
    BY <1>8 DEF QuietStep, vars, storeVars
  <2> QED BY <2>1, <2>2
<1> QED
  BY <1>1, <1>2, <1>3, <1>4, <1>5, <1>6, <1>7, <1>8 DEF Next, ApplyStep

-----------------------------------------------------------------------------
(* Versions and claims, for ids on any number of keys. *)

\* A checked record keeps its version until it is published, or is displaced:
\* another thread in the body of apply writes it on a key of its own.
LEMMA StepKeepsGated ==
    ASSUME LockInv, StoreBase, GatedStaysValid, [Next]_vars
    PROVE  GatedStaysValid'
<1>1. CASE QuietStep
  <2> SUFFICES ASSUME NEW u \in Threads, NEW id \in BatchIds(u)',
                      stage'[u] = "exclusivity" \/ id \in pending'[u]
               PROVE  Version(records'[id]) = expected'[u][id] \/ Displaced(u, id)'
    BY DEF GatedStaysValid
  <2>1. draft'[u] = draft[u] /\ expected'[u] = expected[u] /\ records' = records /\ pending' = pending
    BY <1>1 DEF QuietStep
  <2>2. id \in BatchIds(u)
    BY <2>1 DEF BatchIds
  <2>3. Version(records[id]) = expected[u][id] \/ Displaced(u, id)
    BY <1>1, <2>1, <2>2 DEF GatedStaysValid, QuietStep, VersionsHold
  <2> QED BY <2>1, <2>3 DEF Displaced
<1>2. CASE \E t \in Threads : BatchAccepted(t)
  <2> PICK t \in Threads : BatchAccepted(t)
    BY <1>2
  <2> QED BY DEF BatchAccepted, GatedStaysValid, Displaced, BatchIds, StoreBase, StoreTypeOK
<1>3. CASE \E t \in Threads, id \in Ids : Publish(t, id)
  <2> PICK t \in Threads, id \in Ids : Publish(t, id)
    BY <1>3
  <2>1. id \in BatchIds(t) /\ Exists(draft[t][id])
    BY DEF StoreBase, PhasesAgree, Publish, BatchIds
  <2>2. /\ UNCHANGED <<draft, expected>>
        /\ records'[id] = draft[t][id]
        /\ \A j \in Ids \ {id} : records'[j] = records[j]
        /\ \A u \in Threads : stage'[u] = "exclusivity" => stage[u] = "exclusivity" /\ u # t
        /\ \A u \in Threads \ {t} : pending'[u] = pending[u]
        /\ pending'[t] = pending[t] \ {id}
    BY DEF Publish, EndApply, StoreBase, StoreTypeOK
  <2> SUFFICES ASSUME NEW u \in Threads, NEW j \in BatchIds(u),
                      stage'[u] = "exclusivity" \/ j \in pending'[u]
               PROVE  Version(records'[j]) = expected[u][j] \/ Displaced(u, j)'
    BY <2>2 DEF GatedStaysValid, BatchIds
  <2>3. stage[u] = "exclusivity" \/ j \in pending[u]
    BY <2>2
  <2>4. CASE j # id
    BY <2>2, <2>3, <2>4 DEF GatedStaysValid, Displaced, BatchIds
  <2>5. CASE j = id
    <3>1. u # t /\ pc[t] = "critical" /\ pc[u] = "critical"
      BY <2>2, <2>3, <2>5 DEF StoreBase, PhasesAgree, Publish
    <3>2. draft[t][id].key # draft[u][id].key
      BY <2>1, <2>5, <3>1, BodiesDisjoint
    <3> QED BY <2>1, <2>2, <2>5, <3>2 DEF Displaced
  <2> QED BY <2>4, <2>5
<1> QED BY <1>1, <1>2, <1>3, StoreCases

\* Two threads under publication claim different keys.
LEMMA GatedClaims ==
    ASSUME LockInv, StoreBase, NEW t \in Threads, NEW u \in Threads, t # u,
           pc[t] = "critical", pc[u] = "critical",
           NEW a \in BatchIds(t), NEW b \in BatchIds(u)
    PROVE  ~Clash(draft[t][a], draft[u][b])
  BY BodiesDisjoint DEF Clash

\* A batch that passes the exclusivity check clashes neither with itself nor
\* with a record it does not replace.
LEMMA AcceptedClaims ==
    ASSUME LockInv, StoreBase, ClaimsExclusive, NEW t \in Threads, BatchAccepted(t)
    PROVE  ClaimsExclusive'
<1>1. /\ UNCHANGED <<records, draft>> /\ pending'[t] = BatchIds(t)
      /\ \A u \in Threads \ {t} : pending'[u] = pending[u]
      /\ pending[t] = {}
  BY DEF BatchAccepted, StoreBase, StoreTypeOK, PhasesAgree
<1>2. ASSUME NEW a \in BatchIds(t), NEW b \in Ids, a # b
      PROVE  ~Clash(draft[t][a], Overlay(t)[b])
  <2>1. a \in Ids /\ Overlay(t)[a] = draft[t][a] /\ draft[t][a].key \in Keys
    BY <1>2 DEF Overlay, BatchIds, StoreBase, StoreTypeOK, RecordOrNone, Reservation, Exists
  <2>2. draft[t][a].key \notin Crowded(Overlay(t))
    BY DEF BatchAccepted
  <2> QED BY <1>2, <2>1, <2>2 DEF Crowded, Clash
<1>3. \A a \in BatchIds(t) : Overlay(t)[a] = draft[t][a]
  BY DEF Overlay, BatchIds
<1>4. \A b \in Ids \ BatchIds(t) : Overlay(t)[b] = records[b]
  BY DEF Overlay, BatchIds
<1>5. \A u \in Threads \ {t} : \A b \in pending[u] : pc[u] = "critical" /\ b \in BatchIds(u)
  BY DEF StoreBase, PhasesAgree
<1>6. ASSUME NEW v \in Threads, NEW u \in Threads, NEW a \in pending'[v], NEW b \in pending'[u], a # b
      PROVE  ~Clash(draft[v][a], draft[u][b])
  <2>1. CASE v = t /\ u = t
    BY <1>1, <1>2, <1>3, <1>6, <2>1 DEF BatchIds
  <2>2. CASE v = t /\ u # t
    BY <1>1, <1>5, <2>2, GatedClaims DEF BatchAccepted
  <2>3. CASE v # t /\ u = t
    BY <1>1, <1>5, <2>3, GatedClaims DEF BatchAccepted
  <2>4. CASE v # t /\ u # t
    BY <1>1, <1>6, <2>4 DEF ClaimsExclusive
  <2> QED BY <2>1, <2>2, <2>3, <2>4
<1>7. ASSUME NEW u \in Threads, NEW a \in pending'[u], NEW b \in Ids \ pending'[u]
      PROVE  ~Clash(draft[u][a], records[b])
  BY <1>1, <1>2, <1>4, <1>7 DEF ClaimsExclusive
<1>8. ASSUME NEW a \in Ids, NEW b \in Ids, a # b, Clash(records[a], records[b])
      PROVE  \E u \in Threads : a \in pending'[u] \/ b \in pending'[u]
  BY <1>1, <1>8 DEF ClaimsExclusive
<1> QED BY <1>1, <1>6, <1>7, <1>8 DEF ClaimsExclusive

\* Publishing turns a claim of the batch into a stored one.
LEMMA PublishClaims ==
    ASSUME LockInv, StoreBase, ClaimsExclusive, NEW t \in Threads, NEW id \in Ids, Publish(t, id)
    PROVE  ClaimsExclusive'
<1>1. /\ draft' = draft /\ records'[id] = draft[t][id] /\ id \in pending[t]
      /\ \A j \in Ids \ {id} : records'[j] = records[j]
      /\ \A u \in Threads \ {t} : pending'[u] = pending[u]
      /\ pending'[t] = pending[t] \ {id}
      /\ pc[t] = "critical" /\ id \in BatchIds(t)
  BY DEF Publish, StoreBase, StoreTypeOK, PhasesAgree
<1>2. \A u \in Threads : \A b \in pending[u] : pc[u] = "critical" /\ b \in BatchIds(u)
  BY DEF StoreBase, PhasesAgree
<1>3. ASSUME NEW v \in Threads, NEW u \in Threads, NEW a \in pending'[v], NEW b \in pending'[u], a # b
      PROVE  ~Clash(draft[v][a], draft[u][b])
  <2>1. a \in pending[v] /\ b \in pending[u]
    BY <1>1
  <2> QED BY <1>3, <2>1 DEF ClaimsExclusive
<1>4. ASSUME NEW u \in Threads, NEW a \in pending'[u], NEW b \in Ids \ pending'[u]
      PROVE  ~Clash(draft[u][a], records'[b])
  <2>1. a \in pending[u]
    BY <1>1
  <2>2. CASE b # id
    <3>1. b \in Ids \ pending[u]
      BY <1>1, <2>2
    <3> QED BY <1>1, <2>1, <2>2, <3>1 DEF ClaimsExclusive
  <2>3. CASE b = id /\ u = t
    BY <1>1, <1>4, <2>1, <2>3 DEF ClaimsExclusive
  <2>4. CASE b = id /\ u # t
    BY <1>1, <1>2, <2>1, <2>4, GatedClaims
  <2> QED BY <2>2, <2>3, <2>4
<1>5. ASSUME NEW b \in Ids, b # id, Clash(draft[t][id], records[b])
      PROVE  b \in pending'[t]
  BY <1>1, <1>5 DEF ClaimsExclusive
<1>6. ASSUME NEW a \in Ids, NEW b \in Ids, a # b, Clash(records'[a], records'[b])
      PROVE  \E u \in Threads : a \in pending'[u] \/ b \in pending'[u]
  <2>1. CASE a = id
    BY <1>1, <1>5, <1>6, <2>1
  <2>2. CASE b = id
    <3>1. Clash(draft[t][id], records[a])
      BY <1>1, <1>6, <2>2 DEF Clash
    <3> QED BY <1>5, <1>6, <2>2, <3>1
  <2>3. CASE a # id /\ b # id
    <3>1. PICK u \in Threads : a \in pending[u] \/ b \in pending[u]
      BY <1>1, <1>6, <2>3 DEF ClaimsExclusive
    <3> QED BY <1>1, <2>3, <3>1
  <2> QED BY <2>1, <2>2, <2>3
<1> QED BY <1>1, <1>3, <1>4, <1>6 DEF ClaimsExclusive

\* A quiet step leaves the claims alone.
LEMMA QuietClaims ==
    ASSUME ClaimsExclusive, QuietStep
    PROVE  ClaimsExclusive'
<1>1. \A u \in Threads : \A a \in pending[u] : draft'[u] = draft[u]
  BY DEF QuietStep
<1> QED BY <1>1 DEF QuietStep, ClaimsExclusive

\* A store just constructed satisfies the invariant.
LEMMA GateInitInv == Init => GateInv /\ Published = records
<1> SUFFICES ASSUME Init PROVE GateInv /\ Published = records
  OBVIOUS
<1> USE DEF Init
<1>1. LockInv
  BY LockInitInv
<1>2. StoreTypeOK
  BY SeedsAssumption DEF StoreTypeOK, NoBatch, RecordOrNone
<1>3. \A t \in Threads : BatchIds(t) = {} /\ pending[t] = {} /\ stage[t] = "out"
  BY DEF BatchIds, NoBatch, Exists
<1>4. RecordsKeyed
  BY SeedsAssumption DEF RecordsKeyed, NoBatch, Exists
<1>5. PhasesAgree
  BY <1>3 DEF PhasesAgree, LockInit, Waiting
<1>6. GatedStaysValid
  BY <1>3 DEF GatedStaysValid
<1>7. ASSUME NEW a \in Ids, NEW b \in Ids, a # b PROVE ~Clash(records[a], records[b])
  <2>1. Exists(records[a]) => records[a].key \in Keys
    BY <1>2 DEF StoreTypeOK, RecordOrNone, Reservation, Exists
  <2>2. Crowded(records) = {}
    OBVIOUS
  <2> QED BY <1>7, <2>1, <2>2 DEF Clash, Live, Crowded
<1>8. ClaimsExclusive
  BY <1>3, <1>7 DEF ClaimsExclusive
<1>9. Published = records
  BY <1>2, <1>3 DEF Published, StoreTypeOK
<1> QED BY <1>1, <1>2, <1>4, <1>5, <1>6, <1>8, <1>9 DEF GateInv, StoreBase

\* One step preserves it.
LEMMA GateNextInv == GateInv /\ [Next]_vars => GateInv'
<1> SUFFICES ASSUME GateInv, [Next]_vars PROVE GateInv'
  OBVIOUS
<1>1. LockInv /\ StoreBase /\ GatedStaysValid /\ ClaimsExclusive
  BY DEF GateInv
<1>2. LockInv' /\ StoreBase' /\ GatedStaysValid'
  BY <1>1, StoreLockInv, StoreCases, StepKeepsGated
<1>3. ClaimsExclusive'
  BY <1>1, StoreCases, QuietClaims, AcceptedClaims, PublishClaims
<1> QED BY <1>2, <1>3 DEF GateInv

\* The invariant of the store, for ids on any number of keys.
THEOREM GateInvariance == SafetySpec => []GateInv
<1>1. Init => GateInv
  BY GateInitInv
<1> QED BY <1>1, GateNextInv, PTL DEF SafetySpec

\* No key is crowded among the claims, whichever of its batches an id that two
\* threads publish on two keys is shown with.
LEMMA ClaimsNotCrowded == ASSUME GateInv PROVE LiveKeyExclusivity
<1>1. ASSUME NEW a \in Ids
      PROVE  \/ (\A t \in Threads : a \notin pending[t]) /\ Published[a] = records[a]
             \/ \E t \in Threads : a \in pending[t] /\ Published[a] = draft[t][a]
  BY DEF Published
<1>2. ASSUME NEW a \in Ids, NEW b \in Ids, a # b PROVE ~Clash(Published[a], Published[b])
  <2>1. ASSUME NEW t \in Threads, NEW c \in pending[t], NEW d \in Ids, c # d,
               Published[c] = draft[t][c]
        PROVE  ~Clash(Published[c], Published[d])
    BY <1>1, <2>1 DEF GateInv, ClaimsExclusive
  <2>2. CASE \E t \in Threads : a \in pending[t] /\ Published[a] = draft[t][a]
    BY <1>2, <2>1, <2>2
  <2>3. CASE \E t \in Threads : b \in pending[t] /\ Published[b] = draft[t][b]
    BY <1>2, <2>1, <2>3 DEF Clash
  <2>4. CASE /\ \A t \in Threads : a \notin pending[t] /\ b \notin pending[t]
             /\ Published[a] = records[a] /\ Published[b] = records[b]
    BY <1>2, <2>4 DEF GateInv, ClaimsExclusive
  <2> QED BY <1>1, <2>2, <2>3, <2>4
<1> QED BY <1>2 DEF LiveKeyExclusivity, Crowded, Clash

\* However creators race, a resource key never carries two live reservations
\* once validated batches count (store.py 23-25), even when one id is created
\* on two keys at once.
THEOREM KeysStayExclusive == SafetySpec => []LiveKeyExclusivity
<1>1. GateInv => LiveKeyExclusivity
  BY ClaimsNotCrowded
<1> QED BY <1>1, GateInvariance, PTL

\* A record is overwritten at the version its writer declared, unless it has
\* been put on another key than the writer's.
THEOREM UpdatesAreNotLost == SafetySpec => NoLostUpdate
<1> DEFINE Honoured == \A t \in Threads : \A id \in pending[t] :
                          id \notin pending'[t] =>
                              Version(records[id]) = expected[t][id] \/ Displaced(t, id)
<1>1. GateInv => \A t \in Threads : \A id \in pending[t] :
                     Version(records[id]) = expected[t][id] \/ Displaced(t, id)
  BY DEF GateInv, StoreBase, PhasesAgree, GatedStaysValid
<1>2. GateInv /\ [Next]_vars => [Honoured]_vars
  BY <1>1
<1> QED BY <1>2, GateInvariance, PTL DEF NoLostUpdate, SafetySpec

-----------------------------------------------------------------------------
(* Drafts and what was validated of them. *)

\* The steps that change neither a record nor a batch: a thread reaches the
\* exclusivity check only with the versions it declared, and starts to publish
\* only from there.
LEMMA QuietDrafts ==
    ASSUME DraftInv, UNCHANGED <<records, draft, expected>>,
           \A u \in Threads :
              /\ stage'[u] = "exclusivity" => stage[u] = "exclusivity" \/ VersionsHold(u)
              /\ pending'[u] \subseteq pending[u] \/ stage[u] = "exclusivity"
    PROVE  DraftInv'
<1> USE DEF DraftInv, BatchIds
<1>1. ValidatedStaysValid'
  BY DEF ValidatedStaysValid, VersionsHold
<1>2. DraftsDescend'
  BY DEF DraftsDescend
<1> QED BY <1>1, <1>2

\* Drafting a record, which happens outside apply.
LEMMA DraftDrafts ==
    ASSUME StoreBase, DraftInv, NEW t \in Threads, NEW id \in Ids, NEW new, NEW version,
           Draft(t, id, new, version), Drafted(id, new, version)
    PROVE  DraftInv'
<1> USE DEF DraftInv, Draft, StoreBase
<1>1. stage[t] # "exclusivity" /\ pending[t] = {}
  BY DEF PhasesAgree
<1>2. ValidatedStaysValid'
  BY <1>1 DEF ValidatedStaysValid, StoreTypeOK, BatchIds
<1>3. /\ version = 0 => IsCreation(new)
      /\ version # 0 => version = Version(records[id]) /\ IsSuccessor(records[id], new)
  <2>1. CASE version = 0 /\ IsCreation(new)
    BY <2>1
  <2>2. CASE Exists(records[id]) /\ version = records[id].ver /\ IsSuccessor(records[id], new)
    BY <2>2 DEF Version, StoreTypeOK, RecordOrNone, Exists, Reservation
  <2> QED BY <2>1, <2>2 DEF Drafted
<1>4. version \in Nat
  BY DraftedShape
<1>5. \A u \in Threads, j \in Ids :
         u # t \/ j # id => draft'[u][j] = draft[u][j] /\ expected'[u][j] = expected[u][j]
  BY DEF StoreTypeOK
<1>6. draft'[t][id] = new /\ expected'[t][id] = version
  BY DEF StoreTypeOK
<1>7. Version(records[id]) >= Version(records[id])
  BY DEF StoreTypeOK, RecordOrNone, Version, Exists, Reservation
<1>8. DraftsDescend'
  BY <1>3, <1>4, <1>5, <1>6, <1>7 DEF DraftsDescend, BatchIds, Version
<1> QED BY <1>2, <1>8

\* Publishing a record moves it one version on, and touches no other batch that
\* is past its version check.
LEMMA PublishDrafts ==
    ASSUME LockInv, StoreBase, DraftInv, NEW t \in Threads, NEW id \in Ids, Publish(t, id)
    PROVE  DraftInv'
<1> USE DEF DraftInv
<1>1. id \in BatchIds(t) /\ draft[t][id] \in Reservation /\ Exists(draft[t][id])
  BY DEF StoreBase, StoreTypeOK, PhasesAgree, Publish, BatchIds, Exists, RecordOrNone
<1>2. id \in KeyedIds => Version(records'[id]) = Version(records[id]) + 1
  BY <1>1 DEF ValidatedStaysValid, Publish, StoreBase, StoreTypeOK, Version
<1>3. \A j \in Ids \ {id} : records'[j] = records[j]
  BY DEF Publish, StoreBase, StoreTypeOK
<1>4. /\ UNCHANGED <<draft, expected>>
      /\ \A u \in Threads : stage'[u] = "exclusivity" => stage[u] = "exclusivity" /\ u # t
      /\ \A u \in Threads \ {t} : pending'[u] = pending[u]
      /\ pending'[t] = pending[t] \ {id}
  BY DEF Publish, EndApply, StoreBase, StoreTypeOK
<1>5. \A u \in Threads \ {t} :
         stage[u] = "exclusivity" \/ pending[u] # {} => id \notin BatchIds(u) \cap KeyedIds
  BY <1>1, BodiesDisjoint DEF StoreBase, PhasesAgree, Publish
<1>6. ValidatedStaysValid'
  BY <1>3, <1>4, <1>5 DEF ValidatedStaysValid, BatchIds
<1>7. ASSUME NEW u \in Threads, NEW j \in BatchIds(u) \cap KeyedIds, expected[u][j] # 0
      PROVE  /\ Version(records'[j]) >= expected[u][j]
             /\ Version(records'[j]) = expected[u][j] => IsSuccessor(records'[j], draft[u][j])
  <2>1. /\ Version(records[j]) >= expected[u][j]
        /\ Version(records[j]) = expected[u][j] => IsSuccessor(records[j], draft[u][j])
    BY <1>7 DEF DraftsDescend
  <2>2. j \in Ids /\ expected[u][j] \in Nat /\ Version(records[j]) \in Nat
    BY <1>7 DEF StoreBase, StoreTypeOK, BatchIds, RecordOrNone, Version, Exists, Reservation
  <2>3. CASE j # id
    BY <1>3, <2>1, <2>2, <2>3
  <2>4. CASE j = id
    BY <1>2, <2>1, <2>2, <2>4
  <2> QED BY <2>3, <2>4
<1>8. DraftsDescend'
  BY <1>4, <1>7 DEF DraftsDescend, BatchIds, Version
<1> QED BY <1>6, <1>8

\* Coming back for another batch drops the old one.
LEMMA ReturnDrafts ==
    ASSUME StoreBase, DraftInv, NEW t \in Threads, Return(t)
    PROVE  DraftInv'
<1> USE DEF DraftInv, Return, StoreBase, BatchIds
<1>1. BatchIds(t)' = {}
  BY DEF StoreTypeOK, NoBatch, Exists
<1>2. \A u \in Threads \ {t} :
         /\ draft'[u] = draft[u] /\ expected'[u] = expected[u]
         /\ stage'[u] = stage[u] /\ pending'[u] = pending[u]
  BY DEF StoreTypeOK
<1>3. ValidatedStaysValid'
  BY <1>1, <1>2 DEF ValidatedStaysValid
<1>4. DraftsDescend'
  BY <1>1, <1>2 DEF DraftsDescend
<1> QED BY <1>3, <1>4

-----------------------------------------------------------------------------
(* The store as its callers see it. *)

\* A batch under publication belongs to one thread.
LEMMA OnePublisher ==
    ASSUME LockInv, StoreBase, NEW t \in Threads, NEW id \in pending[t] \cap KeyedIds,
           NEW u \in Threads, id \in pending[u]
    PROVE  u = t
  BY BodiesDisjoint DEF StoreBase, PhasesAgree

\* The thread chosen for an id is the only one that has it pending.
LEMMA ChosenPublisher ==
    ASSUME NEW owed, NEW id, NEW t \in Threads, id \in owed[t],
           \A u \in Threads : id \in owed[u] => u = t
    PROVE  (CHOOSE u \in Threads : id \in owed[u]) = t
  OBVIOUS

\* A pending id shows its drafted record.
LEMMA PublishedPending ==
    ASSUME LockInv, StoreBase, NEW t \in Threads, NEW id \in KeyedIds, id \in pending[t]
    PROVE  Published[id] = draft[t][id]
<1>1. (CHOOSE u \in Threads : id \in pending[u]) = t
  BY OnePublisher, ChosenPublisher
<1> QED BY <1>1 DEF Published, KeyedIds

\* Any other id shows its stored record.
LEMMA PublishedStored ==
    ASSUME NEW id \in Ids, \A t \in Threads : id \notin pending[t]
    PROVE  Published[id] = records[id]
  BY DEF Published

\* Drafting, the gates and the version check leave the visible store alone.
LEMMA PublishedQuiet ==
    ASSUME UNCHANGED <<records, pending>>,
           \A t \in Threads : \A id \in pending[t] : draft'[t][id] = draft[t][id]
    PROVE  KeyedView' = KeyedView
<1>1. ASSUME NEW id \in Ids, \E t \in Threads : id \in pending[t]
      PROVE  LET t == CHOOSE t \in Threads : id \in pending[t]
             IN  draft'[t][id] = draft[t][id]
  BY <1>1
<1>2. Published' = Published
  BY <1>1 DEF Published
<1> QED BY <1>2 DEF KeyedView

\* So does publishing a record: it was visible before.
LEMMA PublishedByPublish ==
    ASSUME LockInv, StoreBase, NEW t \in Threads, NEW id \in Ids, Publish(t, id)
    PROVE  KeyedView' = KeyedView
<1>1. /\ records' = [records EXCEPT ![id] = draft[t][id]]
      /\ pending' = [pending EXCEPT ![t] = @ \ {id}]
      /\ draft' = draft /\ id \in pending[t]
  BY DEF Publish
<1>2. ASSUME NEW j \in KeyedIds PROVE Published'[j] = Published[j]
  <2> j \in Ids
    BY DEF KeyedIds
  <2>1. CASE j = id
    <3>1. \A u \in Threads : j \notin pending'[u]
      BY <1>1, <2>1, OnePublisher DEF StoreBase, StoreTypeOK
    <3>2. Published'[j] = draft[t][id]
      BY <1>1, <2>1, <3>1 DEF Published, StoreBase, StoreTypeOK
    <3> QED BY <1>1, <2>1, <3>2, PublishedPending
  <2>2. CASE j # id
    <3>1. \A u \in Threads : j \in pending'[u] <=> j \in pending[u]
      BY <1>1, <2>2 DEF StoreBase, StoreTypeOK
    <3>2. CASE \E u \in Threads : j \in pending[u]
      <4> PICK u \in Threads : j \in pending[u]
        BY <3>2
      <4>1. (CHOOSE v \in Threads : j \in pending'[v]) = u
        BY <3>1, OnePublisher, ChosenPublisher
      <4>2. Published'[j] = draft[u][j]
        BY <1>1, <3>1, <4>1 DEF Published
      <4> QED BY <4>2, PublishedPending
    <3>3. CASE \A u \in Threads : j \notin pending[u]
      BY <1>1, <2>2, <3>1, <3>3 DEF Published, StoreBase, StoreTypeOK
    <3> QED BY <3>2, <3>3
  <2> QED BY <2>1, <2>2
<1> QED BY <1>2 DEF KeyedView

\* The exclusivity check makes its batch visible, all of it and nothing else.
LEMMA PublishedByValidation ==
    ASSUME LockInv, StoreBase, NEW t \in Threads, pc[t] = "critical",
           stage[t] = "exclusivity",
           pending' = [pending EXCEPT ![t] = BatchIds(t)], UNCHANGED <<records, draft>>
    PROVE  \A id \in KeyedIds :
              Published'[id] = IF id \in BatchIds(t) THEN draft[t][id] ELSE Published[id]
<1>1. pending[t] = {}
  BY DEF StoreBase, PhasesAgree
<1>2. ASSUME NEW id \in KeyedIds
      PROVE  Published'[id] = IF id \in BatchIds(t) THEN draft[t][id] ELSE Published[id]
  <2> id \in Ids
    BY DEF KeyedIds
  <2>1. CASE id \in BatchIds(t)
    <3>1. ASSUME NEW u \in Threads, id \in pending'[u] PROVE u = t
      BY <2>1, <3>1, BodiesDisjoint DEF StoreBase, StoreTypeOK, PhasesAgree
    <3>2. id \in pending'[t]
      BY <2>1 DEF StoreBase, StoreTypeOK
    <3>3. (CHOOSE u \in Threads : id \in pending'[u]) = t
      BY <3>1, <3>2, ChosenPublisher
    <3> QED BY <2>1, <3>2, <3>3 DEF Published
  <2>2. CASE id \notin BatchIds(t)
    <3>1. \A u \in Threads : id \in pending'[u] <=> id \in pending[u]
      BY <1>1, <2>2 DEF StoreBase, StoreTypeOK
    <3>2. CASE \E u \in Threads : id \in pending[u]
      <4> PICK u \in Threads : id \in pending[u]
        BY <3>2
      <4>1. (CHOOSE v \in Threads : id \in pending'[v]) = u
        BY <3>1, OnePublisher, ChosenPublisher
      <4>2. Published'[id] = draft[u][id]
        BY <3>1, <4>1 DEF Published
      <4> QED BY <2>2, <4>2, PublishedPending
    <3>3. CASE \A u \in Threads : id \notin pending[u]
      BY <2>2, <3>1, <3>3 DEF Published
    <3> QED BY <3>2, <3>3
  <2> QED BY <2>1, <2>2
<1> QED BY <1>2

-----------------------------------------------------------------------------
(* The inductive invariant. *)

\* What one step does to the store: the visible store changes at the exclusivity
\* check and nowhere else.
StoreStep ==
    /\ StoreBase'
    /\ DraftInv'
    /\ KeyedView' = KeyedView \/ \E t \in Threads : BatchAccepted(t)

\* Every step of the store does that.
LEMMA StoreSteps ==
    ASSUME LockInv, StoreBase, DraftInv, [Next]_vars
    PROVE  StoreStep
<1>1. ASSUME UNCHANGED <<records, draft, expected, pending>>,
             \A u \in Threads :
                stage'[u] = "exclusivity" => stage[u] = "exclusivity" \/ VersionsHold(u),
             StoreBase'
      PROVE  StoreStep
  <2>1. DraftInv'
    BY <1>1, QuietDrafts
  <2>2. KeyedView' = KeyedView
    BY <1>1, PublishedQuiet
  <2> QED BY <1>1, <2>1, <2>2 DEF StoreStep
<1>2. ASSUME NEW t \in Threads, NEW id \in Ids, Command(t, id) PROVE StoreStep
  <2>1. PICK new, version : Draft(t, id, new, version) /\ Drafted(id, new, version)
    BY <1>2, CommandDrafts DEF StoreBase
  <2>2. StoreBase' /\ DraftInv'
    BY <2>1, DraftBase, DraftDrafts
  <2>3. pending[t] = {}
    BY <2>1 DEF StoreBase, PhasesAgree, Draft
  <2>4. KeyedView' = KeyedView
    BY <2>1, <2>3, PublishedQuiet DEF Draft, StoreBase, StoreTypeOK
  <2> QED BY <2>2, <2>4 DEF StoreStep
<1>3. ASSUME NEW t \in Threads, Apply(t) PROVE StoreStep
  BY <1>1, <1>3, ApplyBase DEF Apply, StoreBase, StoreTypeOK
<1>4. ASSUME NEW t \in Threads, GateStep(t) \/ Disturb(t), UNCHANGED storeVars PROVE StoreStep
  BY <1>1, <1>4, GateEffects, GateBase DEF storeVars
<1>5. ASSUME NEW t \in Threads, ValidateVersions(t) PROVE StoreStep
  BY <1>1, <1>5, VersionsBase DEF ValidateVersions, EndApply, StoreBase, StoreTypeOK
<1>6. ASSUME NEW t \in Threads, ValidateExclusivity(t) PROVE StoreStep
  <2>1. StoreBase'
    BY <1>6, ExclusivityBase
  <2>2. CASE Crowded(Overlay(t)) = {}
    <3>1. BatchAccepted(t)
      BY <1>6, <2>2 DEF ValidateExclusivity, BatchAccepted
    <3>2. DraftInv'
      BY <1>6, <2>2, QuietDrafts DEF ValidateExclusivity, StoreBase, StoreTypeOK
    <3> QED BY <2>1, <3>1, <3>2 DEF StoreStep
  <2>3. CASE Crowded(Overlay(t)) # {}
    BY <1>1, <1>6, <2>1, <2>3 DEF ValidateExclusivity, EndApply, StoreBase, StoreTypeOK
  <2> QED BY <2>2, <2>3
<1>7. ASSUME NEW t \in Threads, NEW id \in Ids, Publish(t, id) PROVE StoreStep
  BY <1>7, PublishBase, PublishDrafts, PublishedByPublish DEF StoreStep
<1>8. ASSUME NEW t \in Threads, Return(t) PROVE StoreStep
  <2>1. StoreBase' /\ DraftInv'
    BY <1>8, ReturnBase, ReturnDrafts
  <2>2. pending[t] = {}
    BY <1>8 DEF StoreBase, PhasesAgree, Return
  <2>3. KeyedView' = KeyedView
    BY <1>8, <2>2, PublishedQuiet DEF Return, StoreBase, StoreTypeOK
  <2> QED BY <2>1, <2>3 DEF StoreStep
<1>9. CASE UNCHANGED vars
  <2>1. StoreBase'
    BY <1>9 DEF vars, lockVars, storeVars, StoreBase, StoreTypeOK, RecordsKeyed,
                PhasesAgree, BatchKeys, BatchIds
  <2> QED BY <1>1, <1>9, <2>1 DEF vars, storeVars
<1> QED
  BY <1>2, <1>3, <1>4, <1>5, <1>6, <1>7, <1>8, <1>9 DEF Next, ApplyStep

\* A store just constructed shows what it stores, and no batch is under way.
LEMMA StoreInitInv == ASSUME Init PROVE StoreInv /\ Published = records
<1>1. \A t \in Threads : BatchIds(t) = {}
  BY DEF Init, BatchIds, NoBatch, Exists
<1>2. ValidatedStaysValid /\ DraftsDescend
  BY <1>1 DEF ValidatedStaysValid, DraftsDescend
<1> QED BY <1>2, GateInitInv DEF StoreInv, DraftInv

\* One step preserves the invariant.
LEMMA StoreNextInv == ASSUME StoreInv, [Next]_vars PROVE StoreInv'
<1>1. GateInv /\ LockInv /\ StoreBase /\ DraftInv
  BY DEF StoreInv, GateInv
<1>2. GateInv'
  BY <1>1, GateNextInv
<1>3. DraftInv'
  BY <1>1, StoreSteps DEF StoreStep
<1> QED BY <1>2, <1>3 DEF StoreInv

\* The inductive invariant of the store: what a thread holds, validated and
\* drafted, at every step of apply.
THEOREM StoreInvariance == SafetySpec => []StoreInv
<1>1. Init => StoreInv
  BY StoreInitInv
<1>2. StoreInv /\ [Next]_vars => StoreInv'
  BY StoreNextInv
<1> QED BY <1>1, <1>2, PTL DEF SafetySpec

-----------------------------------------------------------------------------
(* apply is atomic: the refinement of AtomicReservations. *)

\* The instance's record operators are the store's own.
LEMMA SameRecords ==
    /\ Atomic!Reservation = Reservation
    /\ \A view : Crowded(view) = {} => Atomic!Crowded([id \in KeyedIds |-> view[id]]) = {}
    /\ \A old, new : Atomic!IsSuccessor(old, new) <=> IsSuccessor(old, new)
    /\ \A new : Atomic!IsCreation(new) <=> IsCreation(new)
    /\ \A r : Atomic!Exists(r) <=> Exists(r)
<1>1. Atomic!Reservation = Reservation
  BY DEF Atomic!Reservation, Reservation, Atomic!ReservationState, ReservationState
<1>2. \A r : Atomic!Exists(r) <=> Exists(r)
  BY DEF Atomic!Exists, Exists
<1>3. \A view : Crowded(view) = {} => Atomic!Crowded([id \in KeyedIds |-> view[id]]) = {}
  BY DEF KeyedIds, Atomic!Crowded, Crowded, Atomic!Live, Live, Atomic!Exists, Exists,
         Atomic!RESERVATION_TERMINAL_STATES, RESERVATION_TERMINAL_STATES
<1>4. \A old, new : Atomic!IsSuccessor(old, new) <=> IsSuccessor(old, new)
  BY DEF Atomic!IsSuccessor, IsSuccessor, Atomic!CanHold, CanHold, Atomic!Held, Held,
         Atomic!CanAmend, CanAmend, Atomic!Amended, Amended, Atomic!CanCommit, CanCommit,
         Atomic!Committed, Committed, Atomic!CanRelease, CanRelease, Atomic!CanExpire,
         CanExpire, Atomic!CanDefault, CanDefault, Atomic!Defaulted, Defaulted,
         Atomic!CanConsume, CanConsume, Atomic!Consumed, Consumed, Atomic!Advance, Advance,
         Atomic!FromState, FromState, Atomic!InWindow, InWindow,
         Atomic!RESERVATION_TRANSITIONS, RESERVATION_TRANSITIONS
<1>5. \A new : Atomic!IsCreation(new) <=> IsCreation(new)
  BY DEF Atomic!IsCreation, IsCreation, Atomic!Created, Created
<1> QED BY <1>1, <1>2, <1>3, <1>4, <1>5

\* What a step shows the callers is nothing, or one whole batch of legal
\* successors that leaves every key exclusive.
LEMMA StepIsBatch ==
    ASSUME StoreInv, [Next]_vars, LiveKeyExclusivity'
    PROVE  [Atomic!ApplyBatch]_KeyedView
<1>1. GateInv /\ LockInv /\ StoreBase /\ DraftInv
  BY DEF StoreInv, GateInv
<1>2. SUFFICES ASSUME NEW t \in Threads, BatchAccepted(t) PROVE Atomic!ApplyBatch
  BY <1>1, StoreSteps DEF StoreStep
<1>3. \A id \in KeyedIds :
         Published'[id] = IF id \in BatchIds(t) THEN draft[t][id] ELSE Published[id]
  BY <1>1, <1>2, PublishedByValidation DEF BatchAccepted
<1>4. Crowded(Published') = {}
  BY DEF LiveKeyExclusivity, Crowded
<1>5. ASSUME NEW id \in BatchIds(t) \cap KeyedIds
      PROVE  Atomic!Legal(Published[id], draft[t][id])
  <2>1. \A u \in Threads : id \notin pending[u]
    BY <1>1, <1>2, <1>5, BodiesDisjoint DEF StoreBase, PhasesAgree, BatchAccepted
  <2>2. id \in Ids /\ Published[id] = records[id]
    BY <2>1, PublishedStored DEF BatchIds
  <2>3. Version(records[id]) = expected[t][id]
    BY <1>1, <1>2 DEF DraftInv, ValidatedStaysValid, BatchAccepted
  <2>4. CASE Exists(records[id])
    <3>1. records[id] \in Reservation
      BY <1>1, <2>2, <2>4 DEF StoreBase, StoreTypeOK, RecordOrNone, Exists
    <3>2. expected[t][id] # 0
      BY <2>3, <2>4, <3>1 DEF Version, Reservation
    <3>3. IsSuccessor(records[id], draft[t][id])
      BY <1>1, <2>3, <3>2 DEF DraftInv, DraftsDescend
    <3> QED BY <2>2, <2>4, <3>3, SameRecords DEF Atomic!Legal
  <2>5. CASE ~Exists(records[id])
    <3>1. IsCreation(draft[t][id])
      BY <1>1, <2>3, <2>5 DEF DraftInv, DraftsDescend, Version
    <3> QED BY <2>2, <2>5, <3>1, SameRecords DEF Atomic!Legal
  <2> QED BY <2>4, <2>5
<1>6. \A id \in KeyedIds :
         KeyedView'[id] # KeyedView[id] => Atomic!Legal(KeyedView[id], KeyedView'[id])
  BY <1>3, <1>5 DEF KeyedView
<1>7. Atomic!Crowded(KeyedView') = {}
  BY <1>4, SameRecords DEF KeyedView
<1> QED BY <1>6, <1>7 DEF Atomic!ApplyBatch

\* Seen through Published, the records of the ids that belong to one key
\* implement the atomic table, whatever happens to the ids of several keys.
THEOREM ApplyIsAtomic == SafetySpec => AppliesAtomically
<1>1. Init => Atomic!AtomicInit
  <2> SUFFICES ASSUME Init PROVE Atomic!AtomicInit
    OBVIOUS
  <2>1. StoreInv /\ Published = records
    BY StoreInitInv
  <2>2. Published \in [Ids -> Reservation \cup {NoRecord}] /\ Crowded(Published) = {}
    BY <2>1, ClaimsNotCrowded DEF StoreInv, GateInv, StoreBase, StoreTypeOK, RecordOrNone,
        LiveKeyExclusivity
  <2>3. KeyedView \in [KeyedIds -> Reservation \cup {NoRecord}]
    BY <2>2 DEF KeyedView, KeyedIds
  <2>4. Atomic!Crowded(KeyedView) = {}
    BY <2>2, SameRecords DEF KeyedView
  <2> QED BY <2>3, <2>4, SameRecords DEF Atomic!AtomicInit
<1>2. StoreInv /\ LiveKeyExclusivity' /\ [Next]_vars => [Atomic!ApplyBatch]_KeyedView
  BY StepIsBatch
<1> QED
  BY <1>1, <1>2, StoreInvariance, KeysStayExclusive, PTL DEF AppliesAtomically, Atomic!AtomicSpec, SafetySpec

-----------------------------------------------------------------------------
(* Coherence of the stored records, for ids on any number of keys. *)

\* A record its constructor accepts, committed inside the window it carries.
Sound(r) == Coherent(r) /\ \A c \in r.committed : InWindow(r, c)

\* The records the store is constructed with were built by the command family.
SeedsSound == \A seed \in Seeds : \A id \in Ids : Exists(seed[id]) => Sound(seed[id])

RecordsSound ==
    \A id \in Ids :
        /\ Exists(records[id]) => Sound(records[id])
        /\ \A t \in Threads : Exists(draft[t][id]) => Sound(draft[t][id])

\* What _advance keeps.
LEMMA AdvanceKeeps ==
    ASSUME NEW r \in Reservation, NEW state \in ReservationState
    PROVE  LET new == Advance(r, state)
           IN  /\ new \in Reservation
               /\ new.state = state /\ new.window = r.window /\ new.hold = r.hold
               /\ new.committed = r.committed /\ new.defaulted = r.defaulted
               /\ new.consumed = r.consumed
<1>1. Advance(r, state) \in Reservation
  BY AdvanceShape
<1> QED BY <1>1 DEF Advance, Reservation

\* A successor of a sound record is sound: each command leaves exactly the facts
\* the state it moves to may carry, and only an uncommitted record is amended.
LEMMA SuccessorSound ==
    ASSUME NEW old \in Reservation, Sound(old), NEW new, IsSuccessor(old, new)
    PROVE  Sound(new)
<1> USE DEF FromState, RESERVATION_TRANSITIONS, ReservationState, InWindow, Sound, Coherent
<1>1. PICK asOf \in Instants :
        \/ CanHold(old, asOf) /\ new = Held(old)
        \/ CanAmend(old, asOf) /\ \E w \in Windows, c \in CondSets : new = Amended(old, w, c)
        \/ CanCommit(old, asOf, old.conds) /\ new = Committed(old, asOf)
        \/ CanRelease(old, asOf) /\ new = Advance(old, "RELEASED")
        \/ CanExpire(old, asOf) /\ new = Advance(old, "EXPIRED")
        \/ CanDefault(old, asOf) /\ new = Defaulted(old, asOf)
        \/ CanConsume(old, asOf) /\ new = Consumed(old, asOf)
  BY DEF IsSuccessor
<1>2. CASE CanHold(old, asOf) /\ new = Held(old)
  <2> DEFINE next == Advance(old, "HELD")
  <2>1. /\ next \in Reservation /\ next.state = "HELD" /\ next.window = old.window
        /\ next.committed = old.committed /\ next.defaulted = old.defaulted
        /\ next.consumed = old.consumed
    BY AdvanceKeeps
  <2> HIDE DEF next
  <2>2. new = [next EXCEPT !.hold = TRUE]
    BY <1>2 DEF Held, next
  <2>3. /\ new.state = "HELD" /\ new.hold = TRUE /\ new.window = old.window
        /\ new.committed = old.committed /\ new.defaulted = old.defaulted
        /\ new.consumed = old.consumed
    BY <2>1, <2>2 DEF Reservation
  <2> QED BY <1>2, <2>3 DEF CanHold
<1>3. CASE CanAmend(old, asOf) /\ \E w \in Windows, c \in CondSets : new = Amended(old, w, c)
  <2> PICK w \in Windows, c \in CondSets : new = Amended(old, w, c)
    BY <1>3
  <2> DEFINE next == Advance(old, old.state)
  <2>1. /\ next \in Reservation /\ next.state = old.state /\ next.hold = old.hold
        /\ next.committed = old.committed /\ next.defaulted = old.defaulted
        /\ next.consumed = old.consumed
    BY AdvanceKeeps DEF Reservation
  <2> HIDE DEF next
  <2>2. new = [[next EXCEPT !.window = w] EXCEPT !.conds = c]
    BY AmendedByField DEF next
  <2>3. /\ new.state = old.state /\ new.hold = old.hold
        /\ new.committed = old.committed /\ new.defaulted = old.defaulted
        /\ new.consumed = old.consumed
    BY <2>1, <2>2 DEF Reservation
  <2>4. old.committed = {}
    BY <1>3 DEF CanAmend
  <2> QED BY <2>3, <2>4
<1>4. CASE CanCommit(old, asOf, old.conds) /\ new = Committed(old, asOf)
  <2> DEFINE next == Advance(old, "COMMITTED")
  <2>1. /\ next \in Reservation /\ next.state = "COMMITTED" /\ next.window = old.window
        /\ next.hold = old.hold /\ next.defaulted = old.defaulted
        /\ next.consumed = old.consumed
    BY AdvanceKeeps
  <2> HIDE DEF next
  <2>2. new = [next EXCEPT !.committed = {asOf}]
    BY <1>4 DEF Committed, next
  <2>3. /\ new.state = "COMMITTED" /\ new.committed = {asOf} /\ new.window = old.window
        /\ new.defaulted = old.defaulted /\ new.consumed = old.consumed
    BY <2>1, <2>2 DEF Reservation
  <2> QED BY <1>4, <2>3 DEF CanCommit
<1>5. CASE CanRelease(old, asOf) /\ new = Advance(old, "RELEASED")
  BY <1>5, AdvanceKeeps DEF CanRelease
<1>6. CASE CanExpire(old, asOf) /\ new = Advance(old, "EXPIRED")
  BY <1>6, AdvanceKeeps DEF CanExpire
<1>7. CASE CanDefault(old, asOf) /\ new = Defaulted(old, asOf)
  <2> DEFINE next == Advance(old, "DEFAULTED")
  <2>1. /\ next \in Reservation /\ next.state = "DEFAULTED" /\ next.window = old.window
        /\ next.committed = old.committed /\ next.consumed = old.consumed
    BY AdvanceKeeps
  <2> HIDE DEF next
  <2>2. new = [next EXCEPT !.defaulted = {asOf}]
    BY <1>7 DEF Defaulted, next
  <2>3. /\ new.state = "DEFAULTED" /\ new.defaulted = {asOf} /\ new.window = old.window
        /\ new.committed = old.committed /\ new.consumed = old.consumed
    BY <2>1, <2>2 DEF Reservation
  <2> QED BY <1>7, <2>3 DEF CanDefault
<1>8. CASE CanConsume(old, asOf) /\ new = Consumed(old, asOf)
  <2> DEFINE next == Advance(old, "CONSUMED")
  <2>1. /\ next \in Reservation /\ next.state = "CONSUMED" /\ next.window = old.window
        /\ next.committed = old.committed /\ next.defaulted = old.defaulted
    BY AdvanceKeeps
  <2> HIDE DEF next
  <2>2. new = [next EXCEPT !.consumed = {asOf}]
    BY <1>8 DEF Consumed, next
  <2>3. /\ new.state = "CONSUMED" /\ new.consumed = {asOf} /\ new.window = old.window
        /\ new.committed = old.committed /\ new.defaulted = old.defaulted
    BY <2>1, <2>2 DEF Reservation
  <2> QED BY <1>8, <2>3 DEF CanConsume
<1> QED BY <1>1, <1>2, <1>3, <1>4, <1>5, <1>6, <1>7, <1>8

\* So is a created one.
LEMMA CreationSound ==
    ASSUME NEW new, IsCreation(new) PROVE Sound(new)
  BY DEF IsCreation, Created, Sound, Coherent

\* What the commands draft from a sound store is sound.
LEMMA DraftedSound ==
    ASSUME StoreTypeOK, RecordsSound,
           NEW id \in Ids, NEW new, NEW version, Drafted(id, new, version)
    PROVE  new \in Reservation /\ version \in Nat /\ Sound(new)
<1>1. CASE version = 0 /\ IsCreation(new)
  BY <1>1, CreationShape, CreationSound DEF IsCreation
<1>2. CASE Exists(records[id]) /\ version = records[id].ver /\ IsSuccessor(records[id], new)
  <2>1. records[id] \in Reservation /\ Sound(records[id])
    BY <1>2 DEF StoreTypeOK, RecordOrNone, Exists, RecordsSound
  <2>2. version \in Nat
    BY <1>2, <2>1 DEF Reservation
  <2> QED BY <1>2, <2>1, <2>2, SuccessorShape, SuccessorSound
<1> QED BY <1>1, <1>2 DEF Drafted

CoherenceInv == StoreTypeOK /\ RecordsSound

\* Stored and drafted records stay records the constructor accepts.
LEMMA CoherenceNext ==
    ASSUME CoherenceInv, [Next]_vars PROVE CoherenceInv'
<1> USE DEF CoherenceInv
<1>1. ASSUME NEW t \in Threads, NEW id \in Ids, Command(t, id) PROVE CoherenceInv'
  <2>1. PICK new, version : Draft(t, id, new, version) /\ Drafted(id, new, version)
    BY <1>1, CommandDrafts
  <2>2. new \in Reservation /\ version \in Nat /\ Sound(new)
    BY <2>1, DraftedSound
  <2>3. StoreTypeOK'
    BY <2>1, <2>2 DEF Draft, StoreTypeOK, RecordOrNone
  <2>4. RecordsSound'
    BY <2>1, <2>2 DEF Draft, StoreTypeOK, RecordsSound
  <2> QED BY <2>3, <2>4
<1>2. ASSUME UNCHANGED <<records, draft, expected>>,
             stage' = stage
                \/ \E t \in Threads, where \in {"out", "versions", "exclusivity", "publish"} :
                      stage' = [stage EXCEPT ![t] = where],
             pending' = pending
                \/ \E t \in Threads : pending' = [pending EXCEPT ![t] = BatchIds(t)]
      PROVE  CoherenceInv'
  BY <1>2 DEF StoreTypeOK, RecordsSound, BatchIds
<1>3. ASSUME NEW t \in Threads, Apply(t) PROVE CoherenceInv'
  BY <1>2, <1>3 DEF Apply
<1>4. ASSUME NEW t \in Threads, ValidateVersions(t) PROVE CoherenceInv'
  BY <1>2, <1>4 DEF ValidateVersions, EndApply
<1>5. ASSUME NEW t \in Threads, ValidateExclusivity(t) PROVE CoherenceInv'
  BY <1>2, <1>5 DEF ValidateExclusivity, EndApply
<1>6. ASSUME NEW t \in Threads, NEW id \in Ids, Publish(t, id) PROVE CoherenceInv'
  <2>1. StoreTypeOK'
    BY <1>6 DEF Publish, EndApply, StoreTypeOK
  <2>2. RecordsSound'
    BY <1>6 DEF Publish, StoreTypeOK, RecordsSound
  <2> QED BY <2>1, <2>2
<1>7. ASSUME NEW t \in Threads, Return(t) PROVE CoherenceInv'
  <2>1. StoreTypeOK'
    BY <1>7 DEF Return, StoreTypeOK, NoBatch, RecordOrNone
  <2>2. RecordsSound'
    BY <1>7 DEF Return, StoreTypeOK, RecordsSound, NoBatch, Exists
  <2> QED BY <2>1, <2>2
<1>8. CASE UNCHANGED storeVars
  BY <1>2, <1>8 DEF storeVars
<1> QED
  BY <1>1, <1>3, <1>4, <1>5, <1>6, <1>7, <1>8 DEF Next, ApplyStep, vars

\* No command of the family ever builds, and the store never holds, a record its
\* constructor would refuse, or one committed outside its window (records.py
\* 304-351).
THEOREM StoredRecordsStayCoherent ==
    ASSUME SeedsSound PROVE SafetySpec => []StoredRecordsCoherent
<1>1. Init => CoherenceInv
  BY SeedsAssumption
  DEF Init, CoherenceInv, StoreTypeOK, NoBatch, RecordOrNone, RecordsSound, SeedsSound, Exists
<1>2. CoherenceInv /\ [Next]_vars => CoherenceInv'
  BY CoherenceNext
<1>3. CoherenceInv => StoredRecordsCoherent
  BY DEF CoherenceInv, RecordsSound, Sound, StoredRecordsCoherent
<1> QED BY <1>1, <1>2, <1>3, PTL DEF SafetySpec

=============================================================================
