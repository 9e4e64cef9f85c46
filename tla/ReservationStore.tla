-------------------------- MODULE ReservationStore --------------------------
(***************************************************************************)
(* The versioned reservation store (src/src/reservation/store.py) under    *)
(* the threads of KeyedLocks.  A thread reads records without a lock,      *)
(* builds a batch of resulting versions with the command family, and calls *)
(* apply: take the gates of the batch's keys, validate expected versions,  *)
(* validate live-key exclusivity, publish record by record, release.       *)
(* Reads and dictionary assignments are the atomic steps.                  *)
(*                                                                         *)
(* A batch is a function from ids, so the order in which it is published   *)
(* is chosen by Publish: it stands for the caller's choice of the tuple.   *)
(***************************************************************************)
EXTENDS FiniteSets, KeyedLocks, ReservationRecords

CONSTANTS
    Seeds,          \* record tables the store may be constructed with
    KeysOf,         \* id -> the keys that reservation may be on
    MaxVersion,     \* bound on record versions
    MaxBatch,       \* bound on the size of a batch
    MaxApplies      \* bound on the number of apply calls of a thread

ASSUME SeedsAssumption ==
    /\ Seeds \subseteq [Ids -> Reservation \cup {NoRecord}]
    /\ \A seed \in Seeds, id \in Ids : Exists(seed[id]) => seed[id].key \in KeysOf[id]
ASSUME KeysOfAssumption == \A id \in Ids : KeysOf[id] \subseteq Keys
ASSUME BoundsAssumption == MaxVersion \in Nat /\ MaxBatch \in Nat /\ MaxApplies \in Nat

VARIABLES
    records,    \* id -> stored record, or NoRecord
    draft,      \* thread -> id -> resulting record of its batch, or NoRecord
    expected,   \* thread -> id -> the version it declared for that id
    stage,      \* thread -> where it stands in the body of apply: out of it, at
                \* the versions, at the exclusivity or publishing
    pending,    \* thread -> ids of a validated batch not yet published
    applies     \* thread -> number of apply calls made

storeVars == <<records, draft, expected, stage, pending, applies>>
vars == <<lockVars, storeVars>>

NoBatch == [id \in Ids |-> NoRecord]
BatchIds(t) == {id \in Ids : Exists(draft[t][id])}

\* Mutant of BatchKeys: only the last key of the batch is locked.
LastBatchKey(t) ==
    {k \in {draft[t][id].key : id \in BatchIds(t)} :
        \A id \in BatchIds(t) : draft[t][id].key <= k}

BatchKeys(t) == {draft[t][id].key : id \in BatchIds(t)}

Init ==
    /\ LockInit
    /\ records \in {seed \in Seeds : Crowded(seed) = {}}
    /\ draft = [t \in Threads |-> NoBatch]
    /\ expected = [t \in Threads |-> [id \in Ids |-> 0]]
    /\ stage = [t \in Threads |-> "out"]
    /\ pending = [t \in Threads |-> {}]
    /\ applies = [t \in Threads |-> 0]

-----------------------------------------------------------------------------
(* Building a batch: one unlocked read and one command per record. *)

\* t adds `new` to its batch, declaring that it expects version `version`.
Draft(t, id, new, version) ==
    /\ pc[t] = "idle"
    /\ applies[t] < MaxApplies
    /\ ~Exists(draft[t][id])
    /\ Cardinality(BatchIds(t)) < MaxBatch
    /\ new.ver <= MaxVersion
    /\ draft' = [draft EXCEPT ![t][id] = new]
    /\ expected' = [expected EXCEPT ![t][id] = version]
    /\ UNCHANGED <<lockVars, records, stage, pending, applies>>

\* A creator declares version 0; it need not have read the store.
Create(t, id) ==
    \E k \in KeysOf[id], w \in Windows, c \in CondSets : Draft(t, id, Created(k, w, c), 0)

\* The other commands build on the stored record, read when the batch is made,
\* and declare its version.
Hold(t, id) ==
    /\ Exists(records[id])
    /\ \E a \in Instants : CanHold(records[id], a)
    /\ Draft(t, id, Held(records[id]), records[id].ver)

Amend(t, id) ==
    /\ Exists(records[id])
    /\ \E a \in Instants : CanAmend(records[id], a)
    /\ \E w \in Windows, c \in CondSets :
          Draft(t, id, Amended(records[id], w, c), records[id].ver)

Commit(t, id) ==
    /\ Exists(records[id])
    /\ \E a \in Instants, satisfied \in CondSets :
          /\ CanCommit(records[id], a, satisfied)
          /\ Draft(t, id, Committed(records[id], a), records[id].ver)

ReleaseClaim(t, id) ==
    /\ Exists(records[id])
    /\ \E a \in Instants : CanRelease(records[id], a)
    /\ Draft(t, id, Advance(records[id], "RELEASED"), records[id].ver)

Expire(t, id) ==
    /\ Exists(records[id])
    /\ \E a \in Instants : CanExpire(records[id], a)
    /\ Draft(t, id, Advance(records[id], "EXPIRED"), records[id].ver)

Default(t, id) ==
    /\ Exists(records[id])
    /\ \E a \in Instants :
          /\ CanDefault(records[id], a)
          /\ Draft(t, id, Defaulted(records[id], a), records[id].ver)

Consume(t, id) ==
    /\ Exists(records[id])
    /\ \E a \in Instants :
          /\ CanConsume(records[id], a)
          /\ Draft(t, id, Consumed(records[id], a), records[id].ver)

-----------------------------------------------------------------------------
(* apply. *)

\* apply is called: the gates of the batch's keys are to be taken in order.
Apply(t) ==
    /\ BatchIds(t) # {}
    /\ BatchKeys(t) \in KeySets[t]
    /\ Begin(t, BatchKeys(t))
    /\ stage' = [stage EXCEPT ![t] = "versions"]
    /\ applies' = [applies EXCEPT ![t] = @ + 1]
    /\ UNCHANGED <<records, draft, expected, pending>>

\* Mutant of VersionsHold: the stored version is not compared with the expected one.
VersionsNotCompared(t) ==
    \A id \in BatchIds(t) :
        (expected[t][id] # 0) = Exists(records[id])

\* _validate_one: expected version, version chain, payload identity.
VersionsHold(t) ==
    \A id \in BatchIds(t) :
        LET current == records[id]
            record == draft[t][id]
        IN  /\ Version(current) = expected[t][id]
            /\ record.ver = Version(current) + 1
            /\ Exists(current) => record.key = current.key

\* The batch laid over the stored records.
Overlay(t) == [id \in Ids |-> IF Exists(draft[t][id]) THEN draft[t][id] ELSE records[id]]

\* The body of apply ends and the gates are released.
EndApply(t) == Leave(t) /\ stage' = [stage EXCEPT ![t] = "out"]

\* Mutant of ValidateVersions: the check may run before the gates are taken.
ValidateVersionsEarly(t) ==
    /\ pc[t] \in {"entering", "critical"}
    /\ stage[t] = "versions"
    /\ \/ /\ VersionsHold(t)
          /\ stage' = [stage EXCEPT ![t] = "exclusivity"]
          /\ UNCHANGED lockVars
       \/ ~VersionsHold(t) /\ EndApply(t)
    /\ UNCHANGED <<records, draft, expected, pending, applies>>

ValidateVersions(t) ==
    /\ pc[t] = "critical"
    /\ stage[t] = "versions"
    /\ \/ /\ VersionsHold(t)
          /\ stage' = [stage EXCEPT ![t] = "exclusivity"]
          /\ UNCHANGED lockVars
       \/ ~VersionsHold(t) /\ EndApply(t)
    /\ UNCHANGED <<records, draft, expected, pending, applies>>

\* _validate_live_key_exclusivity looks at every key of the store.
ValidateExclusivity(t) ==
    /\ pc[t] = "critical"
    /\ stage[t] = "exclusivity"
    /\ \/ /\ Crowded(Overlay(t)) = {}
          /\ stage' = [stage EXCEPT ![t] = "publish"]
          /\ pending' = [pending EXCEPT ![t] = BatchIds(t)]
          /\ UNCHANGED lockVars
       \/ /\ Crowded(Overlay(t)) # {}
          /\ EndApply(t)
          /\ UNCHANGED pending
    /\ UNCHANGED <<records, draft, expected, applies>>

\* One assignment of the publishing loop; the body ends with the last one.
Publish(t, id) ==
    /\ pc[t] = "critical"
    /\ stage[t] = "publish"
    /\ id \in pending[t]
    /\ records' = [records EXCEPT ![id] = draft[t][id]]
    /\ pending' = [pending EXCEPT ![t] = @ \ {id}]
    /\ \/ pending[t] = {id} /\ EndApply(t)
       \/ pending[t] # {id} /\ UNCHANGED <<lockVars, stage>>
    /\ UNCHANGED <<draft, expected, applies>>

\* apply has returned or raised; the caller may prepare another batch.
Return(t) ==
    /\ pc[t] = "done"
    /\ pc' = [pc EXCEPT ![t] = "idle"]
    /\ draft' = [draft EXCEPT ![t] = NoBatch]
    /\ expected' = [expected EXCEPT ![t] = [id \in Ids |-> 0]]
    /\ stage' = [stage EXCEPT ![t] = "out"]
    /\ UNCHANGED <<holder, waiters, todo, held, records, pending, applies>>

Command(t, id) ==
    \/ Create(t, id) \/ Hold(t, id) \/ Amend(t, id) \/ Commit(t, id)
    \/ ReleaseClaim(t, id) \/ Expire(t, id) \/ Default(t, id) \/ Consume(t, id)

\* What a thread does of its own accord inside apply.
ApplyStep(t) ==
    \/ GateStep(t) /\ UNCHANGED storeVars
    \/ ValidateVersions(t)
    \/ ValidateExclusivity(t)
    \/ \E id \in Ids : Publish(t, id)

Idle == \A t \in Threads : pc[t] \in {"idle", "done"}

Next ==
    \/ \E t \in Threads :
        \/ \E id \in Ids : Command(t, id)
        \/ Apply(t)
        \/ ApplyStep(t)
        \/ Return(t)
        \/ Disturb(t) /\ UNCHANGED storeVars
    \/ Idle /\ UNCHANGED vars

SafetySpec == Init /\ [][Next]_vars

Spec == SafetySpec /\ \A t \in Threads : WF_vars(ApplyStep(t))

-----------------------------------------------------------------------------
(* Properties. *)

\* The store as its callers are to see it: a validated batch counts at once.
Published ==
    [id \in Ids |->
        IF \E t \in Threads : id \in pending[t]
        THEN draft[CHOOSE t \in Threads : id \in pending[t]][id]
        ELSE records[id]]

\* A resource key admits at most one live reservation, whatever creators race
\* (store.py 23-25): no key is crowded once validated batches count.
LiveKeyExclusivity == Crowded(Published) = {}

\* The ids that belong to one resource key.  apply takes the gates of keys, so
\* two creators may take an id of two keys under two gates (store.py 176).
KeyedIds == {id \in Ids : \A j, k \in KeysOf[id] : j = k}
KeyedView == [id \in KeyedIds |-> Published[id]]

\* apply is atomic for the ids of one key, whatever happens to the others: seen
\* through Published, their records only ever move by whole batches of legal
\* successors that leave every key exclusive.
Atomic == INSTANCE AtomicReservations WITH Ids <- KeyedIds, store <- KeyedView
AppliesAtomically == Atomic!AtomicSpec

\* The stored record of id is on another key than the one t writes it on: some
\* writer of that other key has put it there under its own gate.
Displaced(t, id) == Exists(records[id]) /\ records[id].key # draft[t][id].key

\* Writers of one key lose no update of each other (store.py 7-12): what t
\* overwrites is the version it declared, not only when it validates but when
\* it publishes, and whatever happens to the id on other keys meanwhile.
NoLostUpdate ==
    [][\A t \in Threads : \A id \in pending[t] :
          id \notin pending'[t] =>
              Version(records[id]) = expected[t][id] \/ Displaced(t, id)]_vars

\* Every stored record satisfies the state coherence rules its constructor
\* enforces, so no command of the family builds a record that is refused
\* (records.py 304-351), and a committed reservation was committed inside
\* the window it still carries.
StoredRecordsCoherent ==
    \A id \in Ids : Exists(records[id]) =>
        /\ Coherent(records[id])
        /\ \A c \in records[id].committed : InWindow(records[id], c)

\* Every apply ends.
ApplyEnds == \A t \in Threads : stage[t] = "versions" ~> pc[t] = "done"

=============================================================================
