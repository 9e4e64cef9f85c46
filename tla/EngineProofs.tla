----------------------------- MODULE EngineProofs -----------------------------
(***************************************************************************)
(* The transition kernel and the execution domain, two engines that decide *)
(* commands one at a time.                                                 *)
(*                                                                         *)
(* The kernel decides a command once, has a journal that explains its      *)
(* store and can be saved unless two events have come to share an id, for  *)
(* every set of commands.  The invariant KernelInv has the checks of       *)
(* EngineState but that on event ids; it adds that journal events and the  *)
(* records of their commands name each other, one event per command, and   *)
(* that the saved state, if any, satisfies the same conditions; StoreInv   *)
(* adds to it what the journals say of the object versions.                *)
(*                                                                         *)
(* The execution domain, for any set of steps, any retry budget and any    *)
(* number of requests, has three inductive invariants.  RequestInv needs   *)
(* nothing of the rail: it ties the current request to the step's and the  *)
(* plan's state, and gives SubmitOnlyWhileRunning.  TruthInv adds what the *)
(* engine's records say of the rail when the rail's NOT_FOUND is final, and*)
(* gives OneLiveEffect and SettledStepsAreTrue.  BudgetInv says that a step*)
(* waiting to be submitted has an attempt left, and gives                  *)
(* SubmissionsWithinBudget.                                                *)
(***************************************************************************)
EXTENDS TransitionKernel, Execution, FiniteSetTheorems, TLAPS

StateTypeOK(s) ==
    /\ s.clock \in Nat
    /\ s.records \subseteq IdempotencyRecord
    /\ s.journal \in Seq(Event)

EventName(r) == IF r.accepted THEN AcceptedEventId(r.command) ELSE RejectionEventId(r.command)

\* Every event is the event of the record of the command that caused it, and
\* of no other event's.
EventsRecorded(s) ==
    /\ \A i \in DOMAIN s.journal : \E r \in s.records :
          r.command.id = s.journal[i].cause /\ r.event = s.journal[i].id
    /\ \A i, j \in DOMAIN s.journal : s.journal[i].cause = s.journal[j].cause => i = j

\* The event of a record is in the journal, under the name the decision gives it.
RecordsJournalled(s) ==
    \A r \in s.records :
        /\ r.event \in {EventName(r), NoEvent}
        /\ r.accepted => r.event = EventName(r)
        /\ r.event # NoEvent =>
              \E i \in DOMAIN s.journal :
                  s.journal[i].cause = r.command.id /\ s.journal[i].id = r.event

StateInv(s) ==
    StateTypeOK(s) /\ RecordsDistinct(s) /\ TimesIncrease(s) /\ EventsRecorded(s) /\ RecordsJournalled(s)

KernelInv ==
    /\ StateInv(Kernel)
    /\ objects \in [Objects -> Envelope \cup {NoObject}]
    /\ saved # NoSnapshot =>
          /\ StateInv(saved.kernel)
          /\ saved.objects \in [Objects -> Envelope \cup {NoObject}]

-----------------------------------------------------------------------------

\* An engine just built has decided nothing, and its state is valid.
LEMMA KernelInitInv == KernelInit => KernelInv
  BY SeedAssumption
  DEF KernelInit, KernelInv, StateInv, StateTypeOK, EventsRecorded, RecordsJournalled,
      RecordsDistinct, TimesIncrease, Kernel

\* Deciding a fresh command and journalling its event keeps a state valid.
LEMMA EmitInv ==
    ASSUME KernelInv, NEW c \in Commands, NEW a \in BOOLEAN,
           NEW id, id = IF a THEN AcceptedEventId(c) ELSE RejectionEventId(c),
           NEW v \in [Objects -> Nat],
           Fresh(c), Emit(c, id, a, v), Remember(c, a, id)
    PROVE  StateInv(Kernel')
<1> DEFINE event == [id |-> id, accepted |-> a, cause |-> c.id, versions |-> v,
                     time |-> clock + 1]
           record == [command |-> c, accepted |-> a, event |-> id]
<1>1. /\ clock \in Nat /\ records \subseteq IdempotencyRecord /\ journal \in Seq(Event)
      /\ RecordsDistinct(Kernel) /\ TimesIncrease(Kernel)
      /\ EventsRecorded(Kernel) /\ RecordsJournalled(Kernel)
  BY DEF KernelInv, StateInv, StateTypeOK, Kernel
<1>2. event \in Event /\ record \in IdempotencyRecord
  BY <1>1 DEF Event, IdempotencyRecord, EventNames, CommandIds
<1>3. /\ clock' = clock + 1 /\ journal' = Append(journal, event)
      /\ records' = records \cup {record}
  BY DEF Emit, Remember
<1>13. /\ record.command = c /\ record.event = id /\ record.accepted = a
       /\ EventName(record) = id
       /\ event.id = id /\ event.cause = c.id /\ event.time = clock + 1
  BY DEF EventName
<1> HIDE DEF event, record
<1>4. StateTypeOK(Kernel')
  BY <1>1, <1>2, <1>3 DEF StateTypeOK, Kernel
<1>5. /\ DOMAIN journal' = 1..(Len(journal) + 1)
      /\ DOMAIN journal = 1..Len(journal) /\ Len(journal) \in Nat
      /\ journal'[Len(journal) + 1] = event
      /\ \A i \in 1..Len(journal) : journal'[i] = journal[i]
  BY <1>1, <1>2, <1>3
<1>6. \A r \in records : r.command.id # c.id /\ r.command.key # c.key
  BY DEF Fresh, SeenById, SeenByKey
<1>7. \A i \in DOMAIN journal : journal[i].cause # c.id
  BY <1>1, <1>6 DEF EventsRecorded, Kernel
<1>9. RecordsDistinct(Kernel')
  BY <1>1, <1>3, <1>6, <1>13 DEF RecordsDistinct, Kernel
<1>10. RecordsJournalled(Kernel')
  <2> SUFFICES ASSUME NEW r \in records'
               PROVE  /\ r.event \in {EventName(r), NoEvent}
                      /\ r.accepted => r.event = EventName(r)
                      /\ r.event # NoEvent =>
                            \E i \in DOMAIN journal' :
                                journal'[i].cause = r.command.id /\ journal'[i].id = r.event
    BY DEF RecordsJournalled, Kernel, EventName, AcceptedEventId, RejectionEventId
  <2>1. CASE r = record
    BY <2>1, <1>5, <1>13
  <2>2. CASE r \in records
    BY <2>2, <1>1, <1>5 DEF RecordsJournalled, Kernel
  <2> QED BY <2>1, <2>2, <1>3
<1>11. TimesIncrease(Kernel')
  BY <1>1, <1>3, <1>5, <1>13 DEF TimesIncrease, Kernel
<1>12. EventsRecorded(Kernel')
  <2>1. ASSUME NEW i \in DOMAIN journal'
        PROVE  \E r \in records' : r.command.id = journal'[i].cause /\ r.event = journal'[i].id
    <3>1. CASE i = Len(journal) + 1
      BY <3>1, <1>3, <1>5, <1>13
    <3>2. CASE i \in DOMAIN journal
      BY <3>2, <1>1, <1>3, <1>5 DEF EventsRecorded, Kernel
    <3> QED BY <3>1, <3>2, <1>5
  <2>2. ASSUME NEW i \in DOMAIN journal', NEW j \in DOMAIN journal', journal'[i].cause = journal'[j].cause
        PROVE  i = j
    <3>1. CASE i \in DOMAIN journal /\ j \in DOMAIN journal
      BY <3>1, <2>2, <1>1, <1>5 DEF EventsRecorded, Kernel
    <3>2. CASE ~(i \in DOMAIN journal /\ j \in DOMAIN journal)
      BY <3>2, <2>2, <1>5, <1>7, <1>13
    <3> QED BY <3>1, <3>2
  <2> QED BY <2>1, <2>2 DEF EventsRecorded, Kernel
<1> QED
  BY <1>4, <1>9, <1>10, <1>11, <1>12 DEF StateInv

\* Every decision, snapshot and restore preserves the kernel's invariant.
LEMMA KernelNextInv ==
    ASSUME KernelInv, [KernelNext]_kernelVars
    PROVE  KernelInv'
<1>1. CASE UNCHANGED kernelVars
  BY <1>1
  DEF kernelVars, KernelInv, StateInv, StateTypeOK, EventsRecorded, RecordsJournalled,
      RecordsDistinct, TimesIncrease, Kernel, EventName, AcceptedEventId, RejectionEventId
<1>2. ASSUME NEW c \in Commands, Reject(c)
      PROVE  KernelInv'
  <2> DEFINE v == [o \in Objects |-> IF o \in c.targets THEN VersionOf(o) ELSE 0]
  <2>1. v \in [Objects -> Nat]
    BY DEF KernelInv, VersionOf, Envelope
  <2>2. objects' = objects /\ saved' = saved
    BY <1>2 DEF Reject
  <2>3. CASE emits
    <3>1. Emit(c, RejectionEventId(c), FALSE, v) /\ Remember(c, FALSE, RejectionEventId(c))
          /\ Fresh(c)
      BY <1>2, <2>3 DEF Reject
    <3>2. StateInv(Kernel')
      BY <3>1, <2>1, EmitInv
    <3> QED BY <3>2, <2>2 DEF KernelInv, Kernel
  <2>4. CASE ~emits
    <3> DEFINE record == [command |-> c, accepted |-> FALSE, event |-> NoEvent]
    <3>1. /\ records' = records \cup {record} /\ clock' = clock /\ journal' = journal
          /\ Fresh(c)
      BY <1>2, <2>4 DEF Reject, Remember
    <3>2. record \in IdempotencyRecord /\ record.command = c /\ record.event = NoEvent /\ ~record.accepted
      BY DEF IdempotencyRecord
    <3> HIDE DEF record
    <3>3. \A r \in records : r.command.id # c.id /\ r.command.key # c.key
      BY <3>1 DEF Fresh, SeenById, SeenByKey
    <3>4. StateTypeOK(Kernel')
      BY <3>1, <3>2 DEF KernelInv, StateInv, StateTypeOK, Kernel
    <3>5. StateInv(Kernel)
      BY DEF KernelInv
    <3>6. RecordsDistinct(Kernel')
      BY <3>1, <3>2, <3>3, <3>5 DEF StateInv, RecordsDistinct, Kernel
    <3>7. TimesIncrease(Kernel') /\ EventsRecorded(Kernel')
      BY <3>1, <3>5 DEF StateInv, EventsRecorded, TimesIncrease, Kernel
    <3>8. RecordsJournalled(Kernel')
      BY <3>1, <3>2, <3>5
      DEF StateInv, RecordsJournalled, Kernel, EventName, AcceptedEventId, RejectionEventId
    <3>9. StateInv(Kernel')
      BY <3>4, <3>6, <3>7, <3>8 DEF StateInv
    <3> QED BY <3>9, <2>2 DEF KernelInv, Kernel
  <2> QED BY <2>3, <2>4
<1>3. ASSUME NEW c \in Commands, NEW changed \in SUBSET c.targets, Accept(c, changed)
      PROVE  KernelInv'
  <2> DEFINE v == [o \in Objects |-> IF o \in changed THEN VersionOf(o) + 1 ELSE 0]
  <2>1. v \in [Objects -> Nat]
    BY DEF KernelInv, VersionOf, Envelope
  <2>2. StateInv(Kernel')
    <3>1. Emit(c, AcceptedEventId(c), TRUE, v) /\ Remember(c, TRUE, AcceptedEventId(c))
          /\ Fresh(c)
      BY <1>3 DEF Accept
    <3> QED BY <3>1, <2>1, EmitInv
  <2>3. \A o \in changed : NextEnvelope(c, o) \in Envelope
    <3> SUFFICES ASSUME NEW o \in changed PROVE NextEnvelope(c, o) \in Envelope
      OBVIOUS
    <3>1. o \in Objects /\ VersionOf(o) \in Nat
      BY CommandsAssumption DEF KernelInv, VersionOf, Envelope
    <3>2. c.env \in STRING /\ c.dom \in STRING
      BY CommandsAssumption
    <3> QED BY <3>1, <3>2 DEF NextEnvelope, Envelope
  <2>4. objects' \in [Objects -> Envelope \cup {NoObject}]
    BY <1>3, <2>3 DEF Accept, KernelInv
  <2> QED BY <1>3, <2>2, <2>4 DEF Accept, KernelInv, Kernel
<1>4. CASE Snapshot
  BY <1>4 DEF Snapshot, KernelInv, Kernel, StateInv
<1>5. CASE Restore
  BY <1>5 DEF Restore, KernelInv, Kernel, StateInv, StateTypeOK,
      EventsRecorded, RecordsJournalled, RecordsDistinct, TimesIncrease,
      EventName, AcceptedEventId, RejectionEventId
<1> QED
  BY <1>1, <1>2, <1>3, <1>4, <1>5 DEF KernelNext, Process, Answer

\* KernelInv holds throughout, whatever the commands and the hooks.
THEOREM KernelInvariance == KernelSpec => []KernelInv
<1>1. KernelInv /\ [KernelNext]_kernelVars => KernelInv'
  BY KernelNextInv
<1> QED BY <1>1, KernelInitInv, PTL DEF KernelSpec

\* The state of the kernel is well typed.
THEOREM KernelTypeCorrect == KernelSpec => []KernelTypeOK
<1>1. KernelInv => KernelTypeOK
  BY DEF KernelInv, StateInv, StateTypeOK, KernelTypeOK, Kernel
<1> QED BY <1>1, KernelInvariance, PTL

\* snapshot_state raises exactly when an accepted command and a rejected one
\* have clashing event ids: two events of one id belong to two commands, and
\* only a name with the suffix and one without can be equal.
THEOREM SnapshotRefusals == KernelSpec => []SnapshotRefusedOnClash
<1>1. ASSUME KernelInv PROVE SnapshotRefusedOnClash
  <2>1. /\ RecordsDistinct(Kernel) /\ TimesIncrease(Kernel) /\ EventsRecorded(Kernel)
        /\ RecordsJournalled(Kernel) /\ records \subseteq IdempotencyRecord
    BY <1>1 DEF KernelInv, StateInv, StateTypeOK, Kernel
  <2>2. RecordsEchoJournal(Kernel)
    BY <2>1 DEF RecordsJournalled, RecordsEchoJournal, Kernel
  <2>3. ASSUME ~EventsClash PROVE EventIdsDistinct(Kernel)
    <3> SUFFICES ASSUME NEW i \in DOMAIN journal, NEW j \in DOMAIN journal, journal[i].id = journal[j].id
                 PROVE  i = j
      BY DEF EventIdsDistinct, Kernel
    <3>1. PICK q \in records : q.command.id = journal[i].cause /\ q.event = journal[i].id
      BY <2>1 DEF EventsRecorded, Kernel
    <3>2. PICK r \in records : r.command.id = journal[j].cause /\ r.event = journal[j].id
      BY <2>1 DEF EventsRecorded, Kernel
    <3>3. journal[i].id # NoEvent
      <4>1. journal \in Seq(Event)
        BY <1>1 DEF KernelInv, StateInv, StateTypeOK, Kernel
      <4>2. journal[i] \in Event
        BY <4>1
      <4> QED BY <4>2, NoEventAssumption DEF Event
    <3>4. q.event = EventName(q) /\ r.event = EventName(r) /\ q.event = r.event /\ r.event # NoEvent
      BY <2>1, <3>1, <3>2, <3>3 DEF RecordsJournalled, Kernel
    <3>5. q.command.id \in CommandIds /\ r.command.id \in CommandIds
      BY <2>1 DEF IdempotencyRecord, CommandIds
    <3>6. q.command.id = r.command.id
      BY <2>3, <3>4, <3>5, SuffixAssumption DEF EventsClash, EventName, AcceptedEventId, RejectionEventId
    <3> QED BY <2>1, <3>1, <3>2, <3>6 DEF EventsRecorded, Kernel
  <2>4. ASSUME EventsClash PROVE ~EventIdsDistinct(Kernel)
    <3>1. PICK q \in records, r \in records :
              /\ q.accepted /\ ~r.accepted /\ r.event # NoEvent
              /\ q.command.id = WithSuffix(r.command.id)
      BY <2>4 DEF EventsClash
    <3>2. q.event = EventName(q) /\ r.event = EventName(r)
      BY <2>1, <3>1 DEF RecordsJournalled, Kernel
    <3>3. q.event = r.event
      BY <3>1, <3>2 DEF EventName, AcceptedEventId, RejectionEventId
    <3>4. PICK i \in DOMAIN journal : journal[i].cause = r.command.id /\ journal[i].id = r.event
      BY <2>1, <3>1 DEF RecordsJournalled, Kernel
    <3>5. PICK j \in DOMAIN journal : journal[j].cause = q.command.id /\ journal[j].id = q.event
      BY <2>1, <3>1, <3>3 DEF RecordsJournalled, Kernel
    <3>6. q.command.id # r.command.id
      BY <2>1, <3>1 DEF RecordsDistinct, Kernel
    <3> QED BY <3>3, <3>4, <3>5, <3>6 DEF EventIdsDistinct, Kernel
  <2> QED BY <2>1, <2>2, <2>3, <2>4 DEF SnapshotRefusedOnClash, EngineStateValid
<1> QED BY <1>1, KernelInvariance, PTL

\* Whatever is resubmitted or restored, the journal holds one event per command
\* id: a command with an event has a record, and is not decided again.
THEOREM DecidedOnce == KernelSpec => []OneEventPerCommand
<1>1. KernelInv => OneEventPerCommand
  BY DEF KernelInv, StateInv, EventsRecorded, OneEventPerCommand, Kernel
<1> QED BY <1>1, KernelInvariance, PTL

-----------------------------------------------------------------------------

Seeded(o) == IF Seed[o] = NoObject THEN 0 ELSE Seed[o].ver

\* The version of o in a store.
VersionIn(store, o) == IF store[o] = NoObject THEN 0 ELSE store[o].ver

\* The accepted events of journal j about o produced the versions b+1 to v.
StepsOf(j, o) == {i \in DOMAIN j : j[i].accepted /\ j[i].versions[o] # 0}

Produced(j, o, b, v) ==
    /\ {j[i].versions[o] : i \in StepsOf(j, o)} = (b + 1)..v
    /\ \A i, k \in StepsOf(j, o) : i < k => j[i].versions[o] < j[k].versions[o]

Explained(j, store) ==
    \A o \in Objects : Seeded(o) <= VersionIn(store, o) /\ Produced(j, o, Seeded(o), VersionIn(store, o))

StoreInv ==
    /\ KernelInv
    /\ Explained(journal, objects)
    /\ saved # NoSnapshot => Explained(saved.kernel.journal, saved.objects)

\* An appended event adds the next version of an object, or none.
LEMMA AppendProduces ==
    ASSUME NEW j \in Seq(Event), NEW e \in Event, NEW o \in Objects, NEW b \in Nat, NEW v \in Nat,
           b <= v, Produced(j, o, b, v)
    PROVE  /\ e.accepted /\ e.versions[o] = v + 1 => Produced(Append(j, e), o, b, v + 1)
           /\ ~e.accepted \/ e.versions[o] = 0 => Produced(Append(j, e), o, b, v)
<1> DEFINE n == Len(j)
           J == Append(j, e)
<1>1. /\ n \in Nat /\ DOMAIN j = 1..n /\ DOMAIN J = 1..(n + 1)
      /\ J[n + 1] = e /\ \A i \in 1..n : J[i] = j[i]
  OBVIOUS
<1> HIDE DEF n, J
<1>2. \A i \in StepsOf(j, o) : i \in 1..n /\ j[i].versions[o] \in (b + 1)..v
  BY <1>1 DEF Produced, StepsOf
<1>3. ASSUME e.accepted, e.versions[o] = v + 1
      PROVE  Produced(J, o, b, v + 1)
  <2>1. StepsOf(J, o) = StepsOf(j, o) \cup {n + 1}
    <3>1. e.versions[o] # 0
      BY <1>3
    <3> QED BY <1>1, <1>3, <3>1 DEF StepsOf
  <2>2. {J[i].versions[o] : i \in StepsOf(J, o)} = {j[i].versions[o] : i \in StepsOf(j, o)} \cup {v + 1}
    BY <1>1, <1>2, <1>3, <2>1
  <2>3. ((b + 1)..v) \cup {v + 1} = (b + 1)..(v + 1)
    OBVIOUS
  <2>4. ASSUME NEW i \in StepsOf(J, o), NEW k \in StepsOf(J, o), i < k
        PROVE  J[i].versions[o] < J[k].versions[o]
    <3>1. i \in StepsOf(j, o)
      BY <1>1, <1>2, <2>1, <2>4
    <3>2. CASE k \in StepsOf(j, o)
      BY <1>1, <1>2, <2>4, <3>1, <3>2 DEF Produced
    <3>3. CASE k = n + 1
      <4>1. J[k] = e /\ J[i] = j[i]
        BY <1>1, <1>2, <3>1, <3>3
      <4>2. j[i].versions[o] \in (b + 1)..v
        BY <1>2, <3>1
      <4>3. j[i].versions[o] < v + 1
        BY <4>2
      <4> QED BY <1>3, <4>1, <4>3
    <3> QED BY <2>1, <3>2, <3>3
  <2> QED BY <2>2, <2>3, <2>4 DEF Produced
<1>4. ASSUME ~e.accepted \/ e.versions[o] = 0
      PROVE  Produced(J, o, b, v)
  <2>1. StepsOf(J, o) = StepsOf(j, o)
    BY <1>1, <1>4 DEF StepsOf
  <2>2. {J[i].versions[o] : i \in StepsOf(J, o)} = {j[i].versions[o] : i \in StepsOf(j, o)}
    BY <1>1, <1>2, <2>1
  <2> QED BY <1>1, <1>2, <2>1, <2>2 DEF Produced
<1> QED BY <1>3, <1>4 DEF J

\* Every decision, snapshot and restore keeps the store explained.
LEMMA StoreNextInv ==
    ASSUME StoreInv, [KernelNext]_kernelVars
    PROVE  StoreInv'
<1>1. KernelInv'
  BY KernelNextInv DEF StoreInv
<1>2. journal \in Seq(Event) /\ objects \in [Objects -> Envelope \cup {NoObject}] /\ clock \in Nat
  BY DEF StoreInv, KernelInv, StateInv, StateTypeOK, Kernel
<1>3. \A o \in Objects : Seeded(o) \in Nat /\ VersionIn(objects, o) \in Nat /\ VersionOf(o) = VersionIn(objects, o)
  BY <1>2, SeedAssumption DEF Seeded, VersionIn, VersionOf, Envelope
<1>4. CASE UNCHANGED kernelVars
  BY <1>1, <1>4 DEF kernelVars, StoreInv
<1>5. ASSUME NEW c \in Commands, Reject(c)
      PROVE  StoreInv'
  <2> DEFINE v == [o \in Objects |-> IF o \in c.targets THEN VersionOf(o) ELSE 0]
             event == [id |-> RejectionEventId(c), accepted |-> FALSE, cause |-> c.id,
                       versions |-> v, time |-> clock + 1]
  <2>1. objects' = objects /\ saved' = saved
    BY <1>5 DEF Reject
  <2>2. CASE journal' = journal
    BY <1>1, <2>1, <2>2 DEF StoreInv
  <2>3. CASE journal' = Append(journal, event)
    <3>1. v \in [Objects -> Nat]
      BY <1>3
    <3> HIDE DEF v
    <3>2. event \in Event /\ ~event.accepted
      BY <1>2, <3>1 DEF Event, EventNames, CommandIds
    <3> HIDE DEF event
    <3>3. \A o \in Objects : Produced(journal', o, Seeded(o), VersionIn(objects, o))
      BY <1>2, <1>3, <2>3, <3>2, AppendProduces DEF StoreInv, Explained
    <3>4. Explained(journal', objects)
      BY <3>3 DEF StoreInv, Explained
    <3> QED BY <1>1, <2>1, <3>4 DEF StoreInv
  <2> QED BY <1>5, <2>2, <2>3 DEF Reject, Emit
<1>6. ASSUME NEW c \in Commands, NEW changed \in SUBSET c.targets, Accept(c, changed)
      PROVE  StoreInv'
  <2> DEFINE v == [o \in Objects |-> IF o \in changed THEN VersionOf(o) + 1 ELSE 0]
             event == [id |-> AcceptedEventId(c), accepted |-> TRUE, cause |-> c.id,
                       versions |-> v, time |-> clock + 1]
  <2>1. journal' = Append(journal, event) /\ saved' = saved
    BY <1>6 DEF Accept, Emit
  <2>2. v \in [Objects -> Nat] /\ \A o \in Objects : v[o] = IF o \in changed THEN VersionOf(o) + 1 ELSE 0
    BY <1>3
  <2> HIDE DEF v
  <2>3. event \in Event /\ event.accepted /\ event.versions = v
    BY <1>2, <2>2 DEF Event, EventNames, CommandIds
  <2> HIDE DEF event
  <2>4. ASSUME NEW o \in Objects
        PROVE  Seeded(o) <= VersionIn(objects', o) /\ Produced(journal', o, Seeded(o), VersionIn(objects', o))
    <3>1. Seeded(o) <= VersionIn(objects, o) /\ Produced(journal, o, Seeded(o), VersionIn(objects, o))
      BY DEF StoreInv, Explained
    <3>2. CASE o \in changed
      <4>1. objects'[o] = NextEnvelope(c, o) /\ NextEnvelope(c, o).ver = VersionOf(o) + 1
        BY <1>6, <3>2 DEF Accept, NextEnvelope
      <4>2. objects'[o] # NoObject
        <5>1. c.env \in STRING /\ c.dom \in STRING /\ VersionOf(o) + 1 \in Nat \ {0}
          BY <1>3, CommandsAssumption
        <5>2. NextEnvelope(c, o) \in Envelope
          BY <5>1 DEF NextEnvelope, Envelope
        <5> QED BY <4>1, <5>2, NoObjectAssumption
      <4>3. VersionIn(objects', o) = VersionIn(objects, o) + 1
        BY <1>3, <4>1, <4>2 DEF VersionIn
      <4>4. event.versions[o] = VersionIn(objects, o) + 1
        BY <1>3, <2>2, <2>3, <3>2
      <4>5. Produced(journal', o, Seeded(o), VersionIn(objects, o) + 1)
        BY <1>2, <1>3, <2>1, <2>3, <3>1, <4>4, AppendProduces
      <4> QED BY <1>3, <3>1, <4>3, <4>5
    <3>3. CASE o \notin changed
      <4>1. VersionIn(objects', o) = VersionIn(objects, o)
        BY <1>6, <3>3 DEF Accept, VersionIn
      <4>2. event.versions[o] = 0
        BY <2>2, <2>3, <3>3
      <4>3. Produced(journal', o, Seeded(o), VersionIn(objects, o))
        BY <1>2, <1>3, <2>1, <2>3, <3>1, <4>2, AppendProduces
      <4> QED BY <3>1, <4>1, <4>3
    <3> QED BY <3>2, <3>3
  <2>5. Explained(journal', objects')
    BY <2>4 DEF Explained
  <2> QED BY <1>1, <2>1, <2>5 DEF StoreInv
<1>7. CASE Snapshot
  <2>1. /\ journal' = journal /\ objects' = objects
        /\ saved'.kernel.journal = journal /\ saved'.objects = objects
    BY <1>7 DEF Snapshot, Kernel
  <2> QED BY <1>1, <2>1 DEF StoreInv
<1>8. CASE Restore
  BY <1>1, <1>8 DEF Restore, StoreInv
<1> QED
  BY <1>4, <1>5, <1>6, <1>7, <1>8 DEF KernelNext, Process, Answer

\* The journal accounts for every object version, for any commands, hooks and
\* handlers and across restores: store and journal change together in process.
THEOREM StoreExplained == KernelSpec => []JournalExplainsStore
<1>1. KernelInit => StoreInv
  <2> SUFFICES ASSUME KernelInit PROVE StoreInv
    OBVIOUS
  <2>1. journal = <<>> /\ objects = Seed /\ saved = NoSnapshot
    BY DEF KernelInit
  <2>2. ASSUME NEW o \in Objects
        PROVE  Seeded(o) <= VersionIn(objects, o) /\ Produced(journal, o, Seeded(o), VersionIn(objects, o))
    <3>1. VersionIn(objects, o) = Seeded(o) /\ Seeded(o) \in Nat
      BY <2>1, SeedAssumption DEF VersionIn, Seeded, Envelope
    <3>2. StepsOf(journal, o) = {}
      BY <2>1 DEF StepsOf
    <3>3. (Seeded(o) + 1)..Seeded(o) = {}
      BY <3>1
    <3> QED BY <3>1, <3>2, <3>3 DEF Produced
  <2> QED BY <2>1, <2>2, KernelInitInv DEF StoreInv, Explained
<1>2. StoreInv /\ [KernelNext]_kernelVars => StoreInv'
  BY StoreNextInv
<1>3. StoreInv => JournalExplainsStore
  <2> SUFFICES ASSUME StoreInv PROVE JournalExplainsStore
    OBVIOUS
  <2>1. \A o \in Objects : Produced(journal, o, Seeded(o), VersionOf(o))
    BY DEF StoreInv, Explained, VersionIn, VersionOf
  <2> QED BY <2>1 DEF JournalExplainsStore, Produced, StepsOf, Seeded
<1> QED BY <1>1, <1>2, <1>3, PTL DEF KernelSpec

-----------------------------------------------------------------------------
(* The execution domain. *)

(* Requests that were not declared yet have no trace. *)
UndeclaredBlank ==
    \A s \in Steps : \A n \in Numbers :
       n > issued[s] =>
          /\ request[s][n] = "NONE" /\ attempt[s][n] = "NONE"
          /\ result[s][n] = "NONE" /\ n \notin evidence[s]
          /\ rail[s][n] = "none"

(* A request on offer belongs to a pending step of a running plan, or was  *)
(* never going to be submitted because its step is cancelled.              *)
OfferedOnlyWhileRunning ==
    \A s \in Steps :
       HasRequest(s) /\ request[s][Current(s)] = "REQUESTED" =>
          step[s] = "CANCELLED" \/ (step[s] = "PENDING" /\ plan = "RUNNING")

NoStepsBeforePlan == plan = "NONE" => \A s \in Steps : step[s] = "NONE"

RequestInv == ExecTypeOK /\ UndeclaredBlank /\ OfferedOnlyWhileRunning /\ NoStepsBeforePlan

(* What is recorded about a request is true of it; a request on offer has   *)
(* nothing recorded about it.                                               *)
RecordsAreTrue ==
    \A s \in Steps : \A n \in Numbers :
       /\ request[s][n] = "REQUESTED" =>
             /\ result[s][n] = "NONE"
             /\ n \notin evidence[s]
             /\ rail[s][n] = "none"
       /\ result[s][n] = "SUCCEEDED" => rail[s][n] = "done"
       /\ result[s][n] = "FAILED" => rail[s][n] = "void"
       /\ n \in evidence[s] => rail[s][n] = "void"

OnlyCurrentLive == \A s \in Steps : \A n \in Numbers : Live(s, n) => n = issued[s]

IdleOutsideFlight ==
    \A s \in Steps :
       step[s] \in {"NONE", "PENDING", "FAILED", "CANCELLED"} =>
          \A n \in Numbers : ~Live(s, n)

SuccessRecorded ==
    \A s \in Steps :
       step[s] = "SUCCEEDED" => HasRequest(s) /\ result[s][Current(s)] = "SUCCEEDED"

TruthInv ==
    RequestInv /\ RecordsAreTrue /\ OnlyCurrentLive /\ IdleOutsideFlight /\ SuccessRecorded

-----------------------------------------------------------------------------
USE DEF Numbers, HasRequest, Current, InFlight, Live,
        EXECUTION_STEP_TERMINAL_STATES, IN_FLIGHT_STEP_STATES

(* The plan resolves to a state of its vocabulary, and to one other than   *)
(* its own only when every step is terminal and none was cancelled.        *)
LEMMA ResolvedCases ==
    ASSUME NEW st
    PROVE  \/ Resolved(st) = plan
           \/ /\ Resolved(st) \in {"COMPLETED", "FAILED"}
              /\ \A s \in Steps : st[s] \in {"SUCCEEDED", "FAILED"}
  BY DEF Resolved

(* One cell of a table indexed by step and number is replaced, no other. *)
LEMMA CellUpdate ==
    ASSUME NEW T, NEW f \in [Steps -> [Numbers -> T]], NEW s \in Steps,
           NEW k \in Numbers, NEW v \in T
    PROVE  /\ [f EXCEPT ![s][k] = v] \in [Steps -> [Numbers -> T]]
           /\ \A t \in Steps : \A n \in Numbers :
                 [f EXCEPT ![s][k] = v][t][n] = IF t = s /\ n = k THEN v ELSE f[t][n]
  OBVIOUS

(* Evidence only shrinks when it ages, and grows by the current request     *)
(* when it is recorded.                                                     *)
LEMMA EvidenceUpdate ==
    ASSUME ExecTypeOK, NEW s \in Steps
    PROVE  /\ \A e \in Aged(s) : /\ e \in [Steps -> SUBSET Numbers]
                                /\ \A t \in Steps : e[t] \subseteq evidence[t]
           /\ HasRequest(s) =>
                LET e == [evidence EXCEPT ![s] = @ \cup {Current(s)}]
                IN  /\ e \in [Steps -> SUBSET Numbers]
                    /\ \A t \in Steps : \A n \in e[t] :
                          n \in evidence[t] \/ (t = s /\ n = Current(s))
  <1>1. evidence \in [Steps -> SUBSET Numbers]
    BY DEF ExecTypeOK
  <1>2. HasRequest(s) => Current(s) \in Numbers
    BY ExecutionAssumption DEF ExecTypeOK
  <1> HIDE DEF Numbers, Current, HasRequest
  <1>3. LET e == [evidence EXCEPT ![s] = @ \ {Current(s)}]
        IN  /\ e \in [Steps -> SUBSET Numbers]
            /\ \A t \in Steps : e[t] \subseteq evidence[t]
    BY <1>1
  <1>4. HasRequest(s) =>
          LET e == [evidence EXCEPT ![s] = @ \cup {Current(s)}]
          IN  /\ e \in [Steps -> SUBSET Numbers]
              /\ \A t \in Steps : \A n \in e[t] :
                    n \in evidence[t] \/ (t = s /\ n = Current(s))
    BY <1>1, <1>2
  <1> QED
    BY <1>1, <1>3, <1>4 DEF Aged

(* The port's three answers, as states of the vocabularies. *)
LEMMA SubmitAnswers ==
    ASSUME NEW s \in Steps, StepSubmit(s), ExecTypeOK
    PROVE  /\ Current(s) \in Numbers
           /\ \E q \in EffectRequestState \ {"REQUESTED"},
                 st \in {"SUBMITTED", "UNKNOWN", "FAILED"},
                 a \in ExecutionAttemptState \ {"NONE"}, r \in {"pending", "void"} :
                 /\ Answered(s, q, st, a, r)
                 /\ st = "FAILED" => r = "void"
  <1>1. Current(s) \in Numbers
    BY ExecutionAssumption DEF StepSubmit, Submittable, ExecTypeOK
  <1>2. CASE Answered(s, "SUBMITTED", "SUBMITTED", "IN_FLIGHT", "pending")
    BY <1>1, <1>2 DEF EffectRequestState, ExecutionAttemptState
  <1>3. CASE Answered(s, "RESOLVED", "FAILED", "FAILED", "void")
    BY <1>1, <1>3 DEF EffectRequestState, ExecutionAttemptState
  <1>4. CASE \E r \in {"pending", "void"} : Answered(s, "SUBMITTED", "UNKNOWN", "UNKNOWN", r)
    BY <1>1, <1>4 DEF EffectRequestState, ExecutionAttemptState
  <1> QED
    BY <1>2, <1>3, <1>4 DEF StepSubmit

(* The initial state satisfies the request invariant. *)
LEMMA RequestInit == Init => RequestInv
  BY ExecutionAssumption
  DEF Init, RequestInv, ExecTypeOK, UndeclaredBlank, OfferedOnlyWhileRunning,
      NoStepsBeforePlan, ExecutionPlanState, ExecutionStepState,
      EffectRequestState, ExecutionAttemptState, EffectOutcome, RailState

(* Every step keeps the records inside their vocabularies. *)
LEMMA TypeNext ==
    ExecTypeOK /\ [Next]_vars
       => ExecTypeOK'
  <1> SUFFICES ASSUME ExecTypeOK, [Next]_vars PROVE ExecTypeOK'
    OBVIOUS
  <1>1. CASE UNCHANGED vars
    BY <1>1, ExecutionAssumption
    DEF vars, ExecTypeOK, ExecutionPlanState, ExecutionStepState,
        EffectRequestState, ExecutionAttemptState, EffectOutcome,
        RailState
  <1>2. CASE PlanCreate
    BY <1>2, ExecutionAssumption
    DEF PlanCreate, ExecTypeOK, ExecutionPlanState, ExecutionStepState,
        EffectRequestState, ExecutionAttemptState, EffectOutcome,
        RailState
  <1>3. CASE PlanAuthorize
    BY <1>3, ExecutionAssumption
    DEF PlanAuthorize, ExecTypeOK, ExecutionPlanState, ExecutionStepState,
        EffectRequestState, ExecutionAttemptState, EffectOutcome,
        RailState
  <1>4. CASE PlanStart
    BY <1>4, ExecutionAssumption
    DEF PlanStart, ExecTypeOK, ExecutionPlanState, ExecutionStepState,
        EffectRequestState, ExecutionAttemptState, EffectOutcome,
        RailState
  <1>5. CASE PlanCancel
    BY <1>5, ExecutionAssumption
    DEF PlanCancel, CancelOpenSteps, ExecTypeOK, ExecutionPlanState,
        ExecutionStepState, EffectRequestState, ExecutionAttemptState,
        EffectOutcome, RailState
  <1>6. ASSUME NEW s \in Steps, RequestEffect(s)
        PROVE  ExecTypeOK'
    BY <1>6, ExecutionAssumption
    DEF RequestEffect, Declare, ExecTypeOK, ExecutionPlanState,
        ExecutionStepState, EffectRequestState, ExecutionAttemptState,
        EffectOutcome, RailState
  <1>7. ASSUME NEW s \in Steps, StepSubmit(s)
        PROVE  ExecTypeOK'
    <2>1. PICK q \in EffectRequestState, st \in {"SUBMITTED", "UNKNOWN", "FAILED"},
               a \in ExecutionAttemptState, r \in RailState :
            Answered(s, q, st, a, r)
      BY <1>7, SubmitAnswers DEF RailState
    <2>2. Current(s) \in Numbers
      BY <1>7, SubmitAnswers
    <2>3. request' \in [Steps -> [Numbers -> EffectRequestState]]
      BY <2>1, <2>2, CellUpdate DEF Answered, ExecTypeOK
    <2>4. attempt' \in [Steps -> [Numbers -> ExecutionAttemptState]]
      BY <2>1, <2>2, CellUpdate DEF Answered, ExecTypeOK
    <2>5. rail' \in [Steps -> [Numbers -> RailState]]
      BY <2>1, <2>2, CellUpdate DEF Answered, ExecTypeOK
    <2>6. step' \in [Steps -> ExecutionStepState]
      BY <2>1 DEF Answered, ExecTypeOK, ExecutionStepState
    <2> QED
      BY <1>7, <2>3, <2>4, <2>5, <2>6 DEF StepSubmit, ExecTypeOK
  <1>8. ASSUME NEW s \in Steps, StepAcknowledge(s)
        PROVE  ExecTypeOK'
    <2>1. evidence' \in [Steps -> SUBSET Numbers]
      BY <1>8, EvidenceUpdate DEF StepAcknowledge
    <2>2. attempt' \in [Steps -> [Numbers -> ExecutionAttemptState]]
      BY <1>8, CellUpdate DEF StepAcknowledge, ExecTypeOK, ExecutionAttemptState
    <2> QED
      BY <1>8, <2>1, <2>2 DEF StepAcknowledge, ExecTypeOK, ExecutionStepState
  <1>9. ASSUME NEW s \in Steps, StepTimeout(s)
        PROVE  ExecTypeOK'
    <2>1. evidence' \in [Steps -> SUBSET Numbers]
      BY <1>9, EvidenceUpdate DEF StepTimeout
    <2>2. attempt' \in [Steps -> [Numbers -> ExecutionAttemptState]]
      BY <1>9, CellUpdate DEF StepTimeout, ExecTypeOK, ExecutionAttemptState
    <2> QED
      BY <1>9, <2>1, <2>2 DEF StepTimeout, ExecTypeOK, ExecutionStepState
  <1>10. ASSUME NEW s \in Steps, NEW o \in EffectOutcome, RecordEffectResult(s, o)
         PROVE  ExecTypeOK'
    BY <1>10, ExecutionAssumption
    DEF RecordEffectResult, Reports, ExecTypeOK, ExecutionPlanState,
        ExecutionStepState, EffectRequestState, ExecutionAttemptState,
        EffectOutcome, RailState
  <1>11. ASSUME NEW s \in Steps, NEW o \in QueryOutcome, RecordObservation(s, o)
         PROVE  ExecTypeOK'
    BY <1>11, ExecutionAssumption
    DEF RecordObservation, QueryOutcome, Reports, ExecTypeOK,
        ExecutionPlanState, ExecutionStepState, EffectRequestState,
        ExecutionAttemptState, EffectOutcome, RailState
  <1>12. ASSUME NEW s \in Steps, NEW c \in {"RETRY_SAFE", "UNKNOWN"}, RecordStatus(s, c)
         PROVE  ExecTypeOK'
    <2>1. evidence' \in [Steps -> SUBSET Numbers]
      BY <1>12, EvidenceUpdate DEF RecordStatus
    <2>2. step' \in [Steps -> ExecutionStepState]
      BY <1>12 DEF RecordStatus, ExecTypeOK, ExecutionStepState
    <2> QED
      BY <1>12, <2>1, <2>2 DEF RecordStatus, ExecTypeOK
  <1>13. ASSUME NEW s \in Steps, StepComplete(s) \/ StepFail(s)
         PROVE  ExecTypeOK'
    BY <1>13, ExecutionAssumption, ResolvedCases
    DEF StepComplete, StepFail, Resolve, ExecTypeOK, ExecutionPlanState,
        ExecutionStepState, EffectRequestState, ExecutionAttemptState,
        EffectOutcome, RailState
  <1>14. ASSUME NEW s \in Steps, StepRetry(s)
         PROVE  ExecTypeOK'
    BY <1>14, ExecutionAssumption
    DEF StepRetry, RetryGate, OutcomeExcluded, ExecTypeOK,
        ExecutionPlanState, ExecutionStepState, EffectRequestState,
        ExecutionAttemptState, EffectOutcome, RailState
  <1>15. ASSUME NEW s \in Steps, NEW n \in Numbers, RailRuns(s, n)
         PROVE  ExecTypeOK'
    BY <1>15, ExecutionAssumption
    DEF RailRuns, ExecTypeOK, ExecutionPlanState, ExecutionStepState,
        EffectRequestState, ExecutionAttemptState, EffectOutcome,
        RailState
  <1> QED
    BY <1>1, <1>2, <1>3, <1>4, <1>5, <1>6, <1>7, <1>8,
       <1>9, <1>10, <1>11, <1>12, <1>13, <1>14, <1>15
    DEF Next, StepCommand

(* Every step keeps requests yet to be declared blank. *)
LEMMA BlankNext ==
    ExecTypeOK /\ UndeclaredBlank /\ [Next]_vars
       => UndeclaredBlank'
  <1> SUFFICES ASSUME ExecTypeOK, UndeclaredBlank, [Next]_vars PROVE UndeclaredBlank'
    OBVIOUS
  <1>1. CASE UNCHANGED vars
    BY <1>1, ExecutionAssumption
    DEF vars, ExecTypeOK, UndeclaredBlank, IsLastAttempt, Attempts
  <1>2. CASE PlanCreate
    BY <1>2, ExecutionAssumption
    DEF PlanCreate, ExecTypeOK, UndeclaredBlank, IsLastAttempt, Attempts
  <1>3. CASE PlanAuthorize
    BY <1>3, ExecutionAssumption
    DEF PlanAuthorize, ExecTypeOK, UndeclaredBlank, IsLastAttempt,
        Attempts
  <1>4. CASE PlanStart
    BY <1>4, ExecutionAssumption
    DEF PlanStart, ExecTypeOK, UndeclaredBlank, IsLastAttempt, Attempts
  <1>5. CASE PlanCancel
    BY <1>5, ExecutionAssumption
    DEF PlanCancel, CancelOpenSteps, ExecTypeOK, UndeclaredBlank,
        IsLastAttempt, Attempts
  <1>6. ASSUME NEW s \in Steps, RequestEffect(s)
        PROVE  UndeclaredBlank'
    BY <1>6, ExecutionAssumption
    DEF RequestEffect, Declare, ExecTypeOK, UndeclaredBlank,
        IsLastAttempt, Attempts
  <1>7. ASSUME NEW s \in Steps, StepSubmit(s)
        PROVE  UndeclaredBlank'
    <2>1. PICK q \in EffectRequestState, st \in {"SUBMITTED", "UNKNOWN", "FAILED"},
               a \in ExecutionAttemptState, r \in {"pending", "void"} :
            Answered(s, q, st, a, r)
      BY <1>7, SubmitAnswers
    <2>2. Current(s) \in Numbers
      BY <1>7, SubmitAnswers
    <2> SUFFICES ASSUME NEW t \in Steps, NEW n \in Numbers, n > issued'[t]
                 PROVE  /\ request'[t][n] = "NONE" /\ attempt'[t][n] = "NONE"
                        /\ result'[t][n] = "NONE" /\ n \notin evidence'[t]
                        /\ rail'[t][n] = "none"
      BY DEF UndeclaredBlank
    <2>3. n > issued[t] /\ ~(t = s /\ n = Current(s))
      BY <1>7, <2>2 DEF StepSubmit, ExecTypeOK
    <2> QED
      BY <1>7, <2>1, <2>2, <2>3 DEF StepSubmit, Answered, ExecTypeOK, UndeclaredBlank
  <1>8. ASSUME NEW s \in Steps, StepAcknowledge(s)
        PROVE  UndeclaredBlank'
    BY <1>8, ExecutionAssumption
    DEF StepAcknowledge, Aged, ExecTypeOK, UndeclaredBlank, IsLastAttempt,
        Attempts
  <1>9. ASSUME NEW s \in Steps, StepTimeout(s)
        PROVE  UndeclaredBlank'
    BY <1>9, ExecutionAssumption
    DEF StepTimeout, Aged, ExecTypeOK, UndeclaredBlank, IsLastAttempt,
        Attempts
  <1>10. ASSUME NEW s \in Steps, NEW o \in EffectOutcome, RecordEffectResult(s, o)
         PROVE  UndeclaredBlank'
    <2>1. PICK k \in Numbers : /\ IsLastAttempt(s, k)
                              /\ attempt' = [attempt EXCEPT ![s][k] = o]
      BY <1>10 DEF RecordEffectResult
    <2>2. k <= issued[s]
      BY <2>1, ExecutionAssumption DEF IsLastAttempt, Attempts, UndeclaredBlank, ExecTypeOK
    <2> QED
      BY <1>10, <2>1, <2>2, ExecutionAssumption
      DEF RecordEffectResult, ExecTypeOK, UndeclaredBlank
  <1>11. ASSUME NEW s \in Steps, NEW o \in QueryOutcome, RecordObservation(s, o)
         PROVE  UndeclaredBlank'
    BY <1>11, ExecutionAssumption
    DEF RecordObservation, QueryOutcome, Reports, ExecTypeOK,
        UndeclaredBlank, IsLastAttempt, Attempts
  <1>12. ASSUME NEW s \in Steps, NEW c \in {"RETRY_SAFE", "UNKNOWN"}, RecordStatus(s, c)
         PROVE  UndeclaredBlank'
    <2>1. \A t \in Steps :
             evidence'[t] \subseteq evidence[t] \cup (IF t = s THEN {Current(s)} ELSE {})
      BY <1>12 DEF RecordStatus, Aged, ExecTypeOK
    <2> QED
      BY <1>12, <2>1, ExecutionAssumption DEF RecordStatus, ExecTypeOK, UndeclaredBlank
  <1>13. ASSUME NEW s \in Steps, StepComplete(s) \/ StepFail(s)
         PROVE  UndeclaredBlank'
    BY <1>13, ExecutionAssumption, ResolvedCases
    DEF StepComplete, StepFail, Resolve, ExecTypeOK, UndeclaredBlank,
        IsLastAttempt, Attempts
  <1>14. ASSUME NEW s \in Steps, StepRetry(s)
         PROVE  UndeclaredBlank'
    BY <1>14, ExecutionAssumption
    DEF StepRetry, RetryGate, OutcomeExcluded, ExecTypeOK,
        UndeclaredBlank, IsLastAttempt, Attempts
  <1>15. ASSUME NEW s \in Steps, NEW n \in Numbers, RailRuns(s, n)
         PROVE  UndeclaredBlank'
    BY <1>15, ExecutionAssumption
    DEF RailRuns, ExecTypeOK, UndeclaredBlank, IsLastAttempt, Attempts
  <1> QED
    BY <1>1, <1>2, <1>3, <1>4, <1>5, <1>6, <1>7, <1>8,
       <1>9, <1>10, <1>11, <1>12, <1>13, <1>14, <1>15
    DEF Next, StepCommand

(* Every step keeps what is on offer within a running plan. *)
LEMMA OfferNext ==
    ExecTypeOK /\ UndeclaredBlank /\ OfferedOnlyWhileRunning /\ NoStepsBeforePlan /\ [Next]_vars
       => (OfferedOnlyWhileRunning /\ NoStepsBeforePlan)'
  <1> SUFFICES ASSUME ExecTypeOK, UndeclaredBlank, OfferedOnlyWhileRunning, NoStepsBeforePlan,
                      [Next]_vars
               PROVE  (OfferedOnlyWhileRunning /\ NoStepsBeforePlan)'
    OBVIOUS
  <1>1. CASE UNCHANGED vars
    BY <1>1, ExecutionAssumption
    DEF vars, ExecTypeOK, OfferedOnlyWhileRunning, NoStepsBeforePlan
  <1>2. CASE PlanCreate
    BY <1>2, ExecutionAssumption
    DEF PlanCreate, ExecTypeOK, OfferedOnlyWhileRunning, NoStepsBeforePlan
  <1>3. CASE PlanAuthorize
    BY <1>3, ExecutionAssumption
    DEF PlanAuthorize, ExecTypeOK, OfferedOnlyWhileRunning,
        NoStepsBeforePlan
  <1>4. CASE PlanStart
    BY <1>4, ExecutionAssumption
    DEF PlanStart, ExecTypeOK, OfferedOnlyWhileRunning, NoStepsBeforePlan
  <1>5. CASE PlanCancel
    BY <1>5, ExecutionAssumption
    DEF PlanCancel, CancelOpenSteps, ExecTypeOK, OfferedOnlyWhileRunning,
        NoStepsBeforePlan
  <1>6. ASSUME NEW s \in Steps, RequestEffect(s)
        PROVE  (OfferedOnlyWhileRunning /\ NoStepsBeforePlan)'
    BY <1>6, ExecutionAssumption
    DEF RequestEffect, Declare, ExecTypeOK, OfferedOnlyWhileRunning,
        NoStepsBeforePlan
  <1>7. ASSUME NEW s \in Steps, StepSubmit(s)
        PROVE  (OfferedOnlyWhileRunning /\ NoStepsBeforePlan)'
    <2>1. PICK q \in EffectRequestState \ {"REQUESTED"},
               st \in {"SUBMITTED", "UNKNOWN", "FAILED"},
               a \in ExecutionAttemptState, r \in {"pending", "void"} :
            Answered(s, q, st, a, r)
      BY <1>7, SubmitAnswers
    <2>2. Current(s) \in Numbers /\ step[s] = "PENDING"
      BY <1>7, SubmitAnswers DEF StepSubmit, Submittable
    <2>3. request'[s][Current(s)'] # "REQUESTED"
      BY <1>7, <2>1, <2>2 DEF StepSubmit, Answered, ExecTypeOK
    <2>4. \A t \in Steps \ {s} : /\ request'[t] = request[t] /\ step'[t] = step[t]
                                /\ issued'[t] = issued[t]
      BY <1>7, <2>1 DEF StepSubmit, Answered, ExecTypeOK
    <2> QED
      BY <1>7, <2>2, <2>3, <2>4 DEF StepSubmit, OfferedOnlyWhileRunning, NoStepsBeforePlan
  <1>8. ASSUME NEW s \in Steps, StepAcknowledge(s)
        PROVE  (OfferedOnlyWhileRunning /\ NoStepsBeforePlan)'
    BY <1>8, ExecutionAssumption
    DEF StepAcknowledge, Aged, ExecTypeOK, OfferedOnlyWhileRunning,
        NoStepsBeforePlan
  <1>9. ASSUME NEW s \in Steps, StepTimeout(s)
        PROVE  (OfferedOnlyWhileRunning /\ NoStepsBeforePlan)'
    BY <1>9, ExecutionAssumption
    DEF StepTimeout, Aged, ExecTypeOK, OfferedOnlyWhileRunning,
        NoStepsBeforePlan
  <1>10. ASSUME NEW s \in Steps, NEW o \in EffectOutcome, RecordEffectResult(s, o)
         PROVE  (OfferedOnlyWhileRunning /\ NoStepsBeforePlan)'
    BY <1>10, ExecutionAssumption
    DEF RecordEffectResult, Reports, ExecTypeOK, OfferedOnlyWhileRunning,
        NoStepsBeforePlan
  <1>11. ASSUME NEW s \in Steps, NEW o \in QueryOutcome, RecordObservation(s, o)
         PROVE  (OfferedOnlyWhileRunning /\ NoStepsBeforePlan)'
    BY <1>11, ExecutionAssumption
    DEF RecordObservation, QueryOutcome, Reports, ExecTypeOK,
        OfferedOnlyWhileRunning, NoStepsBeforePlan
  <1>12. ASSUME NEW s \in Steps, NEW c \in {"RETRY_SAFE", "UNKNOWN"}, RecordStatus(s, c)
         PROVE  (OfferedOnlyWhileRunning /\ NoStepsBeforePlan)'
    BY <1>12, ExecutionAssumption
    DEF RecordStatus, Aged, Reports, ExecTypeOK, OfferedOnlyWhileRunning,
        NoStepsBeforePlan
  <1>13. ASSUME NEW s \in Steps, StepComplete(s) \/ StepFail(s)
         PROVE  (OfferedOnlyWhileRunning /\ NoStepsBeforePlan)'
    <2>1. PICK o \in {"SUCCEEDED", "FAILED"} : Resolve(s, o)
      BY <1>13 DEF StepComplete, StepFail
    <2>2. /\ step'[s] = o /\ \A t \in Steps \ {s} : step'[t] = step[t]
          /\ step[s] \notin {"NONE", "PENDING", "CANCELLED"}
          /\ UNCHANGED <<issued, request>>
      BY <2>1 DEF Resolve, ExecTypeOK
    <2>3. CASE plan' = plan
      BY <2>2, <2>3 DEF OfferedOnlyWhileRunning, NoStepsBeforePlan
    <2>4. CASE /\ plan' \in {"COMPLETED", "FAILED"}
               /\ \A t \in Steps : step'[t] \in {"SUCCEEDED", "FAILED"}
      BY <2>2, <2>4 DEF OfferedOnlyWhileRunning, NoStepsBeforePlan
    <2> QED
      BY <2>1, <2>3, <2>4, ResolvedCases DEF Resolve
  <1>14. ASSUME NEW s \in Steps, StepRetry(s)
         PROVE  (OfferedOnlyWhileRunning /\ NoStepsBeforePlan)'
    BY <1>14, ExecutionAssumption
    DEF StepRetry, RetryGate, OutcomeExcluded, ExecTypeOK,
        OfferedOnlyWhileRunning, NoStepsBeforePlan
  <1>15. ASSUME NEW s \in Steps, NEW n \in Numbers, RailRuns(s, n)
         PROVE  (OfferedOnlyWhileRunning /\ NoStepsBeforePlan)'
    BY <1>15, ExecutionAssumption
    DEF RailRuns, ExecTypeOK, OfferedOnlyWhileRunning, NoStepsBeforePlan
  <1> QED
    BY <1>1, <1>2, <1>3, <1>4, <1>5, <1>6, <1>7, <1>8,
       <1>9, <1>10, <1>11, <1>12, <1>13, <1>14, <1>15
    DEF Next, StepCommand

(* The request invariant holds in every reachable state. *)
THEOREM RequestInvariance == Spec => []RequestInv
  <1>1. RequestInv /\ [Next]_vars => RequestInv'
    BY TypeNext, BlankNext, OfferNext DEF RequestInv
  <1> QED
    BY <1>1, RequestInit, PTL DEF Spec

(* The records of plans, steps, requests, attempts and results never leave *)
(* the vocabularies of contracts.py.                                       *)
THEOREM ExecTypeCorrect == Spec => []ExecTypeOK
  BY RequestInvariance, PTL DEF RequestInv

(***************************************************************************)
(* No request reaches the rail unless its plan is RUNNING, although        *)
(* _handle_step_submit never looks at the plan.                            *)
(***************************************************************************)
THEOREM RailOnlyForRunningPlans == Spec => SubmitOnlyWhileRunning
  <1>1. ASSUME RequestInv, [Next]_vars
        PROVE  [\A s \in Steps : \A n \in Numbers :
                  rail[s][n] = "none" /\ rail'[s][n] # "none" => plan = "RUNNING"]_vars
    <2> SUFFICES ASSUME NEW t \in Steps, NEW m \in Numbers, Next,
                        rail[t][m] = "none", rail'[t][m] # "none"
                 PROVE  plan = "RUNNING"
      BY <1>1 DEF vars
    <2>1. CASE UNCHANGED rail
      BY <2>1
    <2>2. ASSUME NEW s \in Steps, StepSubmit(s) PROVE plan = "RUNNING"
      BY <1>1, <2>2 DEF StepSubmit, Submittable, RequestInv, OfferedOnlyWhileRunning
    <2>3. ASSUME NEW s \in Steps, NEW o \in QueryOutcome, RecordObservation(s, o)
          PROVE  plan = "RUNNING"
      <3>1. rail' = [rail EXCEPT ![s][Current(s)] = "void"] \/ rail' = rail
        BY <2>3 DEF RecordObservation
      <3>2. rail' # rail => rail[s][Current(s)] # "none"
        BY <2>3 DEF RecordObservation, Reports, QueryOutcome
      <3>3. rail' # rail /\ Current(s) \in Numbers
        BY <1>1, <2>3, ExecutionAssumption DEF RecordObservation, RequestInv, ExecTypeOK
      <3>4. t = s /\ m = Current(s)
        <4>1. rail \in [Steps -> [Numbers -> RailState]] /\ "void" \in RailState
          BY <1>1 DEF RequestInv, ExecTypeOK, RailState
        <4> HIDE DEF Numbers, Current
        <4>2. rail'[t][m] = IF t = s /\ m = Current(s) THEN "void" ELSE rail[t][m]
          BY <3>1, <3>3, <4>1
        <4> QED
          BY <4>2
      <3> QED
        BY <3>2, <3>3, <3>4
    <2>4. ASSUME NEW s \in Steps, NEW n \in Numbers, RailRuns(s, n) PROVE plan = "RUNNING"
      BY <1>1, <2>4 DEF RailRuns, RequestInv, ExecTypeOK
    <2> QED
      BY <2>1, <2>2, <2>3, <2>4
      DEF Next, StepCommand, PlanCreate, PlanAuthorize, PlanStart, PlanCancel, CancelOpenSteps,
          RequestEffect, Declare, StepAcknowledge, StepTimeout, RecordEffectResult, RecordStatus,
          StepComplete, StepFail, Resolve, StepRetry
  <1> QED
    BY <1>1, RequestInvariance, PTL DEF Spec, SubmitOnlyWhileRunning

-----------------------------------------------------------------------------
(* The initial state satisfies the truth invariant. *)
LEMMA TruthInit == Init => TruthInv
  BY RequestInit, ExecutionAssumption
  DEF Init, TruthInv, RecordsAreTrue, OnlyCurrentLive, IdleOutsideFlight, SuccessRecorded

(* What is recorded stays true of a rail whose NOT_FOUND is final. *)
LEMMA RecordsNext ==
    NotFoundIsFinal /\ RequestInv /\ RecordsAreTrue /\ [Next]_vars
       => RecordsAreTrue'
  <1> SUFFICES ASSUME NotFoundIsFinal, RequestInv, RecordsAreTrue,
                      [Next]_vars
               PROVE  RecordsAreTrue'
    OBVIOUS
  <1>1. CASE UNCHANGED vars
    BY <1>1, ExecutionAssumption
    DEF vars, RequestInv, ExecTypeOK, UndeclaredBlank, RecordsAreTrue
  <1>2. CASE PlanCreate
    BY <1>2, ExecutionAssumption
    DEF PlanCreate, RequestInv, ExecTypeOK, UndeclaredBlank,
        RecordsAreTrue
  <1>3. CASE PlanAuthorize
    BY <1>3, ExecutionAssumption
    DEF PlanAuthorize, RequestInv, ExecTypeOK, UndeclaredBlank,
        RecordsAreTrue
  <1>4. CASE PlanStart
    BY <1>4, ExecutionAssumption
    DEF PlanStart, RequestInv, ExecTypeOK, UndeclaredBlank, RecordsAreTrue
  <1>5. CASE PlanCancel
    BY <1>5, ExecutionAssumption
    DEF PlanCancel, CancelOpenSteps, RequestInv, ExecTypeOK,
        UndeclaredBlank, RecordsAreTrue
  <1>6. ASSUME NEW s \in Steps, RequestEffect(s)
        PROVE  RecordsAreTrue'
    BY <1>6, ExecutionAssumption
    DEF RequestEffect, Declare, RequestInv, ExecTypeOK, UndeclaredBlank,
        RecordsAreTrue
  <1>7. ASSUME NEW s \in Steps, StepSubmit(s)
        PROVE  RecordsAreTrue'
    <2>1. PICK q \in EffectRequestState \ {"REQUESTED"},
               st \in {"SUBMITTED", "UNKNOWN", "FAILED"},
               a \in ExecutionAttemptState, r \in {"pending", "void"} :
            Answered(s, q, st, a, r) /\ (st = "FAILED" => r = "void")
      BY <1>7, SubmitAnswers DEF RequestInv, TruthInv
    <2>2. Current(s) \in Numbers /\ request[s][Current(s)] = "REQUESTED"
      BY <1>7, SubmitAnswers DEF StepSubmit, Submittable, RequestInv, TruthInv
    <2> SUFFICES ASSUME NEW t \in Steps, NEW n \in Numbers
                 PROVE  /\ request'[t][n] = "REQUESTED" =>
                              /\ result'[t][n] = "NONE"
                              /\ n \notin evidence'[t]
                              /\ rail'[t][n] = "none"
                        /\ result'[t][n] = "SUCCEEDED" => rail'[t][n] = "done"
                        /\ result'[t][n] = "FAILED" => rail'[t][n] = "void"
                        /\ n \in evidence'[t] => rail'[t][n] = "void"
      BY DEF RecordsAreTrue
    <2>3. CASE t = s /\ n = Current(s)
      BY <1>7, <2>1, <2>2, <2>3 DEF StepSubmit, Answered, RequestInv, ExecTypeOK, RecordsAreTrue
    <2>4. CASE ~(t = s /\ n = Current(s))
      <3>1. request'[t][n] = request[t][n] /\ rail'[t][n] = rail[t][n]
        BY <2>1, <2>2, <2>4 DEF Answered, RequestInv, ExecTypeOK
      <3> QED
        BY <1>7, <3>1 DEF StepSubmit, RecordsAreTrue
    <2> QED
      BY <2>3, <2>4
  <1>8. ASSUME NEW s \in Steps, StepAcknowledge(s)
        PROVE  RecordsAreTrue'
    <2> SUFFICES ASSUME NEW t \in Steps, NEW n \in Numbers
                 PROVE  /\ request'[t][n] = "REQUESTED" =>
                              /\ result'[t][n] = "NONE"
                              /\ n \notin evidence'[t]
                              /\ rail'[t][n] = "none"
                        /\ result'[t][n] = "SUCCEEDED" => rail'[t][n] = "done"
                        /\ result'[t][n] = "FAILED" => rail'[t][n] = "void"
                        /\ n \in evidence'[t] => rail'[t][n] = "void"
      BY DEF RecordsAreTrue
    <2>1. evidence'[t] \subseteq evidence[t]
      BY <1>8, EvidenceUpdate DEF StepAcknowledge, RequestInv
    <2> QED
      BY <1>8, <2>1 DEF StepAcknowledge, RecordsAreTrue
  <1>9. ASSUME NEW s \in Steps, StepTimeout(s)
        PROVE  RecordsAreTrue'
    <2> SUFFICES ASSUME NEW t \in Steps, NEW n \in Numbers
                 PROVE  /\ request'[t][n] = "REQUESTED" =>
                              /\ result'[t][n] = "NONE"
                              /\ n \notin evidence'[t]
                              /\ rail'[t][n] = "none"
                        /\ result'[t][n] = "SUCCEEDED" => rail'[t][n] = "done"
                        /\ result'[t][n] = "FAILED" => rail'[t][n] = "void"
                        /\ n \in evidence'[t] => rail'[t][n] = "void"
      BY DEF RecordsAreTrue
    <2>1. evidence'[t] \subseteq evidence[t]
      BY <1>9, EvidenceUpdate DEF StepTimeout, RequestInv
    <2> QED
      BY <1>9, <2>1 DEF StepTimeout, RecordsAreTrue
  <1>10. ASSUME NEW s \in Steps, NEW o \in EffectOutcome, RecordEffectResult(s, o)
         PROVE  RecordsAreTrue'
    <2> SUFFICES ASSUME NEW t \in Steps, NEW n \in Numbers
                 PROVE  /\ request'[t][n] = "REQUESTED" =>
                              /\ result'[t][n] = "NONE"
                              /\ n \notin evidence'[t]
                              /\ rail'[t][n] = "none"
                        /\ result'[t][n] = "SUCCEEDED" => rail'[t][n] = "done"
                        /\ result'[t][n] = "FAILED" => rail'[t][n] = "void"
                        /\ n \in evidence'[t] => rail'[t][n] = "void"
      BY DEF RecordsAreTrue
    <2>1. Current(s) \in Numbers
      BY <1>10, ExecutionAssumption DEF RecordEffectResult, RequestInv, ExecTypeOK
    <2>2. /\ result'[t][n] = IF t = s /\ n = Current(s) THEN o ELSE result[t][n]
          /\ request'[t][n] = "REQUESTED" =>
                request[t][n] = "REQUESTED" /\ ~(o # "UNKNOWN" /\ t = s /\ n = Current(s))
      BY <1>10, <2>1 DEF RecordEffectResult, RequestInv, ExecTypeOK
    <2>3. o = "SUCCEEDED" => rail[s][Current(s)] = "done"
      BY <1>10 DEF RecordEffectResult, Reports
    <2>4. o = "FAILED" => rail[s][Current(s)] = "void"
      BY <1>10 DEF RecordEffectResult, Reports
    <2>5. request[s][Current(s)] # "REQUESTED"
      BY <1>10 DEF RecordEffectResult, RequestInv, OfferedOnlyWhileRunning
    <2> QED
      BY <1>10, <2>2, <2>3, <2>4, <2>5 DEF RecordEffectResult, RecordsAreTrue
  <1>11. ASSUME NEW s \in Steps, NEW o \in QueryOutcome, RecordObservation(s, o)
         PROVE  RecordsAreTrue'
    <2> SUFFICES ASSUME NEW t \in Steps, NEW n \in Numbers
                 PROVE  /\ request'[t][n] = "REQUESTED" =>
                              /\ result'[t][n] = "NONE"
                              /\ n \notin evidence'[t]
                              /\ rail'[t][n] = "none"
                        /\ result'[t][n] = "SUCCEEDED" => rail'[t][n] = "done"
                        /\ result'[t][n] = "FAILED" => rail'[t][n] = "void"
                        /\ n \in evidence'[t] => rail'[t][n] = "void"
      BY DEF RecordsAreTrue
    <2>1. Current(s) \in Numbers
      BY <1>11, ExecutionAssumption DEF RecordObservation, RequestInv, ExecTypeOK
    <2>2. CASE o # "NOT_FOUND"
      BY <1>11, <2>2 DEF RecordObservation, RecordsAreTrue
    <2>3. CASE o = "NOT_FOUND"
      <3>1. rail'[t][n] = IF t = s /\ n = Current(s) THEN "void" ELSE rail[t][n]
        BY <1>11, <2>1, <2>3 DEF RecordObservation, RequestInv, ExecTypeOK
      <3>2. n \in evidence'[t] => n \in evidence[t] \/ (t = s /\ n = Current(s))
        BY <1>11, <2>3, EvidenceUpdate DEF RecordObservation, RequestInv
      <3>3. rail[s][Current(s)] \in {"pending", "void"}
        BY <1>11, <2>3 DEF RecordObservation, Reports
      <3>4. request[s][Current(s)] # "REQUESTED"
        BY <1>11 DEF RecordObservation, RequestInv, OfferedOnlyWhileRunning
      <3> QED
        BY <1>11, <3>1, <3>2, <3>3, <3>4 DEF RecordObservation, RecordsAreTrue
    <2> QED
      BY <2>2, <2>3
  <1>12. ASSUME NEW s \in Steps, NEW c \in {"RETRY_SAFE", "UNKNOWN"}, RecordStatus(s, c)
         PROVE  RecordsAreTrue'
    <2> SUFFICES ASSUME NEW t \in Steps, NEW n \in Numbers
                 PROVE  /\ request'[t][n] = "REQUESTED" =>
                              /\ result'[t][n] = "NONE"
                              /\ n \notin evidence'[t]
                              /\ rail'[t][n] = "none"
                        /\ result'[t][n] = "SUCCEEDED" => rail'[t][n] = "done"
                        /\ result'[t][n] = "FAILED" => rail'[t][n] = "void"
                        /\ n \in evidence'[t] => rail'[t][n] = "void"
      BY DEF RecordsAreTrue
    <2>1. CASE c = "UNKNOWN"
      <3>1. evidence'[t] \subseteq evidence[t]
        BY <1>12, <2>1, EvidenceUpdate DEF RecordStatus, RequestInv
      <3> QED
        BY <1>12, <3>1 DEF RecordStatus, RecordsAreTrue
    <2>2. CASE c = "RETRY_SAFE"
      <3>1. n \in evidence'[t] => n \in evidence[t] \/ (t = s /\ n = Current(s))
        BY <1>12, <2>2, EvidenceUpdate DEF RecordStatus, RequestInv
      <3>2. rail[s][Current(s)] = "void" /\ request[s][Current(s)] # "REQUESTED"
        BY <1>12, <2>2 DEF RecordStatus, Reports, RequestInv, OfferedOnlyWhileRunning
      <3> QED
        BY <1>12, <3>1, <3>2 DEF RecordStatus, RecordsAreTrue
    <2> QED
      BY <2>1, <2>2
  <1>13. ASSUME NEW s \in Steps, StepComplete(s) \/ StepFail(s)
         PROVE  RecordsAreTrue'
    BY <1>13, ExecutionAssumption, ResolvedCases
    DEF StepComplete, StepFail, Resolve, RequestInv, ExecTypeOK,
        UndeclaredBlank, RecordsAreTrue
  <1>14. ASSUME NEW s \in Steps, StepRetry(s)
         PROVE  RecordsAreTrue'
    BY <1>14, ExecutionAssumption
    DEF StepRetry, RetryGate, OutcomeExcluded, RequestInv, ExecTypeOK,
        UndeclaredBlank, RecordsAreTrue
  <1>15. ASSUME NEW s \in Steps, NEW n \in Numbers, RailRuns(s, n)
         PROVE  RecordsAreTrue'
    BY <1>15, ExecutionAssumption
    DEF RailRuns, RequestInv, ExecTypeOK, UndeclaredBlank, RecordsAreTrue
  <1> QED
    BY <1>1, <1>2, <1>3, <1>4, <1>5, <1>6, <1>7, <1>8,
       <1>9, <1>10, <1>11, <1>12, <1>13, <1>14, <1>15
    DEF Next, StepCommand

(* Only the current request of a step in flight, or that succeeded, is live. *)
LEMMA LiveNext ==
    NotFoundIsFinal /\ TruthInv /\ [Next]_vars
       => (OnlyCurrentLive /\ IdleOutsideFlight /\ SuccessRecorded)'
  <1> SUFFICES ASSUME NotFoundIsFinal, TruthInv,
                      [Next]_vars
               PROVE  (OnlyCurrentLive /\ IdleOutsideFlight /\ SuccessRecorded)'
    OBVIOUS
  <1>1. CASE UNCHANGED vars
    BY <1>1, ExecutionAssumption
    DEF vars, TruthInv, RequestInv, ExecTypeOK, UndeclaredBlank,
        RecordsAreTrue, OnlyCurrentLive, IdleOutsideFlight,
        SuccessRecorded
  <1>2. CASE PlanCreate
    BY <1>2 DEF PlanCreate, TruthInv, RequestInv, NoStepsBeforePlan,
        OnlyCurrentLive, IdleOutsideFlight, SuccessRecorded
  <1>3. CASE PlanAuthorize
    BY <1>3, ExecutionAssumption
    DEF PlanAuthorize, TruthInv, RequestInv, ExecTypeOK, UndeclaredBlank,
        RecordsAreTrue, OnlyCurrentLive, IdleOutsideFlight,
        SuccessRecorded
  <1>4. CASE PlanStart
    BY <1>4, ExecutionAssumption
    DEF PlanStart, TruthInv, RequestInv, ExecTypeOK, UndeclaredBlank,
        RecordsAreTrue, OnlyCurrentLive, IdleOutsideFlight,
        SuccessRecorded
  <1>5. CASE PlanCancel
    BY <1>5
    DEF PlanCancel, CancelOpenSteps, TruthInv, RequestInv, ExecTypeOK, ExecutionStepState,
        OnlyCurrentLive, IdleOutsideFlight, SuccessRecorded
  <1>6. ASSUME NEW s \in Steps, RequestEffect(s)
        PROVE  (OnlyCurrentLive /\ IdleOutsideFlight /\ SuccessRecorded)'
    BY <1>6, ExecutionAssumption
    DEF RequestEffect, Declare, TruthInv, RequestInv, ExecTypeOK,
        UndeclaredBlank, RecordsAreTrue, OnlyCurrentLive,
        IdleOutsideFlight, SuccessRecorded
  <1>7. ASSUME NEW s \in Steps, StepSubmit(s)
        PROVE  (OnlyCurrentLive /\ IdleOutsideFlight /\ SuccessRecorded)'
    <2>1. PICK q \in EffectRequestState \ {"REQUESTED"},
               st \in {"SUBMITTED", "UNKNOWN", "FAILED"},
               a \in ExecutionAttemptState, r \in {"pending", "void"} :
            Answered(s, q, st, a, r) /\ (st = "FAILED" => r = "void")
      BY <1>7, SubmitAnswers DEF RequestInv, TruthInv
    <2>2. Current(s) \in Numbers /\ request[s][Current(s)] = "REQUESTED"
      BY <1>7, SubmitAnswers DEF StepSubmit, Submittable, RequestInv, TruthInv
    <2>3. /\ \A t \in Steps \ {s} : step'[t] = step[t] /\ rail'[t] = rail[t]
          /\ step'[s] = st
          /\ \A n \in Numbers : rail'[s][n] = IF n = Current(s) THEN r ELSE rail[s][n]
          /\ UNCHANGED <<issued, result>>
      BY <1>7, <2>1, <2>2 DEF StepSubmit, Answered, TruthInv, RequestInv, ExecTypeOK
    <2>4. \A n \in Numbers : ~Live(s, n)
      BY <1>7 DEF StepSubmit, Submittable, TruthInv, IdleOutsideFlight
    <2> QED
      BY <2>1, <2>3, <2>4 DEF TruthInv, OnlyCurrentLive, IdleOutsideFlight, SuccessRecorded
  <1>8. ASSUME NEW s \in Steps, StepAcknowledge(s)
        PROVE  (OnlyCurrentLive /\ IdleOutsideFlight /\ SuccessRecorded)'
    BY <1>8, ExecutionAssumption
    DEF StepAcknowledge, Aged, TruthInv, RequestInv, ExecTypeOK,
        UndeclaredBlank, RecordsAreTrue, OnlyCurrentLive,
        IdleOutsideFlight, SuccessRecorded
  <1>9. ASSUME NEW s \in Steps, StepTimeout(s)
        PROVE  (OnlyCurrentLive /\ IdleOutsideFlight /\ SuccessRecorded)'
    BY <1>9, ExecutionAssumption
    DEF StepTimeout, Aged, TruthInv, RequestInv, ExecTypeOK,
        UndeclaredBlank, RecordsAreTrue, OnlyCurrentLive,
        IdleOutsideFlight, SuccessRecorded
  <1>10. ASSUME NEW s \in Steps, NEW o \in EffectOutcome, RecordEffectResult(s, o)
         PROVE  (OnlyCurrentLive /\ IdleOutsideFlight /\ SuccessRecorded)'
    BY <1>10, ExecutionAssumption
    DEF RecordEffectResult, Reports, TruthInv, RequestInv, ExecTypeOK,
        UndeclaredBlank, RecordsAreTrue, OnlyCurrentLive,
        IdleOutsideFlight, SuccessRecorded
  <1>11. ASSUME NEW s \in Steps, NEW o \in QueryOutcome, RecordObservation(s, o)
         PROVE  (OnlyCurrentLive /\ IdleOutsideFlight /\ SuccessRecorded)'
    BY <1>11, ExecutionAssumption
    DEF RecordObservation, QueryOutcome, Reports, TruthInv, RequestInv,
        ExecTypeOK, UndeclaredBlank, RecordsAreTrue, OnlyCurrentLive,
        IdleOutsideFlight, SuccessRecorded
  <1>12. ASSUME NEW s \in Steps, NEW c \in {"RETRY_SAFE", "UNKNOWN"}, RecordStatus(s, c)
         PROVE  (OnlyCurrentLive /\ IdleOutsideFlight /\ SuccessRecorded)'
    BY <1>12, ExecutionAssumption
    DEF RecordStatus, Aged, Reports, TruthInv, RequestInv, ExecTypeOK,
        UndeclaredBlank, RecordsAreTrue, OnlyCurrentLive,
        IdleOutsideFlight, SuccessRecorded
  <1>13. ASSUME NEW s \in Steps, StepComplete(s) \/ StepFail(s)
         PROVE  (OnlyCurrentLive /\ IdleOutsideFlight /\ SuccessRecorded)'
    <2>1. PICK o \in {"SUCCEEDED", "FAILED"} : Resolve(s, o)
      BY <1>13 DEF StepComplete, StepFail
    <2>2. /\ step'[s] = o /\ \A t \in Steps \ {s} : step'[t] = step[t]
          /\ HasRequest(s) /\ result[s][Current(s)] = o
          /\ UNCHANGED <<issued, result, rail>>
      BY <2>1 DEF Resolve, TruthInv, RequestInv, ExecTypeOK
    <2>3. Current(s) \in Numbers
      BY <2>2, ExecutionAssumption DEF TruthInv, RequestInv, ExecTypeOK
    <2>4. o = "FAILED" => \A n \in Numbers : ~Live(s, n)
      BY <2>2, <2>3 DEF TruthInv, RecordsAreTrue, OnlyCurrentLive
    <2> QED
      BY <2>2, <2>4 DEF TruthInv, OnlyCurrentLive, IdleOutsideFlight, SuccessRecorded
  <1>14. ASSUME NEW s \in Steps, StepRetry(s)
         PROVE  (OnlyCurrentLive /\ IdleOutsideFlight /\ SuccessRecorded)'
    BY <1>14, ExecutionAssumption
    DEF StepRetry, RetryGate, OutcomeExcluded, TruthInv, RequestInv,
        ExecTypeOK, UndeclaredBlank, RecordsAreTrue, OnlyCurrentLive,
        IdleOutsideFlight, SuccessRecorded
  <1>15. ASSUME NEW s \in Steps, NEW n \in Numbers, RailRuns(s, n)
         PROVE  (OnlyCurrentLive /\ IdleOutsideFlight /\ SuccessRecorded)'
    BY <1>15, ExecutionAssumption
    DEF RailRuns, TruthInv, RequestInv, ExecTypeOK, UndeclaredBlank,
        RecordsAreTrue, OnlyCurrentLive, IdleOutsideFlight,
        SuccessRecorded
  <1> QED
    BY <1>1, <1>2, <1>3, <1>4, <1>5, <1>6, <1>7, <1>8,
       <1>9, <1>10, <1>11, <1>12, <1>13, <1>14, <1>15
    DEF Next, StepCommand

(* With a rail whose NOT_FOUND is final, the engine's records stay true. *)
THEOREM TruthInvariance == ASSUME NotFoundIsFinal PROVE Spec => []TruthInv
  <1>1. TruthInv /\ [Next]_vars => TruthInv'
    BY TypeNext, BlankNext, OfferNext, RecordsNext, LiveNext DEF TruthInv, RequestInv
  <1> QED
    BY <1>1, TruthInit, PTL DEF Spec

(***************************************************************************)
(* No double payment: whatever is timed out, queried, reported late and    *)
(* retried, at most one request of a step is live on the rail.             *)
(***************************************************************************)
THEOREM NoDoublePayment == ASSUME NotFoundIsFinal PROVE Spec => []OneLiveEffect
  <1>1. TruthInv => OneLiveEffect
    BY DEF TruthInv, OnlyCurrentLive, OneLiveEffect
  <1> QED
    BY <1>1, TruthInvariance, PTL

(***************************************************************************)
(* What a settled step says is what the rail did: SUCCEEDED means paid,    *)
(* and FAILED, CANCELLED or PENDING means not paid and never to be paid by *)
(* a request already made.                                                 *)
(***************************************************************************)
THEOREM SettledStepsTellTheTruth == ASSUME NotFoundIsFinal PROVE Spec => []SettledStepsAreTrue
  <1>1. ASSUME TruthInv, NEW s \in Steps, step[s] = "SUCCEEDED"
        PROVE  \E n \in Numbers : rail[s][n] = "done"
    <2>1. Current(s) \in Numbers /\ result[s][Current(s)] = "SUCCEEDED"
      BY <1>1, ExecutionAssumption DEF TruthInv, RequestInv, ExecTypeOK, SuccessRecorded
    <2> QED
      BY <1>1, <2>1 DEF TruthInv, RecordsAreTrue
  <1>2. TruthInv => SettledStepsAreTrue
    BY <1>1 DEF TruthInv, IdleOutsideFlight, SettledStepsAreTrue
  <1> QED
    BY <1>2, TruthInvariance, PTL

-----------------------------------------------------------------------------
(* The retry budget. *)

(* A step that may be submitted has an attempt left, though the submit       *)
(* handler does not count: it became PENDING with the plan, before any      *)
(* attempt, or by a retry that counted them.                                *)
AttemptsLeft ==
    \A s \in Steps :
       /\ step[s] = "NONE" => Attempts(s) = {}
       /\ step[s] = "PENDING" => Cardinality(Attempts(s)) < MaxAttempts

BudgetInv == RequestInv /\ AttemptsLeft /\ SubmissionsWithinBudget

(* What a command does to one step's attempts: none is added, and the step   *)
(* is made PENDING with the plan or within the budget; or a PENDING step     *)
(* gets one attempt and stops being PENDING.                                *)
AttemptEffect(s) ==
    \/ /\ Attempts(s)' = Attempts(s)
       /\ step'[s] = "NONE" => step[s] = "NONE"
       /\ step'[s] = "PENDING" =>
             \/ step[s] \in {"NONE", "PENDING"}
             \/ Cardinality(Attempts(s)) < MaxAttempts
    \/ /\ step[s] = "PENDING"
       /\ step'[s] \notin {"NONE", "PENDING"}
       /\ \E n \in Numbers : Attempts(s)' = Attempts(s) \cup {n}

(* Replacing an attempt's state by another keeps the set of attempts. *)
LEMMA AttemptReplaced ==
    ASSUME ExecTypeOK, NEW s \in Steps, NEW n \in Attempts(s),
           NEW a \in ExecutionAttemptState \ {"NONE"},
           attempt' = [attempt EXCEPT ![s][n] = a]
    PROVE  \A t \in Steps : Attempts(t)' = Attempts(t)
  <1>1. n \in Numbers
    BY DEF Attempts
  <1>2. \A t \in Steps : \A m \in Numbers :
           attempt'[t][m] = IF t = s /\ m = n THEN a ELSE attempt[t][m]
    <2>1. /\ a \in ExecutionAttemptState
          /\ attempt \in [Steps -> [Numbers -> ExecutionAttemptState]]
      BY DEF ExecTypeOK
    <2> HIDE DEF Numbers
    <2> QED
      BY <1>1, <2>1, CellUpdate
  <1> HIDE DEF Numbers
  <1> QED
    BY <1>2 DEF Attempts

(* Every command has that effect on every step. *)
LEMMA AttemptEffects ==
    ASSUME ExecTypeOK, NoStepsBeforePlan, [Next]_vars
    PROVE  \A t \in Steps : AttemptEffect(t)
  <1>1. ASSUME attempt' = attempt,
               \A t \in Steps :
                  /\ step'[t] = "NONE" => step[t] = "NONE"
                  /\ step'[t] = "PENDING" =>
                        \/ step[t] \in {"NONE", "PENDING"}
                        \/ Cardinality(Attempts(t)) < MaxAttempts
        PROVE  \A t \in Steps : AttemptEffect(t)
    BY <1>1 DEF AttemptEffect, Attempts
  <1>2. ASSUME NEW s \in Steps, step' = step \/ \E v \in IN_FLIGHT_STEP_STATES : step' = [step EXCEPT ![s] = v],
               NEW n \in Attempts(s), NEW a \in ExecutionAttemptState \ {"NONE"},
               attempt' = [attempt EXCEPT ![s][n] = a]
        PROVE  \A t \in Steps : AttemptEffect(t)
    <2>1. \A t \in Steps : Attempts(t)' = Attempts(t)
      BY <1>2, AttemptReplaced
    <2>2. \A t \in Steps : step'[t] = step[t] \/ step'[t] \in IN_FLIGHT_STEP_STATES
      BY <1>2 DEF ExecTypeOK
    <2> QED
      BY <2>1, <2>2 DEF AttemptEffect
  <1>3. CASE PlanCreate
    BY <1>1, <1>3 DEF PlanCreate, NoStepsBeforePlan
  <1>4. CASE PlanAuthorize \/ PlanStart \/ UNCHANGED vars
    BY <1>1, <1>4 DEF PlanAuthorize, PlanStart, vars
  <1>5. CASE PlanCancel
    BY <1>1, <1>5 DEF PlanCancel, CancelOpenSteps
  <1>6. ASSUME NEW s \in Steps, RequestEffect(s) PROVE \A t \in Steps : AttemptEffect(t)
    BY <1>1, <1>6 DEF RequestEffect, Declare
  <1>7. ASSUME NEW s \in Steps, StepSubmit(s) PROVE \A t \in Steps : AttemptEffect(t)
    <2>1. PICK q \in EffectRequestState, st \in {"SUBMITTED", "UNKNOWN", "FAILED"},
               a \in ExecutionAttemptState \ {"NONE"}, r \in {"pending", "void"} :
            Answered(s, q, st, a, r)
      BY <1>7, SubmitAnswers
    <2>2. Current(s) \in Numbers /\ step[s] = "PENDING"
      BY <1>7, SubmitAnswers DEF StepSubmit, Submittable
    <2>3. \A t \in Steps : \A m \in Numbers :
             attempt'[t][m] = IF t = s /\ m = Current(s) THEN a ELSE attempt[t][m]
      <3>1. /\ a \in ExecutionAttemptState
            /\ attempt \in [Steps -> [Numbers -> ExecutionAttemptState]]
            /\ attempt' = [attempt EXCEPT ![s][Current(s)] = a]
        BY <2>1 DEF Answered, ExecTypeOK
      <3> HIDE DEF Numbers, Current
      <3> QED
        BY <2>2, <3>1, CellUpdate
    <2>4. \A t \in Steps : step'[t] = IF t = s THEN st ELSE step[t]
      BY <2>1 DEF Answered, ExecTypeOK
    <2> HIDE DEF Numbers, Current
    <2>5. Attempts(s)' = Attempts(s) \cup {Current(s)}
      BY <2>2, <2>3 DEF Attempts
    <2>6. \A t \in Steps \ {s} : Attempts(t)' = Attempts(t)
      BY <2>3 DEF Attempts
    <2> QED
      BY <2>2, <2>4, <2>5, <2>6 DEF AttemptEffect
  <1>8. ASSUME NEW s \in Steps, StepAcknowledge(s) PROVE \A t \in Steps : AttemptEffect(t)
    BY <1>2, <1>8 DEF StepAcknowledge, IsLastAttempt, ExecutionAttemptState
  <1>9. ASSUME NEW s \in Steps, StepTimeout(s) PROVE \A t \in Steps : AttemptEffect(t)
    BY <1>2, <1>9 DEF StepTimeout, IsLastAttempt, ExecutionAttemptState
  <1>10. ASSUME NEW s \in Steps, NEW o \in EffectOutcome, RecordEffectResult(s, o)
         PROVE  \A t \in Steps : AttemptEffect(t)
    <2>1. o \in ExecutionAttemptState \ {"NONE"}
      BY DEF EffectOutcome, ExecutionAttemptState
    <2> QED
      BY <1>2, <1>10, <2>1 DEF RecordEffectResult, IsLastAttempt
  <1>11. ASSUME NEW s \in Steps, NEW o \in QueryOutcome, RecordObservation(s, o)
         PROVE  \A t \in Steps : AttemptEffect(t)
    BY <1>1, <1>11 DEF RecordObservation
  <1>12. ASSUME NEW s \in Steps, NEW c \in {"RETRY_SAFE", "UNKNOWN"}, RecordStatus(s, c)
         PROVE  \A t \in Steps : AttemptEffect(t)
    BY <1>1, <1>12 DEF RecordStatus, ExecTypeOK
  <1>13. ASSUME NEW s \in Steps, StepComplete(s) \/ StepFail(s)
         PROVE  \A t \in Steps : AttemptEffect(t)
    BY <1>1, <1>13 DEF StepComplete, StepFail, Resolve, ExecTypeOK
  <1>14. ASSUME NEW s \in Steps, StepRetry(s) PROVE \A t \in Steps : AttemptEffect(t)
    BY <1>1, <1>14 DEF StepRetry, RetryGate, ExecTypeOK
  <1>15. ASSUME NEW s \in Steps, NEW n \in Numbers, RailRuns(s, n)
         PROVE  \A t \in Steps : AttemptEffect(t)
    BY <1>1, <1>15 DEF RailRuns
  <1> QED
    BY <1>3, <1>4, <1>5, <1>6, <1>7, <1>8, <1>9, <1>10, <1>11, <1>12, <1>13, <1>14, <1>15
    DEF Next, StepCommand

(* An attempt more counts for at most one. *)
LEMMA AttemptCount ==
    ASSUME NEW A \in SUBSET Numbers
    PROVE  /\ Cardinality(A) \in Nat
           /\ \A n \in Numbers : Cardinality(A \cup {n}) <= Cardinality(A) + 1
  <1>1. IsFiniteSet(Numbers)
    BY ExecutionAssumption, FS_Interval
  <1> HIDE DEF Numbers
  <1>2. IsFiniteSet(A)
    BY <1>1, FS_Subset
  <1>3. Cardinality(A) \in Nat
    BY <1>2, FS_CardinalityType
  <1>4. \A n \in Numbers :
           Cardinality(A \cup {n}) = IF n \in A THEN Cardinality(A) ELSE Cardinality(A) + 1
    BY <1>2, FS_AddElement
  <1> QED
    BY <1>3, <1>4

(***************************************************************************)
(* However often a step is timed out and retried, and however many         *)
(* requests it is given, it is submitted at most max_attempts times.       *)
(***************************************************************************)
THEOREM RetriesWithinBudget == Spec => []SubmissionsWithinBudget
  <1>1. Init => BudgetInv
    <2> SUFFICES ASSUME Init PROVE BudgetInv
      OBVIOUS
    <2>1. \A s \in Steps : Attempts(s) = {}
      BY DEF Init, Attempts
    <2>2. Cardinality({}) = 0
      BY FS_EmptySet
    <2> QED
      BY <2>1, <2>2, RequestInit, ExecutionAssumption
      DEF BudgetInv, AttemptsLeft, SubmissionsWithinBudget
  <1>2. BudgetInv /\ [Next]_vars => BudgetInv'
    <2> SUFFICES ASSUME BudgetInv, [Next]_vars PROVE BudgetInv'
      OBVIOUS
    <2> USE DEF BudgetInv
    <2>1. RequestInv'
      BY TypeNext, BlankNext, OfferNext DEF RequestInv
    <2>2. ASSUME NEW s \in Steps
          PROVE  /\ step'[s] = "NONE" => Attempts(s)' = {}
                 /\ step'[s] = "PENDING" => Cardinality(Attempts(s)') < MaxAttempts
                 /\ Cardinality(Attempts(s)') <= MaxAttempts
      <3>1. AttemptEffect(s)
        BY AttemptEffects DEF RequestInv
      <3>2. Attempts(s) \in SUBSET Numbers
        BY DEF Attempts
      <3>3. Cardinality({}) = 0
        BY FS_EmptySet
      <3>4. CASE /\ Attempts(s)' = Attempts(s)
                 /\ step'[s] = "NONE" => step[s] = "NONE"
                 /\ step'[s] = "PENDING" =>
                       \/ step[s] \in {"NONE", "PENDING"}
                       \/ Cardinality(Attempts(s)) < MaxAttempts
        BY <3>3, <3>4, ExecutionAssumption DEF AttemptsLeft, SubmissionsWithinBudget
      <3>5. CASE /\ step[s] = "PENDING" /\ step'[s] \notin {"NONE", "PENDING"}
                 /\ \E n \in Numbers : Attempts(s)' = Attempts(s) \cup {n}
        BY <3>2, <3>5, AttemptCount, ExecutionAssumption DEF AttemptsLeft
      <3> QED
        BY <3>1, <3>4, <3>5 DEF AttemptEffect
    <2> QED
      BY <2>1, <2>2 DEF AttemptsLeft, SubmissionsWithinBudget
  <1>3. BudgetInv => SubmissionsWithinBudget
    BY DEF BudgetInv
  <1> QED
    BY <1>1, <1>2, <1>3, PTL DEF Spec

=============================================================================
