-------------------------- MODULE TransitionKernel --------------------------
(***************************************************************************)
(* The command/event kernel every domain engine runs on                    *)
(* (src/src/transition/engine.py, store.py).  process decides one command: *)
(* replay, integrity refusal, recorded rejection (with a rejection event   *)
(* where configured) or acceptance (commit, clock, journal, record).  The  *)
(* authorization, policy and invariant hooks and the handler belong to the *)
(* domains: here they may answer anything.  A handler or a commit that     *)
(* raises leaves the kernel as it was, which is a stuttering step.         *)
(* The kernel's state can be saved and restored together with the store.   *)
(***************************************************************************)
EXTENDS Integers, Sequences

CONSTANTS
    Commands,       \* command envelopes; equality stands for equal digests
    Objects,        \* object ids
    Environment,    \* the environment the kernel is bound to
    KnownTypes,     \* registered command types
    EmitRejections, \* the values of emit_rejection_events kernels are built with
    Seed,           \* object -> the envelope the store starts with, or NoObject
    WithSuffix(_),  \* a command id with "/rejection" appended
    NoObject,       \* "no such object"
    NoEvent,        \* "the result carries no event"
    NoSnapshot      \* "no state saved yet"

CommandIds == {c.id : c \in Commands}

\* f"event/{command_id}" and f"event/{command_id}/rejection": the common prefix
\* tells no two events apart and is left out.
AcceptedEventId(c) == c.id
RejectionEventId(c) == WithSuffix(c.id)

EventNames == {AcceptedEventId(c) : c \in Commands} \cup {RejectionEventId(c) : c \in Commands}

Envelope == [ver : Nat \ {0}, env : STRING, dom : STRING]

ASSUME CommandsAssumption ==
    \A c \in Commands :
        /\ c.env \in STRING /\ c.dom \in STRING
        /\ c.targets \subseteq Objects
        /\ c.expected \in [Objects -> Nat \cup {-1}]
ASSUME SeedAssumption == Seed \in [Objects -> Envelope \cup {NoObject}]
ASSUME NoObjectAssumption == NoObject \notin Envelope
ASSUME NoEventAssumption == NoEvent \notin EventNames
ASSUME SuffixAssumption ==
    \A i, j \in CommandIds : WithSuffix(i) = WithSuffix(j) => i = j
ASSUME EmitAssumption == EmitRejections \subseteq BOOLEAN

VARIABLES
    emits,      \* the kernel's emit_rejection_events
    clock,      \* logical time
    records,    \* the idempotency records
    journal,    \* the journal's events, in order
    objects,    \* object -> current envelope, or NoObject
    saved       \* a saved kernel and store state, or NoSnapshot

kernelVars == <<emits, clock, records, journal, objects, saved>>

\* An event: its id, whether it reports an acceptance, the command that caused
\* it, the object versions it names and its logical time.
Event ==
    [id : EventNames, accepted : BOOLEAN, cause : CommandIds,
     versions : [Objects -> Nat], time : Nat \ {0}]

\* An idempotency record: the command (for its digest) and the result's event,
\* by its id: an event never changes once it is in the journal.
IdempotencyRecord ==
    [command : Commands, accepted : BOOLEAN, event : EventNames \cup {NoEvent}]

KernelTypeOK ==
    /\ clock \in Nat
    /\ records \subseteq IdempotencyRecord
    /\ journal \in Seq(Event)
    /\ objects \in [Objects -> Envelope \cup {NoObject}]

KernelInit ==
    /\ emits \in EmitRejections
    /\ clock = 0
    /\ records = {}
    /\ journal = <<>>
    /\ objects = Seed
    /\ saved = NoSnapshot

-----------------------------------------------------------------------------

SeenById(c) == {r \in records : r.command.id = c.id}
SeenByKey(c) == {r \in records : r.command.key = c.key}

\* Stage 1: the command is new, and so is its idempotency key.
Fresh(c) == SeenById(c) = {} /\ SeenByKey(c) = {}

VersionOf(o) == IF objects[o] = NoObject THEN 0 ELSE objects[o].ver

\* expected_versions; -1 stands for "not declared".
Declared(c) == {o \in Objects : c.expected[o] # -1}

\* Stage 5: declared references and expected versions.
PreconditionsHold(c) ==
    /\ \A o \in c.targets \cup Declared(c) :
          objects[o] # NoObject =>
              objects[o].env = c.env /\ objects[o].dom = c.dom
    /\ \A o \in Declared(c) : c.expected[o] = VersionOf(o)

\* Stages 2, 3 and 5 together.
Acceptable(c) ==
    /\ c.env = Environment
    /\ c.type \in KnownTypes
    /\ PreconditionsHold(c)

\* Mutant of Remember: the idempotency record of a rejection is dropped.
RememberAccepted(c, accepted, event) ==
    records' = records \cup
        {r \in {[command |-> c, accepted |-> accepted, event |-> event]} : accepted}

\* Mutant of Remember: the record is kept without the event it refers to.
RememberOtherEvent(c, accepted, event) ==
    records' = records \cup
        {[command |-> c, accepted |-> accepted, event |-> RejectionEventId(c)]}

\* _record.
Remember(c, accepted, event) ==
    records' = records \cup {[command |-> c, accepted |-> accepted, event |-> event]}

\* An event at the next logical time.
Emit(c, id, accepted, versions) ==
    /\ clock' = clock + 1
    /\ journal' = Append(journal,
          [id |-> id, accepted |-> accepted, cause |-> c.id,
           versions |-> versions, time |-> clock + 1])

\* A replay, a reused command id or a reused idempotency key: an answer and no
\* change (_duplicate, _input_integrity_rejection).
Answer(c) == ~Fresh(c) /\ UNCHANGED kernelVars

\* _reject, for a failed stage or because a hook said no.
Reject(c) ==
    /\ Fresh(c)
    /\ \/ /\ emits
          /\ Emit(c, RejectionEventId(c), FALSE,
                  [o \in Objects |-> IF o \in c.targets THEN VersionOf(o) ELSE 0])
          /\ Remember(c, FALSE, RejectionEventId(c))
       \/ /\ ~emits
          /\ Remember(c, FALSE, NoEvent)
          /\ UNCHANGED <<clock, journal>>
    /\ UNCHANGED <<emits, objects, saved>>

\* MemoryStateStore.commit: each resulting envelope is the next version.
NextEnvelope(c, o) ==
    [ver |-> VersionOf(o) + 1, env |-> c.env, dom |-> c.dom]

\* ... of the same identity.
IdentityKept(c, o) ==
    objects[o] # NoObject => objects[o].env = c.env /\ objects[o].dom = c.dom

\* Stages 7 to 9: the handler rewrote the targets in `changed`.
Accept(c, changed) ==
    /\ Fresh(c)
    /\ Acceptable(c)
    /\ \A o \in changed : IdentityKept(c, o)
    /\ Emit(c, AcceptedEventId(c), TRUE,
            [o \in Objects |-> IF o \in changed THEN VersionOf(o) + 1 ELSE 0])
    /\ objects' = [o \in Objects |-> IF o \in changed THEN NextEnvelope(c, o) ELSE objects[o]]
    /\ Remember(c, TRUE, AcceptedEventId(c))
    /\ UNCHANGED <<emits, saved>>

-----------------------------------------------------------------------------
(* EngineState: the kernel state s = [clock, records, journal] that may be saved. *)

EventIdsDistinct(s) ==
    \A i, j \in DOMAIN s.journal : s.journal[i].id = s.journal[j].id => i = j

RecordsDistinct(s) ==
    \A q, r \in s.records :
        q.command.id = r.command.id \/ q.command.key = r.command.key => q = r

RecordsEchoJournal(s) ==
    \A r \in s.records : r.event # NoEvent =>
        \E i \in DOMAIN s.journal : s.journal[i].id = r.event

TimesIncrease(s) ==
    /\ \A i, j \in DOMAIN s.journal : i < j => s.journal[i].time < s.journal[j].time
    /\ \A i \in DOMAIN s.journal : s.journal[i].time \in 1..s.clock

EngineStateValid(s) ==
    EventIdsDistinct(s) /\ RecordsDistinct(s) /\ RecordsEchoJournal(s) /\ TimesIncrease(s)

Kernel == [clock |-> clock, records |-> records, journal |-> journal]

\* snapshot_state, taken with the store's snapshot; it raises on an invalid state.
Snapshot ==
    /\ EngineStateValid(Kernel)
    /\ saved' = [kernel |-> Kernel, objects |-> objects]
    /\ UNCHANGED <<emits, clock, records, journal, objects>>

\* Mutant of Restore: the journal is not restored.
RestoreWithoutJournal ==
    /\ saved # NoSnapshot
    /\ clock' = saved.kernel.clock
    /\ records' = saved.kernel.records
    /\ objects' = saved.objects
    /\ emits' \in EmitRejections
    /\ UNCHANGED <<saved, journal>>

\* restore_state in a restarted process, whose kernel may be built the other way.
Restore ==
    /\ saved # NoSnapshot
    /\ clock' = saved.kernel.clock
    /\ records' = saved.kernel.records
    /\ journal' = saved.kernel.journal
    /\ objects' = saved.objects
    /\ emits' \in EmitRejections
    /\ UNCHANGED saved

Process(c) ==
    \/ Answer(c)
    \/ Reject(c)
    \/ \E changed \in SUBSET c.targets \ {{}} : Accept(c, changed)

KernelNext == (\E c \in Commands : Process(c)) \/ Snapshot \/ Restore

KernelSpec == KernelInit /\ [][KernelNext]_kernelVars

-----------------------------------------------------------------------------
(* Properties. *)

\* Two decided commands whose events have one id: the one was accepted, its id
\* is that of the other with "/rejection" appended, and the other was rejected
\* with an event.
EventsClash ==
    \E q, r \in records :
        /\ q.accepted /\ ~r.accepted /\ r.event # NoEvent
        /\ q.command.id = WithSuffix(r.command.id)

\* The kernel can be saved, whatever sequence of decisions and restarts led
\* here, unless the events of two commands clash: else event ids are unique, no
\* command or idempotency key is decided twice, every record refers to a
\* journalled event and logical time strictly increases (EngineState, engine.py
\* 295-332).  After a clash no snapshot can be taken.
SnapshotRefusedOnClash == EngineStateValid(Kernel) <=> ~EventsClash

\* The journal explains the store: every version of every object beyond its
\* seed was produced by exactly one accepted event, and no accepted event
\* names a version the store does not have.
JournalExplainsStore ==
    \A o \in Objects :
        LET seeded == IF Seed[o] = NoObject THEN 0 ELSE Seed[o].ver
            steps == {i \in DOMAIN journal : journal[i].accepted /\ journal[i].versions[o] # 0}
        IN  /\ {journal[i].versions[o] : i \in steps} = (seeded + 1)..VersionOf(o)
            /\ \A i, j \in steps : i < j => journal[i].versions[o] < journal[j].versions[o]

\* A command is decided once: whatever is resubmitted, rejected, accepted or
\* restored, the journal never holds two events caused by one command id.
OneEventPerCommand ==
    \A i, j \in DOMAIN journal : journal[i].cause = journal[j].cause => i = j

=============================================================================
