----------------------------- MODULE KeyedLocks -----------------------------
(***************************************************************************)
(* The keyed lock manager of src/src/reservation/concurrency.py: one gate  *)
(* per resource key, each with a holder, the queued waiters and a          *)
(* condition variable.  A gate's mutex is held from one blocking point to  *)
(* the next, so every stretch of code between two of them (entry up to     *)
(* condition.wait, wake-up up to the next wait or the grant, time-out,     *)
(* release) is one action.  Threads run locked_all (or locked / acquire    *)
(* for a single key, with a time-out) once each.                           *)
(***************************************************************************)
EXTENDS ResourceKeys

CONSTANTS
    Threads,    \* the threads that compete for keys
    NoThread,   \* "no holder"
    Claim,      \* thread -> its WriterClaim
    KeySets,    \* thread -> the key sets it may ask for
    Timed,      \* threads that call acquire with a timeout
    Signalled,  \* threads whose wait can be interrupted by an exception
    Stalled     \* threads that may stay in their critical section for ever

ASSUME NoThreadAssumption == NoThread \notin Threads
ASSUME ClaimAssumption ==
    \A t \in Threads : Claim[t] \in [at : Int, cmd : Int, actor : Int]
ASSUME KeySetsAssumption ==
    \A t \in Threads : \A S \in KeySets[t] : S \subseteq Keys /\ S # {}

VARIABLES
    holder,     \* key -> the thread whose claim holds the gate
    waiters,    \* key -> threads in the gate's waiters list
    pc,         \* thread -> where it stands in locked_all
    todo,       \* thread -> keys it still has to acquire
    held        \* thread -> keys it has acquired and not yet released

lockVars == <<holder, waiters, pc, todo, held>>

Waiting == {"sleeping", "woken", "timedout"}

PC == {"idle", "entering", "critical", "releasing", "done"} \cup Waiting

LockTypeOK ==
    /\ holder \in [Keys -> Threads \cup {NoThread}]
    /\ waiters \in [Keys -> SUBSET Threads]
    /\ pc \in [Threads -> PC]
    /\ todo \in [Threads -> SUBSET Keys]
    /\ held \in [Threads -> SUBSET Keys]

LockInit ==
    /\ holder = [k \in Keys |-> NoThread]
    /\ waiters = [k \in Keys |-> {}]
    /\ pc = [t \in Threads |-> "idle"]
    /\ todo = [t \in Threads |-> {}]
    /\ held = [t \in Threads |-> {}]

-----------------------------------------------------------------------------
(* Claims and precedence. *)

\* precedence_key: earliest requested_at, then command id, then actor.
Precedes(t, u) ==
    LET a == Claim[t]
        b == Claim[u]
    IN  \/ a.at < b.at
        \/ a.at = b.at /\ a.cmd < b.cmd
        \/ a.at = b.at /\ a.cmd = b.cmd /\ a.actor < b.actor

SameCommand(t, u) == Claim[t].cmd = Claim[u].cmd

\* Mutant of IsWinner: whoever tests first wins.
IsWinnerAny(t, k) == t \in Threads /\ k \in Keys

\* t's claim is the minimum of the gate's waiters (t is, or is about to be, one of them).
IsWinner(t, k) == \A u \in waiters[k] \ {t} : Precedes(t, u)

\* Mutant of Granted: the holder is not looked at.
GrantedBarging(t, k) == IsWinner(t, k)

\* Mutant of Granted: one mutex for all keys.
GrantedGlobal(t, k) == (\A j \in Keys : holder[j] = NoThread) /\ IsWinner(t, k)

\* The grant test of the acquire loop: the gate is free and the winner is t.
Granted(t, k) == holder[k] = NoThread /\ IsWinner(t, k)

\* Reentrant acquisition, or the same command id already queued.
Duplicate(t, k) ==
    \/ holder[k] # NoThread /\ SameCommand(holder[k], t)
    \/ \E u \in waiters[k] : SameCommand(u, t)

\* locked_all takes the sorted key set one key at a time ...
IsNext(t, k) == k \in todo[t] /\ \A j \in todo[t] : k <= j

\* ... and releases what it acquired in reverse.
IsLast(t, k) == k \in held[t] /\ \A j \in held[t] : j <= k

\* condition.notify_all: every thread asleep on gate k must re-run its test.
\* t itself goes on at `next`.
NotifyAll(k, t, next) ==
    [u \in Threads |-> IF u = t THEN next
                       ELSE IF u \in waiters[k] /\ pc[u] = "sleeping" THEN "woken"
                       ELSE pc[u]]

-----------------------------------------------------------------------------
(* The steps of a thread. *)

\* The gate becomes t's; t goes on with its next key, or into the body.
Grant(t, k) ==
    /\ holder' = [holder EXCEPT ![k] = t]
    /\ waiters' = [waiters EXCEPT ![k] = @ \ {t}]
    /\ todo' = [todo EXCEPT ![t] = @ \ {k}]
    /\ held' = [held EXCEPT ![t] = @ \cup {k}]
    /\ pc' = NotifyAll(k, t, IF todo[t] = {k} THEN "critical" ELSE "entering")

\* What an exception leaves to do: the finally clause releases the acquired keys.
Unwind(t) == IF held[t] = {} THEN "done" ELSE "releasing"

\* Mutant of Abandon: the other waiters are not notified.
AbandonSilently(t, k) ==
    /\ waiters' = [waiters EXCEPT ![k] = @ \ {t}]
    /\ todo' = [todo EXCEPT ![t] = {}]
    /\ pc' = [pc EXCEPT ![t] = Unwind(t)]
    /\ UNCHANGED <<holder, held>>

\* t leaves the queue of gate k with an exception, waking the others.
Abandon(t, k) ==
    /\ waiters' = [waiters EXCEPT ![k] = @ \ {t}]
    /\ todo' = [todo EXCEPT ![t] = {}]
    /\ pc' = NotifyAll(k, t, Unwind(t))
    /\ UNCHANGED <<holder, held>>

\* A call of locked_all for the key set S.
Begin(t, S) ==
    /\ pc[t] = "idle"
    /\ todo' = [todo EXCEPT ![t] = S]
    /\ pc' = [pc EXCEPT ![t] = "entering"]
    /\ UNCHANGED <<holder, waiters, held>>

\* Entry to a gate by a claim whose command already holds it or waits for it.
EnterRefused(t, k) ==
    /\ pc[t] = "entering"
    /\ IsNext(t, k)
    /\ Duplicate(t, k)
    /\ todo' = [todo EXCEPT ![t] = {}]
    /\ pc' = [pc EXCEPT ![t] = Unwind(t)]
    /\ UNCHANGED <<holder, waiters, held>>

\* Entry to a gate that grants at once.
EnterGranted(t, k) ==
    /\ pc[t] = "entering"
    /\ IsNext(t, k)
    /\ ~Duplicate(t, k)
    /\ Granted(t, k)
    /\ Grant(t, k)

\* Entry to a gate that does not: the claim is queued and the thread sleeps.
EnterWaits(t, k) ==
    /\ pc[t] = "entering"
    /\ IsNext(t, k)
    /\ ~Duplicate(t, k)
    /\ ~Granted(t, k)
    /\ waiters' = [waiters EXCEPT ![k] = @ \cup {t}]
    /\ pc' = [pc EXCEPT ![t] = "sleeping"]
    /\ UNCHANGED <<holder, todo, held>>

\* A notified thread re-runs the loop's test.
Recheck(t, k) ==
    /\ pc[t] = "woken"
    /\ IsNext(t, k)
    /\ \/ Granted(t, k) /\ Grant(t, k)
       \/ /\ ~Granted(t, k)
          /\ pc' = [pc EXCEPT ![t] = "sleeping"]
          /\ UNCHANGED <<holder, waiters, todo, held>>

\* condition.wait gives up; the thread has yet to take the gate's mutex again.
TimeOut(t) ==
    /\ t \in Timed
    /\ pc[t] = "sleeping"
    /\ pc' = [pc EXCEPT ![t] = "timedout"]
    /\ UNCHANGED <<holder, waiters, todo, held>>

\* The final grant test after a time-out, then the failure.
FinalCheck(t, k) ==
    /\ pc[t] = "timedout"
    /\ IsNext(t, k)
    /\ \/ Granted(t, k) /\ Grant(t, k)
       \/ ~Granted(t, k) /\ Abandon(t, k)

\* An exception raised inside the wait, before or after it was notified.
Interrupt(t, k) ==
    /\ t \in Signalled
    /\ pc[t] \in Waiting
    /\ IsNext(t, k)
    /\ Abandon(t, k)

\* The body of the with statement ends, normally or by an exception.
Leave(t) ==
    /\ pc[t] = "critical"
    /\ pc' = [pc EXCEPT ![t] = "releasing"]
    /\ UNCHANGED <<holder, waiters, todo, held>>

\* Mutant of Release: the waiters are not notified.
ReleaseSilently(t, k) ==
    /\ pc[t] = "releasing"
    /\ IsLast(t, k)
    /\ holder' = [holder EXCEPT ![k] = NoThread]
    /\ held' = [held EXCEPT ![t] = @ \ {k}]
    /\ pc' = [pc EXCEPT ![t] = IF held[t] = {k} THEN "done" ELSE "releasing"]
    /\ UNCHANGED <<waiters, todo>>

\* One turn of the release loop; release fails unless the claim holds the gate.
Release(t, k) ==
    /\ pc[t] = "releasing"
    /\ IsLast(t, k)
    /\ holder[k] # NoThread /\ SameCommand(holder[k], t)
    /\ holder' = [holder EXCEPT ![k] = NoThread]
    /\ held' = [held EXCEPT ![t] = @ \ {k}]
    /\ pc' = NotifyAll(k, t, IF held[t] = {k} THEN "done" ELSE "releasing")
    /\ UNCHANGED <<waiters, todo>>

\* What a thread does of its own accord once the call is made.
GateStep(t) ==
    \E k \in Keys :
        \/ EnterRefused(t, k)
        \/ EnterGranted(t, k)
        \/ EnterWaits(t, k)
        \/ Recheck(t, k)
        \/ FinalCheck(t, k)
        \/ Release(t, k)

\* What the clock or a signal does to it.
Disturb(t) == TimeOut(t) \/ \E k \in Keys : Interrupt(t, k)

LockTerminated == (\A t \in Threads : pc[t] = "done") /\ UNCHANGED lockVars

LockNext ==
    \/ \E t \in Threads :
        \/ \E S \in KeySets[t] : Begin(t, S)
        \/ GateStep(t)
        \/ Leave(t)
        \/ Disturb(t)
    \/ LockTerminated

\* The scheduler runs every runnable thread; a body that is not stalled ends.
LockFairness ==
    /\ \A t \in Threads : WF_lockVars(GateStep(t))
    /\ \A t \in Threads \ Stalled : WF_lockVars(Leave(t))

LockSafetySpec == LockInit /\ [][LockNext]_lockVars

LockSpec == LockSafetySpec /\ LockFairness

-----------------------------------------------------------------------------
(* Properties. *)

\* A gate's holder and the acquired list of the thread inside locked_all agree,
\* so no two threads are ever past the same gate and the release loop
\* (concurrency.py 209-210) is never refused by the ownership test of release.
HolderIsExclusive ==
    \A t \in Threads : \A k \in Keys : k \in held[t] <=> holder[k] = t

\* No lost wake-up: when a gate is free, the waiter that would be granted it is
\* not asleep, whatever mixture of releases, time-outs and interruptions freed
\* the gate (the notify_all calls at 109, 118, 121, 128 and 139).
NoLostWakeup ==
    \A k \in Keys : holder[k] = NoThread =>
        \A t \in waiters[k] : IsWinner(t, k) => pc[t] # "sleeping"

\* Waiting goes up the key order: a thread queued at a gate holds only smaller
\* keys, so a holder that is itself queued waits for a larger key and no cycle
\* of waiting threads can form (the discipline stated by locked_all, 197-199).
WaitsGoUpward ==
    \A k \in Keys : \A t \in waiters[k] :
        /\ \A j \in held[t] : j < k
        /\ \A j \in Keys : holder[k] # NoThread /\ holder[k] \in waiters[j] => k < j

\* No command is ever queued at, or holding, one gate through two threads: the
\* duplicate tests on entry keep command ids unique per gate for its whole life.
OneThreadPerCommand ==
    \A k \in Keys :
        LET present == waiters[k] \cup ({holder[k]} \ {NoThread})
        IN  \A t, u \in present : SameCommand(t, u) => t = u

\* A gate is granted in precedence order: the thread that becomes the holder
\* precedes every claim that stays queued, even one that has been waiting longer.
GrantsFollowPrecedence ==
    [][\A k \in Keys : \A t \in Threads :
          holder'[k] = t /\ holder[k] # t =>
              \A u \in waiters'[k] : Precedes(t, u)]_lockVars

\* Threads none of whose keys is wanted by a stalled thread.
Independent ==
    {t \in Threads : \A s \in Stalled :
        (UNION KeySets[t]) \cap (UNION KeySets[s]) = {}}

\* Every call of locked_all comes back, by its grant or by an exception, unless
\* it wants a key of a thread that never leaves its critical section: a stalled
\* writer holds up nobody on other keys (concurrency.py 5-8: no registry guard or
\* global mutex is held by a gate).
CallsReturn ==
    \A t \in Independent : pc[t] = "entering" ~> pc[t] = "done"

=============================================================================
