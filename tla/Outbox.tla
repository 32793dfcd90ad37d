-------------------------------- MODULE Outbox --------------------------------
(***************************************************************************)
(* The transactional outbox: the relay of outbox.service.ts turns PENDING  *)
(* rows of outbox_events into jobs of the queue "outbox", and the workers  *)
(* of outbox.processor.ts handle them, among them the notifications that   *)
(* push-dispatch.service.ts sends to the devices of a customer.            *)
(*                                                                         *)
(* A job has the id of its event.  BullMQ ignores add() while a job of     *)
(* that id exists, a finished one included; it keeps the last              *)
(* KeepCompleted and KeepFailed of those.  A job whose worker does not     *)
(* renew its lock is stalled: it is handed out again, at most MaxStalls    *)
(* times, and the first worker, if it lives, goes on with it.              *)
(*                                                                         *)
(* What the handlers of READY_FOR_PICKUP and refund.initiated do is in     *)
(* Dispatch and in Payments; here they take effect or throw.  An event of  *)
(* Poison may make its handler throw any number of times.                  *)
(***************************************************************************)
EXTENDS Naturals, FiniteSets

CONSTANTS
    Events,          \* ids that outbox_events can use
    Notifications,   \* those for handleNotification, of one customer
    Poison,          \* those whose handler may throw whenever it runs
    Devices,         \* the customer's devices
    Tokens,          \* push tokens the push service can issue
    Workers,         \* jobs that can be in progress at a time
    Window,          \* rows the relay takes, 100
    MaxAttempts,     \* attempts of a job, 5
    MaxStalls,       \* maxStalledCount of BullMQ, 1
    KeepCompleted,   \* removeOnComplete, 100
    KeepFailed,      \* removeOnFail, 50
    MaxFaults,       \* crashes, stalls and transient errors
    NoToken          \* devices.pushToken IS NULL, or the device is revoked

ASSUME OutboxAssumption ==
    /\ IsFiniteSet(Events)
    /\ Notifications \subseteq Events /\ Poison \subseteq Events
    /\ MaxAttempts \in Nat \ {0} /\ MaxStalls \in Nat
    /\ KeepCompleted \in Nat \ {0} /\ KeepFailed \in Nat \ {0}
    /\ MaxFaults \in Nat
    /\ NoToken \notin Tokens

VARIABLES
    created,     \* the place of an event in the order of createdAt, 0: no row
    processed,   \* the events with status PROCESSED
    batch,       \* what relayPendingEvents has read and not added yet
    job,         \* the job of each event
    work,        \* what each worker is doing
    effective,   \* events whose handler has returned at least once
    history,     \* events with a row in notifications
    token,       \* devices.pushToken
    refused,     \* tokens the push service does not know any more
    received,    \* which event a token was sent
    reachable,   \* which devices could be reached, with which token, since a
                 \* notification was recorded
    faults       \* crashes, stalls and transient errors so far

queueVars == <<batch, job>>
deviceVars == <<token, refused>>
vars == <<created, processed, batch, job, work, effective, history, token, refused,
          received, reachable, faults>>

-----------------------------------------------------------------------------
(* Jobs and workers.                                                       *)

NoJob == [state |-> "none"]
Waiting(attempts, stalls) == [state |-> "waiting", attempts |-> attempts, stalls |-> stalls]
NewJob == Waiting(0, 0)

JobRecord ==
    {NoJob}
    \cup [state : {"waiting"}, attempts : 0 .. MaxAttempts - 1, stalls : 0 .. MaxStalls]
    \cup [state : {"active"}, attempts : 0 .. MaxAttempts - 1, stalls : 0 .. MaxStalls,
          owner : Workers]
    \cup [state : {"completed"}, age : 0 .. KeepCompleted - 1]
    \cup [state : {"failed"}, age : 0 .. KeepFailed - 1]

Idle == [pc |-> "idle"]

WorkRecord ==
    {Idle}
    \cup [pc : {"taken", "handling", "handled", "closed", "thrown"}, event : Events]
    \cup [pc : {"pushing"}, event : Events, left : SUBSET (Devices \X Tokens),
          invalid : SUBSET Devices, failed : BOOLEAN]

Recorded == {e \in Events : created[e] > 0}
Pending == Recorded \ processed

\* The rows the relay takes: the oldest PENDING ones.
Oldest == {e \in Pending :
             Cardinality({f \in Pending : created[f] < created[e]}) < Window}

Owns(w, e) == job[e].state = "active" /\ job[e].owner = w
WorkingOn(w, e) == work[w] # Idle /\ work[w].event = e

\* A job that finishes joins the last `keep' ones of its kind.
Finished(e, state, keep) ==
    [f \in Events |->
        IF f = e THEN [state |-> state, age |-> 0]
        ELSE IF job[f].state # state THEN job[f]
        ELSE IF job[f].age + 1 < keep THEN [job[f] EXCEPT !.age = @ + 1]
        ELSE NoJob]

Becomes(w, record) == work' = [work EXCEPT ![w] = record]
Goes(w, pc) == Becomes(w, [pc |-> pc, event |-> work[w].event])
Fault == faults < MaxFaults /\ faults' = faults + 1

-----------------------------------------------------------------------------
(* Events and devices.                                                     *)

Targets == {dt \in Devices \X Tokens : token[dt[1]] = dt[2]}
Reached == {dt \in Targets : dt[2] \notin refused}

\* An event is inserted by the transaction of the change it tells of.
Record(e) ==
    /\ created[e] = 0
    /\ created' = [created EXCEPT ![e] = Cardinality(Recorded) + 1]
    /\ reachable' = [reachable EXCEPT ![e] = IF e \in Notifications THEN Reached ELSE {}]
    /\ UNCHANGED <<processed, queueVars, work, effective, history, deviceVars, received,
                   faults>>

\* A device that has lost its token at one time cannot be reached ever since.
Lost(pairs) == reachable' = [e \in Events |-> reachable[e] \ pairs]

\* updatePushToken: a phone that logs in again gets a new row in devices and
\* registers the token it has.
UpdatePushToken(d, t) ==
    /\ t \notin refused
    /\ token' = [token EXCEPT ![d] = t]
    /\ Lost({d} \X (Tokens \ {t}))
    /\ UNCHANGED <<created, processed, queueVars, work, effective, history, refused,
                   received, faults>>

\* logout, revokeDevice: the row of the device is not looked at any more.
Revoke(d) ==
    /\ token[d] # NoToken
    /\ token' = [token EXCEPT ![d] = NoToken]
    /\ Lost({d} \X Tokens)
    /\ UNCHANGED <<created, processed, queueVars, work, effective, history, refused,
                   received, faults>>

\* The app is removed, or has been given a new token: the push service refuses
\* the old one from now on.
Unregister(t) ==
    /\ t \notin refused
    /\ refused' = refused \cup {t}
    /\ Lost(Devices \X {t})
    /\ UNCHANGED <<created, processed, queueVars, work, effective, history, token,
                   received, faults>>

-----------------------------------------------------------------------------
(* outbox.service.ts: relayPendingEvents                                   *)

RelayRead ==
    /\ batch = {}
    /\ batch' = Oldest
    /\ UNCHANGED <<created, processed, job, work, effective, history, deviceVars,
                   received, reachable, faults>>

RelayAdd(e) ==
    /\ e \in batch
    /\ batch' = batch \ {e}
    /\ job' = IF job[e] = NoJob THEN [job EXCEPT ![e] = NewJob] ELSE job
    /\ UNCHANGED <<created, processed, work, effective, history, deviceVars, received,
                   reachable, faults>>

\* add() throws, or the process stops between the query and the add.
RelayFails(e) ==
    /\ e \in batch
    /\ batch' = batch \ {e}
    /\ Fault
    /\ UNCHANGED <<created, processed, job, work, effective, history, deviceVars,
                   received, reachable>>

-----------------------------------------------------------------------------
(* The queue.                                                              *)

Take(w, e) ==
    /\ work[w] = Idle
    /\ job[e].state = "waiting"
    /\ job' = [job EXCEPT ![e] = [state |-> "active", attempts |-> @.attempts,
                                  stalls |-> @.stalls, owner |-> w]]
    /\ Becomes(w, [pc |-> "taken", event |-> e])
    /\ UNCHANGED <<created, processed, batch, effective, history, deviceVars, received,
                   reachable, faults>>

\* What happens to a job is decided by the worker that holds its lock.
Complete(w) ==
    LET e == work[w].event IN
    /\ work[w].pc = "closed"
    /\ job' = IF Owns(w, e) THEN Finished(e, "completed", KeepCompleted) ELSE job
    /\ Becomes(w, Idle)
    /\ UNCHANGED <<created, processed, batch, effective, history, deviceVars, received,
                   reachable, faults>>

AttemptFails(e) ==
    IF job[e].attempts + 1 < MaxAttempts
    THEN [job EXCEPT ![e] = Waiting(job[e].attempts + 1, job[e].stalls)]
    ELSE Finished(e, "failed", KeepFailed)

\* Mutant of Fail: the error is recorded and not thrown again.
FailQuietly(w) ==
    LET e == work[w].event IN
    /\ work[w].pc = "thrown"
    /\ job' = IF Owns(w, e) THEN Finished(e, "completed", KeepCompleted) ELSE job
    /\ Becomes(w, Idle)
    /\ UNCHANGED <<created, processed, batch, effective, history, deviceVars, received,
                   reachable, faults>>

\* process writes the error to the row and throws it again.
Fail(w) ==
    LET e == work[w].event IN
    /\ work[w].pc = "thrown"
    /\ job' = IF Owns(w, e) THEN AttemptFails(e) ELSE job
    /\ Becomes(w, Idle)
    /\ UNCHANGED <<created, processed, batch, effective, history, deviceVars, received,
                   reachable, faults>>

Crash(w) ==
    /\ work[w] # Idle
    /\ Fault
    /\ Becomes(w, Idle)
    /\ UNCHANGED <<created, processed, queueVars, effective, history, deviceVars,
                   received, reachable>>

HandOut(e) ==
    job' = IF job[e].stalls < MaxStalls
           THEN [job EXCEPT ![e] = Waiting(job[e].attempts, job[e].stalls + 1)]
           ELSE Finished(e, "failed", KeepFailed)

\* The worker has died.
Recover(e) ==
    /\ job[e].state = "active"
    /\ ~WorkingOn(job[e].owner, e)
    /\ HandOut(e)
    /\ UNCHANGED <<created, processed, batch, work, effective, history, deviceVars,
                   received, reachable, faults>>

\* The worker lives and is late with its lock.
Stall(e) ==
    /\ job[e].state = "active"
    /\ WorkingOn(job[e].owner, e)
    /\ Fault
    /\ HandOut(e)
    /\ UNCHANGED <<created, processed, batch, work, effective, history, deviceVars,
                   received, reachable>>

-----------------------------------------------------------------------------
(* outbox.processor.ts: process                                            *)

\* The row is read without a lock.
Lookup(w) ==
    /\ work[w].pc = "taken"
    /\ Goes(w, IF work[w].event \in processed THEN "closed" ELSE "handling")
    /\ UNCHANGED <<created, processed, queueVars, effective, history, deviceVars,
                   received, reachable, faults>>

\* The handlers of READY_FOR_PICKUP and refund.initiated, and of unknown types.
HandleOther(w) ==
    LET e == work[w].event IN
    /\ work[w].pc = "handling"
    /\ e \notin Notifications
    /\ effective' = effective \cup {e}
    /\ Goes(w, "handled")
    /\ UNCHANGED <<created, processed, queueVars, history, deviceVars, received,
                   reachable, faults>>

\* Mutant of HandlePoison: the handler catches the error.
HandlePoisonQuietly(w) ==
    /\ work[w].pc = "handling"
    /\ work[w].event \in Poison
    /\ Goes(w, "handled")
    /\ UNCHANGED <<created, processed, queueVars, effective, history, deviceVars,
                   received, reachable, faults>>

HandlePoison(w) ==
    /\ work[w].pc = "handling"
    /\ work[w].event \in Poison
    /\ Goes(w, "thrown")
    /\ UNCHANGED <<created, processed, queueVars, effective, history, deviceVars,
                   received, reachable, faults>>

\* Mutant of HandleNotification: a row that is there already (23505) is an error.
HandleNotificationOnce(w) ==
    LET e == work[w].event IN
    /\ work[w].pc = "handling"
    /\ e \in Notifications
    /\ history' = history \cup {e}
    /\ IF e \in history
       THEN Goes(w, "thrown")
       ELSE Becomes(w, [pc |-> "pushing", event |-> e, left |-> Targets, invalid |-> {},
                        failed |-> FALSE])
    /\ UNCHANGED <<created, processed, queueVars, effective, deviceVars, received,
                   reachable, faults>>

\* The row in notifications is inserted, or found there (23505); then
\* dispatchToUser reads the devices.
HandleNotification(w) ==
    LET e == work[w].event IN
    /\ work[w].pc = "handling"
    /\ e \in Notifications
    /\ history' = history \cup {e}
    /\ Becomes(w, [pc |-> "pushing", event |-> e, left |-> Targets, invalid |-> {},
                   failed |-> FALSE])
    /\ UNCHANGED <<created, processed, queueVars, effective, deviceVars, received,
                   reachable, faults>>

\* The row is PROCESSED when everything the event asks for is done.
MarkProcessed(w) ==
    /\ work[w].pc = "handled"
    /\ processed' = processed \cup {work[w].event}
    /\ Goes(w, "closed")
    /\ UNCHANGED <<created, queueVars, effective, history, deviceVars, received,
                   reachable, faults>>

-----------------------------------------------------------------------------
(* push-dispatch.service.ts: dispatchToUser                                *)

Sent(w, dt) == [work[w] EXCEPT !.left = @ \ {dt}]

Push(w, dt) ==
    /\ work[w].pc = "pushing"
    /\ dt \in work[w].left
    /\ \/ /\ dt[2] \notin refused
          /\ received' = received \cup {<<work[w].event, dt[2]>>}
          /\ Becomes(w, Sent(w, dt))
          /\ UNCHANGED faults
       \/ /\ dt[2] \in refused
          /\ Becomes(w, [Sent(w, dt) EXCEPT !.invalid = @ \cup {dt[1]}])
          /\ UNCHANGED <<received, faults>>
       \/ /\ Fault
          /\ Becomes(w, [Sent(w, dt) EXCEPT !.failed = TRUE])
          /\ UNCHANGED received
    /\ UNCHANGED <<created, processed, queueVars, effective, history, deviceVars,
                   reachable>>

\* deactivateInvalidToken clears whatever token the row has by now.
Deactivate(w, d) ==
    /\ work[w].pc = "pushing"
    /\ d \in work[w].invalid
    /\ token' = [token EXCEPT ![d] = NoToken]
    /\ Lost({d} \X Tokens)
    /\ Becomes(w, [work[w] EXCEPT !.invalid = @ \ {d}])
    /\ UNCHANGED <<created, processed, queueVars, effective, history, refused, received,
                   faults>>

Settled(w) ==
    /\ work[w].pc = "pushing"
    /\ work[w].left = {}
    /\ work[w].invalid = {}

\* Mutant of Dispatched: rejections are not looked at after allSettled.
DispatchedAnyway(w) ==
    /\ Settled(w)
    /\ effective' = effective \cup {work[w].event}
    /\ Goes(w, "handled")
    /\ UNCHANGED <<created, processed, queueVars, history, deviceVars, received,
                   reachable, faults>>

Dispatched(w) ==
    /\ Settled(w)
    /\ ~work[w].failed
    /\ effective' = effective \cup {work[w].event}
    /\ Goes(w, "handled")
    /\ UNCHANGED <<created, processed, queueVars, history, deviceVars, received,
                   reachable, faults>>

\* One rejection makes the job repeat all of it.
Rejected(w) ==
    /\ Settled(w)
    /\ work[w].failed
    /\ Goes(w, "thrown")
    /\ UNCHANGED <<created, processed, queueVars, effective, history, deviceVars,
                   received, reachable, faults>>

-----------------------------------------------------------------------------
Init ==
    /\ created = [e \in Events |-> 0]
    /\ processed = {}
    /\ batch = {}
    /\ job = [e \in Events |-> NoJob]
    /\ work = [w \in Workers |-> Idle]
    /\ effective = {}
    /\ history = {}
    /\ token = [d \in Devices |-> NoToken]
    /\ refused = {}
    /\ received = {}
    /\ reachable = [e \in Events |-> {}]
    /\ faults = 0

Handle(w) ==
    \/ Lookup(w) \/ HandleOther(w) \/ HandlePoison(w) \/ HandleNotification(w)
    \/ MarkProcessed(w) \/ Dispatched(w) \/ Rejected(w) \/ Complete(w) \/ Fail(w)
    \/ \E dt \in Devices \X Tokens : Push(w, dt)
    \/ \E d \in Devices : Deactivate(w, d)

DeviceStep ==
    \/ \E t \in Tokens : Unregister(t) \/ \E d \in Devices : UpdatePushToken(d, t)
    \/ \E d \in Devices : Revoke(d)

Next ==
    \/ RelayRead
    \/ \E e \in Events :
          \/ Record(e) \/ RelayAdd(e) \/ RelayFails(e) \/ Recover(e) \/ Stall(e)
          \/ \E w \in Workers : Take(w, e)
    \/ \E w \in Workers : Handle(w) \/ Crash(w)
    \/ DeviceStep

Spec == Init /\ [][Next]_vars

\* The relay comes back every five seconds and adds what it has read; workers
\* finish what they start; a job that waits is taken in its turn; BullMQ looks
\* for jobs whose worker has died.
Fairness ==
    /\ WF_vars(RelayRead)
    /\ \A e \in Events :
          /\ WF_vars(RelayAdd(e))
          /\ WF_vars(Recover(e))
          /\ SF_vars(\E w \in Workers : Take(w, e))
    /\ \A w \in Workers : WF_vars(Handle(w))

FairSpec == Spec /\ Fairness

-----------------------------------------------------------------------------
TypeOK ==
    /\ created \in [Events -> Nat]
    /\ processed \subseteq Events
    /\ batch \subseteq Events
    /\ job \in [Events -> JobRecord]
    /\ work \in [Workers -> WorkRecord]
    /\ effective \subseteq Events
    /\ history \subseteq Events
    /\ token \in [Devices -> Tokens \cup {NoToken}]
    /\ refused \subseteq Tokens
    /\ received \subseteq Events \X Tokens
    /\ reachable \in [Events -> SUBSET (Devices \X Tokens)]
    /\ faults \in Nat

\* A job that has completed keeps its id, and add() does nothing for it: only an
\* event that needs no job any more may be in that state, whichever of the
\* workers that were handed it has finished first (outbox.service.ts:63).
CompletedIsProcessed ==
    \A e \in Events : job[e].state = "completed" => e \in processed

\* An event that is PROCESSED was sent to every device that could be reached with
\* the same token from the time it was recorded: neither an error of another
\* device, nor a crash, nor a second worker makes it skip one
\* (push-dispatch.service.ts:59).
NobodyIsSkipped ==
    \A e \in processed \cap Notifications :
        \A dt \in reachable[e] : <<e, dt[2]>> \in received

\* The job of a healthy event fails only after as many faults as it has
\* attempts, or more than it may stall.  A handler that runs again finds what it
\* did before and goes on (outbox.processor.ts:168).
GivenUpAfterFaults ==
    \A e \in Events \ Poison : job[e].state = "failed" =>
        faults >= MaxAttempts \/ faults > MaxStalls

-----------------------------------------------------------------------------
(* What the workers rely on: the inductive invariant.                      *)

\* Jobs, workers and marks are about rows that exist.
AboutRecorded ==
    /\ \A e \in Events : job[e] # NoJob => e \in Recorded
    /\ \A w \in Workers : work[w] # Idle => work[w].event \in Recorded
    /\ batch \cup effective \cup processed \subseteq Recorded

\* A worker marks an event PROCESSED after its effect, and completes its job
\* after the mark.
WorkersInOrder ==
    /\ processed \subseteq effective
    /\ \A w \in Workers :
          /\ work[w].pc = "handled" => work[w].event \in effective
          /\ work[w].pc = "closed" => work[w].event \in processed

\* A device that could be reached all the time has the token it had.
ReachableIsCurrent == \A e \in Events : reachable[e] \subseteq Reached

\* Whom dispatchToUser has left to send to, and whom it has sent to.
PushesAreTracked ==
    \A w \in Workers : work[w].pc = "pushing" =>
        /\ work[w].event \in Notifications
        /\ ~work[w].failed =>
              \A dt \in reachable[work[w].event] :
                  dt \in work[w].left \/ <<work[w].event, dt[2]>> \in received

EffectReachesAll ==
    \A e \in effective \cap Notifications :
        \A dt \in reachable[e] : <<e, dt[2]>> \in received

\* The owner of a job has died, or is about to throw.
Doomed(e) ==
    LET w == job[e].owner IN
    \/ ~WorkingOn(w, e)
    \/ work[w].pc = "thrown"
    \/ work[w].pc = "pushing" /\ work[w].failed

\* Every attempt and every stall that a healthy event has used was a fault.
AttemptsArePaid ==
    \A e \in Events \ Poison :
        /\ job[e].state \in {"waiting", "active"} => job[e].attempts + job[e].stalls <= faults
        /\ job[e].state = "active" /\ Doomed(e) => job[e].attempts + job[e].stalls < faults

IInv ==
    /\ TypeOK
    /\ AboutRecorded
    /\ WorkersInOrder
    /\ CompletedIsProcessed
    /\ ReachableIsCurrent
    /\ PushesAreTracked
    /\ EffectReachesAll
    /\ GivenUpAfterFaults
    /\ AttemptsArePaid

-----------------------------------------------------------------------------
(* What it promises.                                                       *)

\* An event takes effect before its row is PROCESSED, and keeps that status.
Delivery == INSTANCE EventDelivery
    WITH recorded <- Recorded, closed <- processed
ImplementsEventDelivery == Delivery!Spec

\* Fewer poisoned events than the relay takes at a time do not hold up the others,
\* whatever fails, as long as a job survives the faults (outbox.service.ts:60).
HealthyAreProcessed ==
    \A e \in Events \ Poison : (created[e] > 0) ~> (e \in processed)

=============================================================================
