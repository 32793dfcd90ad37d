----------------------------- MODULE OutboxProofs -----------------------------
(***************************************************************************)
(* What Outbox guarantees for any number of events, workers, devices and   *)
(* faults, and any limits of the queue.                                    *)
(***************************************************************************)
EXTENDS Outbox, FiniteSetTheorems, TLAPS

-----------------------------------------------------------------------------
(* Records: a job is told by its state, a worker by its pc.                *)

LEMMA JobByState ==
    ASSUME NEW r \in JobRecord
    PROVE  /\ r.state \in {"none", "waiting", "active", "completed", "failed"}
           /\ r.state \in {"waiting", "active"} =>
                /\ r.attempts \in 0 .. MaxAttempts - 1
                /\ r.stalls \in 0 .. MaxStalls
           /\ r.state = "active" => r.owner \in Workers
           /\ r.state = "completed" =>
                r \in [state : {"completed"}, age : 0 .. KeepCompleted - 1]
           /\ r.state = "failed" => r \in [state : {"failed"}, age : 0 .. KeepFailed - 1]
           /\ r.state # "none" => r # NoJob
  BY DEF JobRecord, NoJob

LEMMA JobIntro ==
    /\ NoJob \in JobRecord
    /\ \A a \in 0 .. MaxAttempts - 1, s \in 0 .. MaxStalls :
          /\ Waiting(a, s) \in JobRecord
          /\ \A w \in Workers :
                [state |-> "active", attempts |-> a, stalls |-> s, owner |-> w] \in JobRecord
    /\ \A a \in 0 .. KeepCompleted - 1 : [state |-> "completed", age |-> a] \in JobRecord
    /\ \A a \in 0 .. KeepFailed - 1 : [state |-> "failed", age |-> a] \in JobRecord
  BY DEF JobRecord, Waiting

LEMMA WorkByPc ==
    ASSUME NEW r \in WorkRecord
    PROVE  /\ r.pc # "idle" => r # Idle /\ r.event \in Events
           /\ r # Idle => r.pc # "idle"
           /\ r.pc = "pushing" =>
                r \in [pc : {"pushing"}, event : Events, left : SUBSET (Devices \X Tokens),
                       invalid : SUBSET Devices, failed : BOOLEAN]
  BY DEF WorkRecord, Idle

LEMMA WorkIntro ==
    /\ Idle \in WorkRecord
    /\ \A e \in Events, pc \in {"taken", "handling", "handled", "closed", "thrown"} :
          [pc |-> pc, event |-> e] \in WorkRecord
    /\ \A e \in Events, left \in SUBSET (Devices \X Tokens), invalid \in SUBSET Devices,
          failed \in BOOLEAN :
          [pc |-> "pushing", event |-> e, left |-> left, invalid |-> invalid,
           failed |-> failed] \in WorkRecord
  BY DEF WorkRecord, Idle

\* Finishing a job keeps the others typed, and starts none.
LEMMA FinishedJobs ==
    ASSUME TypeOK, NEW e \in Events, NEW state, NEW keep,
           \/ state = "completed" /\ keep = KeepCompleted
           \/ state = "failed" /\ keep = KeepFailed
    PROVE  /\ Finished(e, state, keep) \in [Events -> JobRecord]
           /\ Finished(e, state, keep)[e].state = state
           /\ \A f \in Events \ {e} :
                 \/ Finished(e, state, keep)[f] = NoJob
                 \/ /\ job[f] # NoJob
                    /\ Finished(e, state, keep)[f].state = job[f].state
                 \/ Finished(e, state, keep)[f] = job[f]
<1>1. keep \in Nat \ {0}
  BY OutboxAssumption
<1>2. [state |-> state, age |-> 0] \in JobRecord
  BY JobIntro, OutboxAssumption
<1>3. ASSUME NEW f \in Events, job[f].state = state, job[f].age + 1 < keep
      PROVE  /\ [job[f] EXCEPT !.age = @ + 1] \in JobRecord
             /\ [job[f] EXCEPT !.age = @ + 1].state = job[f].state
             /\ job[f] # NoJob
  <2>1. job[f] \in [state : {state}, age : 0 .. keep - 1] /\ job[f] # NoJob
    BY <1>3, JobByState DEF TypeOK
  <2>2. [job[f] EXCEPT !.age = @ + 1] = [state |-> state, age |-> job[f].age + 1]
    BY <2>1
  <2>3. job[f].age + 1 \in 0 .. keep - 1
    BY <1>1, <1>3, <2>1
  <2> QED
    BY <2>1, <2>2, <2>3, JobIntro
<1> QED
  BY <1>2, <1>3, JobIntro DEF Finished, TypeOK

-----------------------------------------------------------------------------
(* The changes of the queue and of the workers.                            *)

\* The jobs after a step are typed, a job is there only if it was there or the
\* relay has just added it, and it completes only with its event closed.
JobsChange ==
    /\ job' \in [Events -> JobRecord]
    /\ \A e \in Events : job'[e] # NoJob => job[e] # NoJob \/ e \in batch
    /\ \A e \in Events : job'[e].state = "completed" =>
          \/ job[e].state = "completed"
          \/ \E w \in Workers : work[w].pc = "closed" /\ work[w].event = e

LEMMA JobWritten ==
    ASSUME TypeOK, NEW e \in Events, NEW record \in JobRecord,
           record.state # "completed", job[e] # NoJob \/ e \in batch,
           job' = [job EXCEPT ![e] = record]
    PROVE  JobsChange
  BY DEF JobsChange, TypeOK

LEMMA JobFinished ==
    ASSUME TypeOK, NEW e \in Events, NEW state, NEW keep, job[e] # NoJob,
           \/ /\ state = "completed" /\ keep = KeepCompleted
              /\ \E w \in Workers : work[w].pc = "closed" /\ work[w].event = e
           \/ state = "failed" /\ keep = KeepFailed,
           job' = Finished(e, state, keep)
    PROVE  JobsChange
<1>1. /\ job' \in [Events -> JobRecord]
      /\ job'[e].state = state
      /\ \A f \in Events \ {e} :
            \/ job'[f] = NoJob
            \/ job[f] # NoJob /\ job'[f].state = job[f].state
            \/ job'[f] = job[f]
  BY FinishedJobs
<1>2. NoJob.state = "none"
  BY DEF NoJob
<1> QED
  BY <1>1, <1>2 DEF JobsChange

LEMMA HandOutJobs ==
    ASSUME TypeOK, NEW e \in Events, job[e].state = "active", HandOut(e)
    PROVE  JobsChange
<1>1. /\ job[e].attempts \in 0 .. MaxAttempts - 1 /\ job[e].stalls \in 0 .. MaxStalls
      /\ job[e] # NoJob
  BY JobByState DEF TypeOK
<1>2. CASE job[e].stalls < MaxStalls
  <2>1. job[e].stalls + 1 \in 0 .. MaxStalls
    BY <1>1, <1>2, OutboxAssumption
  <2>2. Waiting(job[e].attempts, job[e].stalls + 1) \in JobRecord
    BY <1>1, <2>1, JobIntro
  <2>3. Waiting(job[e].attempts, job[e].stalls + 1).state = "waiting"
    BY DEF Waiting
  <2> QED
    BY <1>1, <1>2, <2>2, <2>3, JobWritten DEF HandOut
<1>3. CASE ~(job[e].stalls < MaxStalls)
  BY <1>1, <1>3, JobFinished DEF HandOut
<1> QED
  BY <1>2, <1>3

LEMMA AttemptFailsJobs ==
    ASSUME TypeOK, NEW e \in Events, job[e].state = "active", job' = AttemptFails(e)
    PROVE  JobsChange
<1>1. /\ job[e].attempts \in 0 .. MaxAttempts - 1 /\ job[e].stalls \in 0 .. MaxStalls
      /\ job[e] # NoJob
  BY JobByState DEF TypeOK
<1>2. CASE job[e].attempts + 1 < MaxAttempts
  <2>1. job[e].attempts + 1 \in 0 .. MaxAttempts - 1
    BY <1>1, <1>2, OutboxAssumption
  <2>2. Waiting(job[e].attempts + 1, job[e].stalls) \in JobRecord
    BY <1>1, <2>1, JobIntro
  <2>3. Waiting(job[e].attempts + 1, job[e].stalls).state = "waiting"
    BY DEF Waiting
  <2> QED
    BY <1>1, <1>2, <2>2, <2>3, JobWritten DEF AttemptFails
<1>3. CASE ~(job[e].attempts + 1 < MaxAttempts)
  BY <1>1, <1>3, JobFinished DEF AttemptFails
<1> QED
  BY <1>2, <1>3

LEMMA JobsStep ==
    ASSUME TypeOK, [Next]_vars
    PROVE  JobsChange
<1>1. CASE UNCHANGED job
  BY <1>1 DEF JobsChange, TypeOK
<1>2. ASSUME NEW e \in Events, RelayAdd(e)
      PROVE  JobsChange
  <2>1. NewJob \in JobRecord /\ NewJob.state # "completed"
    BY JobIntro, OutboxAssumption DEF NewJob, Waiting
  <2> QED
    BY <1>1, <1>2, <2>1, JobWritten DEF RelayAdd
<1>3. ASSUME NEW e \in Events, NEW w \in Workers, Take(w, e)
      PROVE  JobsChange
  <2>1. /\ job[e].attempts \in 0 .. MaxAttempts - 1 /\ job[e].stalls \in 0 .. MaxStalls
        /\ job[e] # NoJob
    BY <1>3, JobByState DEF TypeOK, Take
  <2>2. [state |-> "active", attempts |-> job[e].attempts, stalls |-> job[e].stalls,
         owner |-> w] \in JobRecord
    BY <2>1, JobIntro
  <2> QED
    BY <1>3, <2>1, <2>2, JobWritten DEF Take
<1>4. ASSUME NEW w \in Workers, Complete(w)
      PROVE  JobsChange
  <2> DEFINE e == work[w].event
  <2>1. e \in Events
    BY <1>4, WorkByPc DEF Complete, TypeOK
  <2>2. CASE Owns(w, e)
    <3>1. job' = Finished(e, "completed", KeepCompleted)
      BY <1>4, <2>2 DEF Complete
    <3>2. job[e] # NoJob
      BY <2>1, <2>2, JobByState DEF Owns, TypeOK
    <3> QED
      BY <1>4, <2>1, <3>1, <3>2, JobFinished DEF Complete
  <2> QED
    BY <1>1, <1>4, <2>2 DEF Complete
<1>5. ASSUME NEW w \in Workers, Fail(w)
      PROVE  JobsChange
  <2> DEFINE e == work[w].event
  <2>1. e \in Events
    BY <1>5, WorkByPc DEF Fail, TypeOK
  <2> QED
    BY <1>1, <1>5, <2>1, AttemptFailsJobs DEF Fail, Owns
<1>6. ASSUME NEW e \in Events, Recover(e) \/ Stall(e)
      PROVE  JobsChange
  BY <1>6, HandOutJobs DEF Recover, Stall
<1> QED
  <2>1. CASE UNCHANGED vars
    BY <1>1, <2>1 DEF vars
  <2>2. ASSUME NEW w \in Workers, Handle(w) \/ Crash(w)
        PROVE  JobsChange
    BY <1>1, <1>4, <1>5, <2>2 DEF Handle, Crash, Lookup, HandleOther, HandlePoison,
       HandleNotification, MarkProcessed, Dispatched, Rejected, Push, Deactivate, queueVars
  <2>3. CASE RelayRead \/ (\E e \in Events : Record(e) \/ RelayFails(e))
    BY <1>1, <2>3 DEF RelayRead, Record, RelayFails, queueVars
  <2>4. CASE DeviceStep
    BY <1>1, <2>4 DEF DeviceStep, Unregister, UpdatePushToken, Revoke, queueVars
  <2> QED
    BY <1>2, <1>3, <1>6, <2>1, <2>2, <2>3, <2>4 DEF Next

-----------------------------------------------------------------------------
(* Type correctness.                                                       *)

LEMMA RecordedIsFinite ==
    ASSUME TypeOK
    PROVE  Cardinality(Recorded) \in Nat
  BY OutboxAssumption, FS_Subset, FS_CardinalityType DEF Recorded

LEMMA TypeInit == Init => TypeOK
  BY JobIntro, WorkIntro, OutboxAssumption DEF Init, TypeOK

LEMMA WorkStep ==
    ASSUME TypeOK, [Next]_vars
    PROVE  work' \in [Workers -> WorkRecord]
<1> DEFINE Writes == \E w \in Workers, r \in WorkRecord : work' = [work EXCEPT ![w] = r]
<1>1. CASE UNCHANGED work
  BY <1>1 DEF TypeOK
<1>2. CASE Writes
  BY <1>2 DEF TypeOK
<1>3. ASSUME NEW w \in Workers, Handle(w) \/ Crash(w)
      PROVE  Writes
  <2>1. work[w] \in WorkRecord
    BY DEF TypeOK
  <2>2. CASE work[w].pc # "idle" /\ \E pc \in {"taken", "handling", "handled", "closed", "thrown"} :
               Goes(w, pc)
    <3>1. PICK pc \in {"taken", "handling", "handled", "closed", "thrown"} : Goes(w, pc)
      BY <2>2
    <3>2. [pc |-> pc, event |-> work[w].event] \in WorkRecord
      BY <2>1, <2>2, WorkByPc, WorkIntro
    <3> QED
      BY <3>1, <3>2 DEF Goes, Becomes
  <2>3. CASE Becomes(w, Idle)
    BY <2>3, WorkIntro DEF Becomes
  <2>4. ASSUME HandleNotification(w)
        PROVE  Writes
    <3>1. work[w].event \in Events /\ Targets \in SUBSET (Devices \X Tokens)
      BY <2>1, <2>4, WorkByPc DEF HandleNotification, Targets
    <3>2. [pc |-> "pushing", event |-> work[w].event, left |-> Targets, invalid |-> {},
           failed |-> FALSE] \in WorkRecord
      BY <3>1, WorkIntro
    <3> QED
      BY <2>4, <3>2 DEF HandleNotification, Becomes
  <2>5. ASSUME NEW dt \in Devices \X Tokens, Push(w, dt)
        PROVE  Writes
    <3> DEFINE Push_ == [pc : {"pushing"}, event : Events, left : SUBSET (Devices \X Tokens),
                         invalid : SUBSET Devices, failed : BOOLEAN]
    <3>1. work[w] \in Push_
      BY <2>1, <2>5, WorkByPc DEF Push
    <3>2. Sent(w, dt) \in Push_
      BY <3>1 DEF Sent
    <3>3. /\ [Sent(w, dt) EXCEPT !.invalid = @ \cup {dt[1]}] \in Push_
          /\ [Sent(w, dt) EXCEPT !.failed = TRUE] \in Push_
      BY <3>2
    <3>4. Push_ \subseteq WorkRecord
      BY DEF WorkRecord
    <3>5. PICK r \in Push_ : Becomes(w, r)
      BY <2>5, <3>2, <3>3 DEF Push
    <3> QED
      BY <3>4, <3>5 DEF Becomes
  <2>6. ASSUME NEW d \in Devices, Deactivate(w, d)
        PROVE  Writes
    <3> DEFINE Push_ == [pc : {"pushing"}, event : Events, left : SUBSET (Devices \X Tokens),
                         invalid : SUBSET Devices, failed : BOOLEAN]
    <3>1. work[w] \in Push_
      BY <2>1, <2>6, WorkByPc DEF Deactivate
    <3>2. [work[w] EXCEPT !.invalid = @ \ {d}] \in Push_
      BY <3>1
    <3>3. Push_ \subseteq WorkRecord
      BY DEF WorkRecord
    <3> QED
      BY <2>6, <3>2, <3>3 DEF Deactivate, Becomes
  <2> QED
    <3>1. Idle.pc = "idle"
      BY DEF Idle
    <3>2. CASE Crash(w) \/ Complete(w) \/ Fail(w)
      BY <2>3, <3>2 DEF Crash, Complete, Fail
    <3>3. CASE Lookup(w)
      BY <2>2, <3>3 DEF Lookup
    <3>4. CASE HandleOther(w) \/ HandlePoison(w) \/ MarkProcessed(w)
      BY <2>2, <3>4 DEF HandleOther, HandlePoison, MarkProcessed
    <3>5. CASE Dispatched(w) \/ Rejected(w)
      BY <2>2, <3>5 DEF Dispatched, Rejected, Settled
    <3> QED
      BY <1>3, <2>4, <2>5, <2>6, <3>2, <3>3, <3>4, <3>5 DEF Handle
<1>4. ASSUME NEW e \in Events, NEW w \in Workers, Take(w, e)
      PROVE  Writes
  BY <1>4, WorkIntro DEF Take, Becomes
<1> QED
  <2>1. CASE UNCHANGED vars
    BY <1>1, <2>1 DEF vars
  <2>2. CASE RelayRead \/ \E e \in Events : Record(e) \/ RelayAdd(e) \/ RelayFails(e)
    BY <1>1, <2>2 DEF RelayRead, Record, RelayAdd, RelayFails
  <2>3. CASE \E e \in Events : Recover(e) \/ Stall(e)
    BY <1>1, <2>3 DEF Recover, Stall
  <2>4. CASE DeviceStep
    BY <1>1, <2>4 DEF DeviceStep, Unregister, UpdatePushToken, Revoke
  <2> QED
    BY <1>2, <1>3, <1>4, <2>1, <2>2, <2>3, <2>4 DEF Next

\* What is neither of the jobs nor of the workers.
LEMMA RestStep ==
    ASSUME TypeOK, [Next]_vars
    PROVE  /\ created' \in [Events -> Nat]
           /\ processed' \subseteq Events
           /\ batch' \subseteq Events
           /\ effective' \subseteq Events
           /\ history' \subseteq Events
           /\ token' \in [Devices -> Tokens \cup {NoToken}]
           /\ refused' \subseteq Tokens
           /\ received' \subseteq Events \X Tokens
           /\ reachable' \in [Events -> SUBSET (Devices \X Tokens)]
           /\ faults' \in Nat
<1> USE DEF TypeOK
<1>1. ASSUME NEW e \in Events, Record(e)
      PROVE  /\ created' \in [Events -> Nat]
             /\ reachable' \in [Events -> SUBSET (Devices \X Tokens)]
  <2>1. (IF e \in Notifications THEN Reached ELSE {}) \in SUBSET (Devices \X Tokens)
    BY DEF Reached, Targets
  <2> QED
    BY <1>1, <2>1, RecordedIsFinite DEF Record
<1>2. ASSUME NEW pairs, Lost(pairs)
      PROVE  reachable' \in [Events -> SUBSET (Devices \X Tokens)]
  BY <1>2 DEF Lost
<1>3. ASSUME NEW e \in Events, Record(e) \/ RelayAdd(e) \/ RelayFails(e) \/ Recover(e) \/ Stall(e)
      PROVE  /\ created' \in [Events -> Nat]
             /\ batch' \subseteq Events
             /\ reachable' \in [Events -> SUBSET (Devices \X Tokens)]
             /\ faults' \in Nat
             /\ UNCHANGED <<processed, effective, history, deviceVars, received>>
  BY <1>1, <1>3 DEF Record, RelayAdd, RelayFails, Recover, Stall, Fault, queueVars, deviceVars
<1>4. ASSUME NEW w \in Workers, work[w] # Idle
      PROVE  work[w].event \in Events
  BY <1>4, WorkByPc
<1>5. Idle.pc = "idle"
  BY DEF Idle
<1>6. ASSUME NEW w \in Workers, NEW dt \in Devices \X Tokens, Push(w, dt)
      PROVE  /\ received' \subseteq Events \X Tokens
             /\ faults' \in Nat
             /\ UNCHANGED <<created, processed, queueVars, effective, history, deviceVars,
                            reachable>>
  BY <1>4, <1>5, <1>6 DEF Push, Fault
<1>7. ASSUME NEW w \in Workers, NEW d \in Devices, Deactivate(w, d)
      PROVE  /\ token' \in [Devices -> Tokens \cup {NoToken}]
             /\ reachable' \in [Events -> SUBSET (Devices \X Tokens)]
             /\ UNCHANGED <<created, processed, queueVars, effective, history, refused,
                            received, faults>>
  BY <1>2, <1>7 DEF Deactivate
<1>8. ASSUME NEW w \in Workers,
             Lookup(w) \/ HandleOther(w) \/ HandlePoison(w) \/ HandleNotification(w)
             \/ MarkProcessed(w) \/ Dispatched(w) \/ Rejected(w) \/ Complete(w) \/ Fail(w)
      PROVE  /\ processed' \subseteq Events /\ effective' \subseteq Events
             /\ history' \subseteq Events
             /\ UNCHANGED <<created, batch, deviceVars, received, reachable, faults>>
  BY <1>4, <1>5, <1>8 DEF Lookup, HandleOther, HandlePoison, HandleNotification, MarkProcessed,
     Dispatched, Rejected, Complete, Fail, Settled, queueVars
<1>9. ASSUME DeviceStep
      PROVE  /\ token' \in [Devices -> Tokens \cup {NoToken}]
             /\ refused' \subseteq Tokens
             /\ reachable' \in [Events -> SUBSET (Devices \X Tokens)]
             /\ UNCHANGED <<created, processed, queueVars, effective, history, received,
                            faults>>
  BY <1>2, <1>9 DEF DeviceStep, Unregister, UpdatePushToken, Revoke
<1>10. CASE UNCHANGED vars
  BY <1>10 DEF vars
<1>11. CASE RelayRead
  BY <1>11 DEF RelayRead, Oldest, Pending, Recorded, deviceVars
<1>12. CASE \E e \in Events, w \in Workers : Take(w, e)
  BY <1>12 DEF Take, deviceVars
<1>13. CASE \E w \in Workers : Crash(w)
  BY <1>13 DEF Crash, Fault, deviceVars, queueVars
<1> QED
  BY <1>3, <1>6, <1>7, <1>8, <1>9, <1>10, <1>11, <1>12, <1>13
     DEF Next, Handle, deviceVars, queueVars

LEMMA TypeStep ==
    ASSUME TypeOK, [Next]_vars
    PROVE  TypeOK'
  BY JobsStep, WorkStep, RestStep DEF TypeOK, JobsChange

-----------------------------------------------------------------------------
(* Who closes an event, and when.                                          *)

\* A worker that is busy after a step was busy with the same event, or has just
\* taken the job.
LEMMA WorkersKeep ==
    ASSUME TypeOK, [Next]_vars, NEW w \in Workers, work'[w] # Idle
    PROVE  \/ work[w] # Idle /\ work'[w].event = work[w].event
           \/ /\ job[work'[w].event] # NoJob /\ work'[w].event \in Events
              /\ work'[w].pc = "taken"
<1> DEFINE Keeps == work[w] # Idle /\ work'[w].event = work[w].event
<1>1. Idle.pc = "idle"
  BY DEF Idle
<1>2. work[w] \in WorkRecord
  BY DEF TypeOK
<1>3. CASE work'[w] = work[w]
  BY <1>3
<1>4. ASSUME Handle(w)
      PROVE  Keeps
  <2>1. CASE \E pc \in {"handling", "handled", "closed", "thrown"} : Goes(w, pc)
    <3>1. work'[w].event = work[w].event
      BY <2>1 DEF Goes, Becomes, TypeOK
    <3>2. work[w] # Idle
      BY <1>1, <1>4 DEF Handle, Lookup, HandleOther, HandlePoison, MarkProcessed, Dispatched,
         Rejected, Settled, Complete, Fail, Push, Deactivate, HandleNotification
    <3> QED
      BY <3>1, <3>2
  <2>2. CASE Becomes(w, Idle)
    BY <2>2 DEF Becomes, TypeOK
  <2>3. CASE HandleNotification(w)
    BY <1>1, <2>3 DEF HandleNotification, Becomes, TypeOK
  <2>4. ASSUME NEW dt \in Devices \X Tokens, Push(w, dt)
        PROVE  Keeps
    <3>1. work[w] \in [pc : {"pushing"}, event : Events, left : SUBSET (Devices \X Tokens),
                       invalid : SUBSET Devices, failed : BOOLEAN]
      BY <1>2, <2>4, WorkByPc DEF Push
    <3>2. Sent(w, dt).event = work[w].event /\ Sent(w, dt) \in [pc : {"pushing"},
             event : Events, left : SUBSET (Devices \X Tokens), invalid : SUBSET Devices,
             failed : BOOLEAN]
      BY <3>1 DEF Sent
    <3>3. \E r : Becomes(w, r) /\ r.event = work[w].event
      BY <2>4, <3>2 DEF Push
    <3> QED
      BY <1>1, <2>4, <3>3 DEF Push, Becomes, TypeOK
  <2>5. ASSUME NEW d \in Devices, Deactivate(w, d)
        PROVE  Keeps
    <3>1. work[w] \in [pc : {"pushing"}, event : Events, left : SUBSET (Devices \X Tokens),
                       invalid : SUBSET Devices, failed : BOOLEAN]
      BY <1>2, <2>5, WorkByPc DEF Deactivate
    <3>2. [work[w] EXCEPT !.invalid = @ \ {d}].event = work[w].event
      BY <3>1
    <3> QED
      BY <1>1, <2>5, <3>2 DEF Deactivate, Becomes, TypeOK
  <2>6. CASE Complete(w) \/ Fail(w)
    BY <2>2, <2>6 DEF Complete, Fail
  <2>7. CASE Lookup(w) \/ HandleOther(w) \/ HandlePoison(w) \/ MarkProcessed(w)
             \/ Dispatched(w) \/ Rejected(w)
    <3>1. CASE Lookup(w)
      BY <2>1, <3>1 DEF Lookup
    <3>2. CASE HandleOther(w) \/ HandlePoison(w) \/ MarkProcessed(w)
      BY <2>1, <3>2 DEF HandleOther, HandlePoison, MarkProcessed
    <3>3. CASE Dispatched(w) \/ Rejected(w)
      BY <2>1, <3>3 DEF Dispatched, Rejected
    <3> QED
      BY <2>7, <3>1, <3>2, <3>3
  <2> QED
    BY <1>4, <2>3, <2>4, <2>5, <2>6, <2>7 DEF Handle
<1>5. ASSUME NEW v \in Workers, Handle(v) \/ Crash(v), v # w
      PROVE  work'[w] = work[w]
  BY <1>5 DEF Handle, Crash, Lookup, HandleOther, HandlePoison, MarkProcessed, Dispatched,
     Rejected, Complete, Fail, Push, Deactivate, HandleNotification, Goes, Becomes, TypeOK
<1>6. ASSUME Crash(w)
      PROVE  FALSE
  BY <1>6 DEF Crash, Becomes, TypeOK
<1>7. ASSUME NEW e \in Events, NEW v \in Workers, Take(v, e)
      PROVE  \/ work'[w] = work[w]
             \/ /\ job[work'[w].event] # NoJob /\ work'[w].event \in Events
                /\ work'[w].pc = "taken"
  BY <1>7, JobByState DEF Take, Becomes, TypeOK
<1>8. CASE UNCHANGED work
  BY <1>8
<1> QED
  <2>1. CASE UNCHANGED vars
    BY <1>8, <2>1 DEF vars
  <2>2. CASE RelayRead \/ \E e \in Events : Record(e) \/ RelayAdd(e) \/ RelayFails(e)
    BY <1>8, <2>2 DEF RelayRead, Record, RelayAdd, RelayFails
  <2>3. CASE \E e \in Events : Recover(e) \/ Stall(e)
    BY <1>8, <2>3 DEF Recover, Stall
  <2>4. CASE DeviceStep
    BY <1>8, <2>4 DEF DeviceStep, Unregister, UpdatePushToken, Revoke
  <2>5. ASSUME NEW v \in Workers, Handle(v) \/ Crash(v)
        PROVE  Keeps
    <3>1. CASE v # w
      BY <1>3, <1>5, <2>5, <3>1
    <3>2. CASE v = w
      BY <1>3, <1>4, <1>6, <2>5, <3>2
    <3> QED
      BY <3>1, <3>2
  <2> QED
    BY <1>3, <1>7, <2>1, <2>2, <2>3, <2>4, <2>5 DEF Next

\* Rows stay, and so do effects and marks; an effect and a mark have a cause.
LEMMA Grows ==
    ASSUME TypeOK, [Next]_vars
    PROVE  /\ Recorded \subseteq Recorded'
           /\ effective \subseteq effective' /\ processed \subseteq processed'
           /\ received \subseteq received'
           /\ batch' \subseteq batch \cup Recorded
           /\ \A e \in effective' \ effective :
                 \E w \in Workers :
                    /\ work[w] # Idle /\ work[w].event = e
                    /\ e \in Notifications => Dispatched(w)
           /\ \A e \in processed' \ processed :
                 \E w \in Workers : work[w].pc = "handled" /\ work[w].event = e
<1>1. Idle.pc = "idle"
  BY DEF Idle
<1>2. CASE UNCHANGED vars
  BY <1>2 DEF vars, Recorded
<1>3. ASSUME NEW w \in Workers, Handle(w) \/ Crash(w)
      PROVE  /\ UNCHANGED <<created, batch>>
             /\ effective \subseteq effective' /\ processed \subseteq processed'
             /\ received \subseteq received'
             /\ \A e \in effective' \ effective :
                   /\ work[w] # Idle /\ work[w].event = e
                   /\ e \in Notifications => Dispatched(w)
             /\ \A e \in processed' \ processed :
                   work[w].pc = "handled" /\ work[w].event = e
  BY <1>1, <1>3 DEF Handle, Crash, Lookup, HandleOther, HandlePoison, MarkProcessed,
     Dispatched, Rejected, Settled, Complete, Fail, Push, Deactivate, HandleNotification,
     queueVars, deviceVars
<1>4. ASSUME NEW e \in Events, Record(e)
      PROVE  /\ UNCHANGED <<batch, effective, processed, received>>
             /\ Recorded \subseteq Recorded'
  BY <1>4, RecordedIsFinite DEF Record, Recorded, TypeOK, queueVars
<1>5. CASE RelayRead
  BY <1>5 DEF RelayRead, Oldest, Pending, Recorded
<1>6. CASE \E e \in Events : RelayAdd(e) \/ RelayFails(e) \/ Recover(e) \/ Stall(e)
                            \/ \E w \in Workers : Take(w, e)
  BY <1>6 DEF RelayAdd, RelayFails, Recover, Stall, Take, Recorded
<1>7. CASE DeviceStep
  BY <1>7 DEF DeviceStep, Unregister, UpdatePushToken, Revoke, Recorded, queueVars
<1>8. ASSUME NEW w \in Workers, Handle(w) \/ Crash(w)
      PROVE  Recorded' = Recorded
  BY <1>3, <1>8 DEF Recorded
<1> QED
  BY <1>2, <1>3, <1>4, <1>5, <1>6, <1>7, <1>8 DEF Next

LEMMA AboutRecordedStep ==
    ASSUME TypeOK, AboutRecorded, [Next]_vars
    PROVE  AboutRecorded'
<1>1. \A e \in Events : job'[e] # NoJob => e \in Recorded'
  BY JobsStep, Grows DEF JobsChange, AboutRecorded
<1>2. \A w \in Workers : work'[w] # Idle => work'[w].event \in Recorded'
  BY WorkersKeep, Grows DEF AboutRecorded
<1>3. batch' \cup effective' \cup processed' \subseteq Recorded'
  <2>1. batch' \subseteq Recorded'
    BY Grows DEF AboutRecorded
  <2>2. effective' \subseteq Recorded'
    BY Grows DEF AboutRecorded
  <2>3. processed' \subseteq Recorded'
    <3>1. \A w \in Workers : work[w].pc = "handled" => work[w] # Idle
      BY DEF Idle
    <3> QED
      BY <3>1, Grows DEF AboutRecorded
  <2> QED
    BY <2>1, <2>2, <2>3
<1> QED
  BY <1>1, <1>2, <1>3 DEF AboutRecorded

LEMMA WorkersInOrderStep ==
    ASSUME TypeOK, WorkersInOrder, [Next]_vars
    PROVE  WorkersInOrder'
<1>1. processed' \subseteq effective'
  BY Grows DEF WorkersInOrder
<1>2. ASSUME NEW w \in Workers
      PROVE  /\ work'[w].pc = "handled" => work'[w].event \in effective'
             /\ work'[w].pc = "closed" => work'[w].event \in processed'
  <2>1. CASE work'[w] = work[w]
    BY <2>1, Grows DEF WorkersInOrder
  <2>2. Idle.pc = "idle"
    BY DEF Idle
  <2>3. CASE Lookup(w) \/ HandleOther(w) \/ HandlePoison(w) \/ MarkProcessed(w)
    BY <2>3 DEF Lookup, HandleOther, HandlePoison, MarkProcessed, Goes, Becomes, TypeOK
  <2>4. CASE Dispatched(w) \/ Rejected(w) \/ HandleNotification(w) \/ Complete(w) \/ Fail(w)
             \/ Crash(w)
    BY <2>2, <2>4 DEF Dispatched, Rejected, HandleNotification, Complete, Fail, Crash, Goes,
       Becomes, TypeOK
  <2>5. ASSUME work'[w].pc \in {"taken", "pushing"}
        PROVE  /\ work'[w].pc = "handled" => work'[w].event \in effective'
               /\ work'[w].pc = "closed" => work'[w].event \in processed'
    BY <2>5
  <2>6. ASSUME NEW dt \in Devices \X Tokens, Push(w, dt)
        PROVE  work'[w].pc = "pushing"
    <3>1. work[w] \in [pc : {"pushing"}, event : Events, left : SUBSET (Devices \X Tokens),
                       invalid : SUBSET Devices, failed : BOOLEAN]
      BY <2>6, WorkByPc DEF Push, TypeOK
    <3>2. Sent(w, dt) \in [pc : {"pushing"}, event : Events,
             left : SUBSET (Devices \X Tokens), invalid : SUBSET Devices, failed : BOOLEAN]
      BY <3>1 DEF Sent
    <3> QED
      BY <2>6, <3>2 DEF Push, Becomes, TypeOK
  <2>7. ASSUME NEW d \in Devices, Deactivate(w, d)
        PROVE  work'[w].pc = "pushing"
    <3>1. work[w] \in [pc : {"pushing"}, event : Events, left : SUBSET (Devices \X Tokens),
                       invalid : SUBSET Devices, failed : BOOLEAN]
      BY <2>7, WorkByPc DEF Deactivate, TypeOK
    <3> QED
      BY <2>7, <3>1 DEF Deactivate, Becomes, TypeOK
  <2>8. ASSUME NEW v \in Workers, NEW e \in Events, Take(v, e)
        PROVE  work'[w] = work[w] \/ work'[w].pc = "taken"
    BY <2>8 DEF Take, Becomes, TypeOK
  <2>9. ASSUME NEW v \in Workers, v # w, Handle(v) \/ Crash(v)
        PROVE  work'[w] = work[w]
    BY <2>9 DEF Handle, Crash, Lookup, HandleOther, HandlePoison, MarkProcessed, Dispatched,
       Rejected, Complete, Fail, Push, Deactivate, HandleNotification, Goes, Becomes, TypeOK
  <2>10. CASE UNCHANGED vars
    BY <2>1, <2>10 DEF vars
  <2>11. CASE RelayRead \/ \E e \in Events : Record(e) \/ RelayAdd(e) \/ RelayFails(e)
    BY <2>1, <2>11 DEF RelayRead, Record, RelayAdd, RelayFails
  <2>12. CASE \E e \in Events : Recover(e) \/ Stall(e)
    BY <2>1, <2>12 DEF Recover, Stall
  <2>13. CASE DeviceStep
    BY <2>1, <2>13 DEF DeviceStep, Unregister, UpdatePushToken, Revoke
  <2>14. ASSUME Handle(w) \/ Crash(w)
         PROVE  /\ work'[w].pc = "handled" => work'[w].event \in effective'
                /\ work'[w].pc = "closed" => work'[w].event \in processed'
    BY <2>3, <2>4, <2>5, <2>6, <2>7, <2>14 DEF Handle
  <2>15. ASSUME NEW v \in Workers, Handle(v) \/ Crash(v)
         PROVE  /\ work'[w].pc = "handled" => work'[w].event \in effective'
                /\ work'[w].pc = "closed" => work'[w].event \in processed'
    <3>1. CASE v = w
      BY <2>14, <2>15, <3>1
    <3>2. CASE v # w
      BY <2>1, <2>9, <2>15, <3>2
    <3> QED
      BY <3>1, <3>2
  <2> QED
    BY <2>1, <2>5, <2>8, <2>10, <2>11, <2>12, <2>13, <2>15 DEF Next
<1> QED
  BY <1>1, <1>2 DEF WorkersInOrder

LEMMA CompletedStep ==
    ASSUME TypeOK, WorkersInOrder, CompletedIsProcessed, [Next]_vars
    PROVE  CompletedIsProcessed'
  BY JobsStep, Grows DEF JobsChange, CompletedIsProcessed, WorkersInOrder

-----------------------------------------------------------------------------
(* Whom an event reaches.                                                  *)

\* The set of devices that could always be reached shrinks, but for an event that
\* is recorded now.
LEMMA ReachableShrinks ==
    ASSUME TypeOK, [Next]_vars, NEW e \in Events
    PROVE  \/ reachable'[e] \subseteq reachable[e]
           \/ e \notin Recorded /\ reachable'[e] \subseteq Reached /\ UNCHANGED deviceVars
<1>1. CASE UNCHANGED reachable
  BY <1>1
<1>2. ASSUME NEW f \in Events, Record(f)
      PROVE  \/ reachable'[e] \subseteq reachable[e]
             \/ e \notin Recorded /\ reachable'[e] \subseteq Reached /\ UNCHANGED deviceVars
  BY <1>2 DEF Record, Recorded, TypeOK
<1>3. ASSUME NEW pairs, Lost(pairs)
      PROVE  reachable'[e] \subseteq reachable[e]
  BY <1>3 DEF Lost
<1>4. CASE DeviceStep
  BY <1>3, <1>4 DEF DeviceStep, Unregister, UpdatePushToken, Revoke
<1>5. CASE \E w \in Workers : Handle(w) \/ Crash(w)
  BY <1>1, <1>3, <1>5 DEF Handle, Crash, Lookup, HandleOther, HandlePoison, MarkProcessed,
     Dispatched, Rejected, Complete, Fail, Push, Deactivate, HandleNotification
<1>6. CASE RelayRead \/ \E f \in Events : RelayAdd(f) \/ RelayFails(f) \/ Recover(f) \/ Stall(f)
                                         \/ \E w \in Workers : Take(w, f)
  BY <1>1, <1>6 DEF RelayRead, RelayAdd, RelayFails, Recover, Stall, Take
<1>7. CASE UNCHANGED vars
  BY <1>1, <1>7 DEF vars
<1> QED
  BY <1>2, <1>4, <1>5, <1>6, <1>7 DEF Next

LEMMA ReachableIsCurrentStep ==
    ASSUME TypeOK, ReachableIsCurrent, [Next]_vars
    PROVE  ReachableIsCurrent'
<1> SUFFICES ASSUME NEW e \in Events
             PROVE  reachable'[e] \subseteq Reached'
  BY DEF ReachableIsCurrent
<1>1. CASE UNCHANGED deviceVars
  <2>1. Reached' = Reached
    BY <1>1 DEF Reached, Targets, deviceVars
  <2> QED
    BY <2>1, ReachableShrinks DEF ReachableIsCurrent
<1>2. ASSUME NEW t \in Tokens, NEW d \in Devices, UpdatePushToken(d, t)
      PROVE  reachable'[e] \subseteq Reached'
  <2>1. ASSUME NEW dt \in reachable[e], dt \notin {d} \X (Tokens \ {t})
        PROVE  dt \in Reached'
    BY <1>2, <2>1 DEF UpdatePushToken, ReachableIsCurrent, Reached, Targets, TypeOK
  <2> QED
    BY <1>2, <2>1 DEF UpdatePushToken, Lost
<1>3. ASSUME NEW t \in Tokens, Unregister(t)
      PROVE  reachable'[e] \subseteq Reached'
  <2>1. ASSUME NEW dt \in reachable[e], dt \notin Devices \X {t}
        PROVE  dt \in Reached'
    BY <1>3, <2>1 DEF Unregister, ReachableIsCurrent, Reached, Targets, TypeOK
  <2> QED
    BY <1>3, <2>1 DEF Unregister, Lost
<1>4. ASSUME NEW w \in Workers, NEW d \in Devices, Deactivate(w, d)
      PROVE  reachable'[e] \subseteq Reached'
  <2>1. ASSUME NEW dt \in reachable[e], dt \notin {d} \X Tokens
        PROVE  dt \in Reached'
    BY <1>4, <2>1 DEF Deactivate, ReachableIsCurrent, Reached, Targets, TypeOK
  <2> QED
    BY <1>4, <2>1 DEF Deactivate, Lost
<1>8. ASSUME NEW d \in Devices, Revoke(d)
      PROVE  reachable'[e] \subseteq Reached'
  <2>1. ASSUME NEW dt \in reachable[e], dt \notin {d} \X Tokens
        PROVE  dt \in Reached'
    BY <1>8, <2>1 DEF Revoke, ReachableIsCurrent, Reached, Targets, TypeOK
  <2> QED
    BY <1>8, <2>1 DEF Revoke, Lost
<1>5. CASE \E w \in Workers : Handle(w) \/ Crash(w)
  BY <1>1, <1>4, <1>5 DEF Handle, Crash, Lookup, HandleOther, HandlePoison, MarkProcessed,
     Dispatched, Rejected, Complete, Fail, Push, HandleNotification
<1>6. CASE RelayRead \/ \E f \in Events : Record(f) \/ RelayAdd(f) \/ RelayFails(f) \/ Recover(f)
                                         \/ Stall(f) \/ \E w \in Workers : Take(w, f)
  BY <1>1, <1>6 DEF RelayRead, Record, RelayAdd, RelayFails, Recover, Stall, Take
<1>7. CASE UNCHANGED vars
  BY <1>1, <1>7 DEF vars, deviceVars
<1> QED
  BY <1>2, <1>3, <1>5, <1>6, <1>7, <1>8 DEF Next, DeviceStep

\* What PushesAreTracked says of one worker.
Tracked(w) ==
    /\ work[w].event \in Notifications
    /\ ~work[w].failed =>
          \A dt \in reachable[work[w].event] :
              dt \in work[w].left \/ <<work[w].event, dt[2]>> \in received

LEMMA PushesStep ==
    ASSUME TypeOK, AboutRecorded, ReachableIsCurrent, PushesAreTracked, [Next]_vars
    PROVE  PushesAreTracked'
<1> SUFFICES ASSUME NEW w \in Workers, work'[w].pc = "pushing"
             PROVE  Tracked(w)'
  BY DEF PushesAreTracked, Tracked
<1> DEFINE Pushing == [pc : {"pushing"}, event : Events, left : SUBSET (Devices \X Tokens),
                       invalid : SUBSET Devices, failed : BOOLEAN]
<1>1. Idle.pc = "idle"
  BY DEF Idle
\* Another step leaves the worker its record; the devices it owes only shrink.
<1>2. CASE work'[w] = work[w]
  <2>1. work[w].event \in Recorded /\ work[w].event \in Events
    BY <1>1, <1>2 DEF AboutRecorded, Recorded
  <2>2. reachable'[work[w].event] \subseteq reachable[work[w].event]
    BY <2>1, ReachableShrinks
  <2> QED
    BY <1>2, <2>1, <2>2, Grows DEF PushesAreTracked, Tracked
<1>3. CASE HandleNotification(w)
  <2>1. /\ work'[w] = [pc |-> "pushing", event |-> work[w].event, left |-> Targets,
                       invalid |-> {}, failed |-> FALSE]
        /\ work[w].event \in Notifications
        /\ work[w].event \in Events
    BY <1>3, OutboxAssumption DEF HandleNotification, Becomes, TypeOK
  <2>2. reachable' = reachable
    BY <1>3 DEF HandleNotification
  <2> QED
    BY <2>1, <2>2 DEF Tracked, ReachableIsCurrent, Reached
<1>4. ASSUME NEW dt \in Devices \X Tokens, Push(w, dt)
      PROVE  Tracked(w)'
  <2>1. /\ work[w] \in Pushing /\ reachable' = reachable
        /\ \A x \in reachable[work[w].event] : x \in Reached
    BY <1>4, WorkByPc DEF Push, TypeOK, ReachableIsCurrent
  <2>2. Sent(w, dt) \in Pushing /\ Sent(w, dt).event = work[w].event
        /\ Sent(w, dt).failed = work[w].failed /\ Sent(w, dt).left = work[w].left \ {dt}
    BY <2>1 DEF Sent
  <2>3. Tracked(w)
    BY <1>4 DEF PushesAreTracked, Tracked, Push
  <2>4. CASE dt[2] \notin refused /\ received' = received \cup {<<work[w].event, dt[2]>>}
             /\ Becomes(w, Sent(w, dt))
    <3>1. work'[w] = Sent(w, dt)
      BY <2>4 DEF Becomes, TypeOK
    <3> QED
      BY <2>1, <2>2, <2>3, <2>4, <3>1 DEF Tracked
  <2>5. CASE dt[2] \in refused /\ received' = received
             /\ Becomes(w, [Sent(w, dt) EXCEPT !.invalid = @ \cup {dt[1]}])
    <3>1. work'[w] = [Sent(w, dt) EXCEPT !.invalid = @ \cup {dt[1]}]
      BY <2>5 DEF Becomes, TypeOK
    <3>2. /\ work'[w].event = work[w].event /\ work'[w].failed = work[w].failed
          /\ work'[w].left = work[w].left \ {dt}
      BY <2>2, <3>1
    <3>3. dt \notin Reached
      BY <2>5 DEF Reached
    <3> QED
      BY <2>1, <2>3, <2>5, <3>2, <3>3 DEF Tracked
  <2>6. CASE Becomes(w, [Sent(w, dt) EXCEPT !.failed = TRUE])
    <3>1. work'[w] = [Sent(w, dt) EXCEPT !.failed = TRUE]
      BY <2>6 DEF Becomes, TypeOK
    <3>2. work'[w].event = work[w].event /\ work'[w].failed
      BY <2>2, <3>1
    <3> QED
      BY <2>3, <3>2 DEF Tracked
  <2> QED
    BY <1>4, <2>4, <2>5, <2>6 DEF Push
<1>5. ASSUME NEW d \in Devices, Deactivate(w, d)
      PROVE  Tracked(w)'
  <2>1. work[w] \in Pushing /\ Tracked(w)
    BY <1>5, WorkByPc DEF Deactivate, TypeOK, PushesAreTracked, Tracked
  <2>2. work'[w] = [work[w] EXCEPT !.invalid = @ \ {d}]
    BY <1>5 DEF Deactivate, Becomes, TypeOK
  <2>3. /\ work'[w].event = work[w].event /\ work'[w].failed = work[w].failed
        /\ work'[w].left = work[w].left
    BY <2>1, <2>2
  <2>4. reachable'[work[w].event] \subseteq reachable[work[w].event] /\ received' = received
    BY <1>5, <2>1 DEF Deactivate, Lost
  <2> QED
    BY <2>1, <2>3, <2>4 DEF Tracked
<1>6. ASSUME Lookup(w) \/ HandleOther(w) \/ HandlePoison(w) \/ MarkProcessed(w) \/ Dispatched(w)
             \/ Rejected(w) \/ Complete(w) \/ Fail(w) \/ Crash(w)
      PROVE  work'[w].pc # "pushing"
  BY <1>1, <1>6 DEF Lookup, HandleOther, HandlePoison, MarkProcessed, Dispatched, Rejected,
     Complete, Fail, Crash, Goes, Becomes, TypeOK
<1>7. ASSUME NEW v \in Workers, Handle(v) \/ Crash(v)
      PROVE  Tracked(w)'
  <2>1. CASE v = w
    BY <1>3, <1>4, <1>5, <1>6, <1>7, <2>1 DEF Handle
  <2>2. CASE v # w
    <3>1. work'[w] = work[w]
      BY <1>7, <2>2 DEF Handle, Crash, Lookup, HandleOther, HandlePoison, MarkProcessed,
         Dispatched, Rejected, Complete, Fail, Push, Deactivate, HandleNotification, Goes,
         Becomes, TypeOK
    <3> QED
      BY <1>2, <3>1
  <2> QED
    BY <2>1, <2>2
<1>8. ASSUME NEW v \in Workers, NEW e \in Events, Take(v, e)
      PROVE  work'[w] = work[w]
  BY <1>8 DEF Take, Becomes, TypeOK
<1>9. CASE UNCHANGED vars
  BY <1>2, <1>9 DEF vars
<1>10. CASE RelayRead \/ \E e \in Events : Record(e) \/ RelayAdd(e) \/ RelayFails(e)
  BY <1>2, <1>10 DEF RelayRead, Record, RelayAdd, RelayFails
<1>11. CASE \E e \in Events : Recover(e) \/ Stall(e)
  BY <1>2, <1>11 DEF Recover, Stall
<1>12. CASE DeviceStep
  BY <1>2, <1>12 DEF DeviceStep, Unregister, UpdatePushToken, Revoke
<1> QED
  BY <1>2, <1>7, <1>8, <1>9, <1>10, <1>11, <1>12 DEF Next

LEMMA EffectStep ==
    ASSUME TypeOK, AboutRecorded, PushesAreTracked, EffectReachesAll, [Next]_vars
    PROVE  EffectReachesAll'
<1> SUFFICES ASSUME NEW e \in effective' \cap Notifications, NEW dt \in reachable'[e]
             PROVE  <<e, dt[2]>> \in received'
  BY DEF EffectReachesAll
<1>1. e \in Events
  BY OutboxAssumption
<1>2. CASE e \in effective
  <2>1. e \in Recorded
    BY <1>2 DEF AboutRecorded
  <2> QED
    BY <1>1, <1>2, <2>1, ReachableShrinks, Grows DEF EffectReachesAll
<1>3. CASE e \notin effective
  <2>1. PICK w \in Workers : work[w] # Idle /\ work[w].event = e /\ Dispatched(w)
    BY <1>3, Grows
  <2>2. reachable' = reachable /\ received' = received /\ work[w].pc = "pushing"
        /\ work[w].left = {} /\ ~work[w].failed
    BY <2>1 DEF Dispatched, Settled
  <2> QED
    BY <2>1, <2>2 DEF PushesAreTracked
<1> QED
  BY <1>2, <1>3

-----------------------------------------------------------------------------
(* What an attempt costs.                                                  *)

\* A job that finishes leaves the unfinished ones as they are.
LEMMA FinishedOthers ==
    ASSUME TypeOK, NEW f \in Events, NEW e \in Events, e # f, NEW state, NEW keep,
           \/ state = "completed" /\ keep = KeepCompleted
           \/ state = "failed" /\ keep = KeepFailed
    PROVE  \/ Finished(f, state, keep)[e] \in {job[e], NoJob}
           \/ job[e].state = state /\ Finished(f, state, keep)[e].state = state
<1>1. CASE job[e].state # state
  BY <1>1 DEF Finished
<1>2. CASE job[e].state = state
  BY <1>2, FinishedJobs
<1> QED
  BY <1>1, <1>2

\* What a step does to the job of an event.
Moves(e) ==
    \/ job'[e] = job[e]
    \/ job'[e] \in {NoJob, NewJob}
    \/ job'[e].state = "completed"
    \/ job[e].state = "failed" /\ job'[e].state = "failed"
    \/ \E w \in Workers : Take(w, e)
    \/ \E w \in Workers : Fail(w) /\ work[w].event = e /\ Owns(w, e)
    \/ Recover(e)
    \/ Stall(e)

LEMMA JobMoves ==
    ASSUME TypeOK, [Next]_vars, NEW e \in Events
    PROVE  Moves(e)
<1>1. CASE UNCHANGED job
  BY <1>1 DEF Moves
<1>2. ASSUME NEW f \in Events, f # e, NEW record, job' = [job EXCEPT ![f] = record]
      PROVE  Moves(e)
  BY <1>2 DEF Moves, TypeOK
<1>3. ASSUME NEW f \in Events, f # e, NEW state, NEW keep,
             \/ state = "completed" /\ keep = KeepCompleted
             \/ state = "failed" /\ keep = KeepFailed,
             job' = Finished(f, state, keep)
      PROVE  Moves(e)
  <2>1. \/ job'[e] \in {job[e], NoJob}
        \/ job[e].state = state /\ job'[e].state = state
    BY <1>3, FinishedOthers
  <2> QED
    BY <1>3, <2>1 DEF Moves
<1>4. ASSUME NEW f \in Events, RelayAdd(f)
      PROVE  Moves(e)
  <2>1. CASE f = e
    BY <1>1, <1>4, <2>1 DEF RelayAdd, Moves, TypeOK
  <2>2. CASE f # e
    BY <1>1, <1>2, <1>4, <2>2 DEF RelayAdd
  <2> QED
    BY <2>1, <2>2
<1>5. ASSUME NEW f \in Events, NEW w \in Workers, Take(w, f)
      PROVE  Moves(e)
  <2>1. CASE f = e
    BY <1>5, <2>1 DEF Moves
  <2>2. CASE f # e
    BY <1>2, <1>5, <2>2 DEF Take
  <2> QED
    BY <2>1, <2>2
<1>6. ASSUME NEW w \in Workers, Complete(w)
      PROVE  Moves(e)
  <2> DEFINE f == work[w].event
  <2>1. f \in Events
    BY <1>6, WorkByPc DEF Complete, TypeOK
  <2>2. CASE ~Owns(w, f)
    BY <1>1, <1>6, <2>2 DEF Complete
  <2>3. CASE Owns(w, f) /\ f = e
    BY <1>6, <2>1, <2>3, FinishedJobs DEF Complete, Moves
  <2>4. CASE Owns(w, f) /\ f # e
    <3>1. job' = Finished(f, "completed", KeepCompleted)
      BY <1>6, <2>4 DEF Complete
    <3> QED
      BY <1>3, <2>1, <2>4, <3>1
  <2> QED
    BY <2>2, <2>3, <2>4
<1>7. ASSUME NEW w \in Workers, Fail(w)
      PROVE  Moves(e)
  <2> DEFINE f == work[w].event
  <2>1. f \in Events
    BY <1>7, WorkByPc DEF Fail, TypeOK
  <2>2. CASE ~Owns(w, f)
    BY <1>1, <1>7, <2>2 DEF Fail
  <2>3. CASE Owns(w, f) /\ f = e
    BY <1>7, <2>3 DEF Moves
  <2>4. CASE Owns(w, f) /\ f # e
    <3>1. job' = AttemptFails(f)
      BY <1>7, <2>4 DEF Fail
    <3> QED
      BY <1>2, <1>3, <2>1, <2>4, <3>1 DEF AttemptFails
  <2> QED
    BY <2>2, <2>3, <2>4
<1>8. ASSUME NEW f \in Events, Recover(f) \/ Stall(f)
      PROVE  Moves(e)
  <2>1. CASE f = e
    BY <1>8, <2>1 DEF Moves
  <2>2. CASE f # e
    BY <1>2, <1>3, <1>8, <2>2 DEF Recover, Stall, HandOut
  <2> QED
    BY <2>1, <2>2
<1> QED
  <2>1. CASE UNCHANGED vars
    BY <1>1, <2>1 DEF vars
  <2>2. ASSUME NEW w \in Workers, Handle(w) \/ Crash(w)
        PROVE  Moves(e)
    BY <1>1, <1>6, <1>7, <2>2 DEF Handle, Crash, Lookup, HandleOther, HandlePoison,
       HandleNotification, MarkProcessed, Dispatched, Rejected, Push, Deactivate, queueVars
  <2>3. CASE RelayRead \/ (\E f \in Events : Record(f) \/ RelayFails(f))
    BY <1>1, <2>3 DEF RelayRead, Record, RelayFails, queueVars
  <2>4. CASE DeviceStep
    BY <1>1, <2>4 DEF DeviceStep, Unregister, UpdatePushToken, Revoke, queueVars
  <2> QED
    BY <1>4, <1>5, <1>8, <2>1, <2>2, <2>3, <2>4 DEF Next

LEMMA FaultsGrow ==
    ASSUME TypeOK, [Next]_vars
    PROVE  faults \in Nat /\ faults' \in Nat /\ faults <= faults'
<1> DEFINE Grow == faults' = faults \/ faults' = faults + 1
<1> SUFFICES Grow
  BY DEF TypeOK
<1>1. CASE UNCHANGED vars
  BY <1>1 DEF vars
<1>2. ASSUME NEW w \in Workers, Handle(w) \/ Crash(w)
      PROVE  Grow
  BY <1>2 DEF Handle, Crash, Lookup, HandleOther, HandlePoison, HandleNotification,
     MarkProcessed, Dispatched, Rejected, Complete, Fail, Push, Deactivate, Fault
<1>3. CASE RelayRead \/ (\E e \in Events : Record(e) \/ RelayAdd(e) \/ RelayFails(e)
                                         \/ Recover(e) \/ Stall(e)
                                         \/ \E w \in Workers : Take(w, e))
  BY <1>3 DEF RelayRead, Record, RelayAdd, RelayFails, Recover, Stall, Take, Fault
<1>4. CASE DeviceStep
  BY <1>4 DEF DeviceStep, Unregister, UpdatePushToken, Revoke
<1> QED
  BY <1>1, <1>2, <1>3, <1>4 DEF Next

\* The owner of a healthy event's job gets to the point of throwing, or dies, only
\* by a fault.
LEMMA DoomIsAFault ==
    ASSUME TypeOK, [Next]_vars, NEW e \in Events \ Poison, job[e].state = "active",
           job'[e] = job[e], Doomed(e)'
    PROVE  Doomed(e) \/ faults' = faults + 1
<1> SUFFICES ASSUME ~Doomed(e)
             PROVE  faults' = faults + 1
  OBVIOUS
<1>1. PICK w \in Workers : w = job[e].owner
  BY JobByState DEF TypeOK
<1>2. /\ work[w] # Idle /\ work[w].event = e /\ work[w].pc # "thrown"
      /\ ~(work[w].pc = "pushing" /\ work[w].failed)
      /\ work[w] \in WorkRecord
  BY <1>1 DEF Doomed, WorkingOn, TypeOK
<1>3. \/ work'[w] = Idle \/ work'[w].event # e \/ work'[w].pc = "thrown"
      \/ work'[w].pc = "pushing" /\ work'[w].failed
  BY <1>1 DEF Doomed, WorkingOn
<1>4. CASE work'[w] = work[w]
  BY <1>2, <1>3, <1>4
<1>5. Idle.pc = "idle"
  BY DEF Idle
<1>6. ASSUME Lookup(w) \/ HandleOther(w) \/ MarkProcessed(w) \/ Dispatched(w)
      PROVE  FALSE
  <2>1. \E pc \in {"handling", "handled", "closed"} :
           work'[w] = [pc |-> pc, event |-> e]
    BY <1>2, <1>6 DEF Lookup, HandleOther, MarkProcessed, Dispatched, Goes, Becomes, TypeOK
  <2> QED
    BY <1>3, <2>1 DEF Idle
<1>7. ASSUME HandlePoison(w) \/ Rejected(w) \/ Fail(w)
      PROVE  FALSE
  BY <1>2, <1>7 DEF HandlePoison, Rejected, Settled, Fail
<1>8. ASSUME HandleNotification(w)
      PROVE  FALSE
  <2>1. work'[w] = [pc |-> "pushing", event |-> e, left |-> Targets, invalid |-> {},
                    failed |-> FALSE]
    BY <1>2, <1>8 DEF HandleNotification, Becomes, TypeOK
  <2> QED
    BY <1>3, <2>1 DEF Idle
<1>9. ASSUME Complete(w)
      PROVE  FALSE
  <2>1. job' = Finished(e, "completed", KeepCompleted)
    BY <1>1, <1>2, <1>9 DEF Complete, Owns
  <2>2. job'[e].state = "completed"
    BY <2>1, FinishedJobs
  <2> QED
    BY <2>2
<1> DEFINE Pushing == [pc : {"pushing"}, event : Events, left : SUBSET (Devices \X Tokens),
                       invalid : SUBSET Devices, failed : BOOLEAN]
<1>10. ASSUME NEW d \in Devices, Deactivate(w, d)
       PROVE  FALSE
  <2>1. work[w] \in Pushing
    BY <1>2, <1>10, WorkByPc DEF Deactivate
  <2>2. work'[w] = [work[w] EXCEPT !.invalid = @ \ {d}]
    BY <1>10 DEF Deactivate, Becomes, TypeOK
  <2>3. work'[w] \in Pushing /\ work'[w].event = e /\ ~work'[w].failed
    BY <1>2, <2>1, <2>2
  <2>4. work'[w] # Idle
    BY <1>5, <2>3
  <2> QED
    BY <1>3, <2>3, <2>4
<1>11. ASSUME NEW dt \in Devices \X Tokens, Push(w, dt)
       PROVE  faults' = faults + 1
  <2>1. work[w] \in Pushing
    BY <1>2, <1>11, WorkByPc DEF Push
  <2>2. /\ Sent(w, dt) \in Pushing /\ Sent(w, dt).event = e /\ ~Sent(w, dt).failed
    BY <1>2, <2>1 DEF Sent
  <2>3. CASE Fault
    BY <2>3 DEF Fault
  <2>4. CASE work'[w] \in {Sent(w, dt), [Sent(w, dt) EXCEPT !.invalid = @ \cup {dt[1]}]}
    <3>1. work'[w] \in Pushing /\ work'[w].event = e /\ ~work'[w].failed
      BY <2>2, <2>4
    <3>2. work'[w] # Idle
      BY <1>5, <3>1
    <3> QED
      BY <1>3, <3>1, <3>2
  <2> QED
    BY <1>11, <2>3, <2>4 DEF Push, Becomes, TypeOK
<1>12. ASSUME Crash(w)
       PROVE  faults' = faults + 1
  BY <1>12 DEF Crash, Fault
<1>13. ASSUME NEW v \in Workers, Handle(v) \/ Crash(v)
       PROVE  faults' = faults + 1
  <2>1. CASE v = w
    BY <1>6, <1>7, <1>8, <1>9, <1>10, <1>11, <1>12, <1>13, <2>1 DEF Handle
  <2>2. CASE v # w
    <3>1. work'[w] = work[w]
      BY <1>13, <2>2 DEF Handle, Crash, Lookup, HandleOther, HandlePoison, MarkProcessed,
         Dispatched, Rejected, Complete, Fail, Push, Deactivate, HandleNotification, Goes,
         Becomes, TypeOK
    <3> QED
      BY <1>4, <3>1
  <2> QED
    BY <2>1, <2>2
<1>14. ASSUME NEW f \in Events, NEW v \in Workers, Take(v, f)
       PROVE  work'[w] = work[w]
  BY <1>2, <1>14 DEF Take, Becomes, TypeOK
<1>15. CASE UNCHANGED vars
  BY <1>4, <1>15 DEF vars
<1>16. CASE RelayRead \/ \E f \in Events : Record(f) \/ RelayAdd(f) \/ RelayFails(f)
                                         \/ Recover(f) \/ Stall(f)
  BY <1>4, <1>16 DEF RelayRead, Record, RelayAdd, RelayFails, Recover, Stall
<1>17. CASE DeviceStep
  BY <1>4, <1>17 DEF DeviceStep, Unregister, UpdatePushToken, Revoke
<1> QED
  BY <1>4, <1>13, <1>14, <1>15, <1>16, <1>17 DEF Next

\* What AttemptsArePaid and GivenUpAfterFaults say of one event.
Paid(e) ==
    /\ job[e].state \in {"waiting", "active"} => job[e].attempts + job[e].stalls <= faults
    /\ job[e].state = "active" /\ Doomed(e) => job[e].attempts + job[e].stalls < faults
    /\ job[e].state = "failed" => faults >= MaxAttempts \/ faults > MaxStalls

\* A stalled job is handed out again, or given up, at the price of a fault.
LEMMA HandedOutIsPaid ==
    ASSUME TypeOK, NEW e \in Events, job[e].state = "active", HandOut(e),
           faults' \in Nat, job[e].attempts + job[e].stalls < faults'
    PROVE  Paid(e)'
<1>1. job[e].attempts \in Nat /\ job[e].stalls \in 0 .. MaxStalls
  BY JobByState DEF TypeOK
<1>2. CASE job[e].stalls < MaxStalls
  <2>1. job'[e] = Waiting(job[e].attempts, job[e].stalls + 1)
    BY <1>2 DEF HandOut, TypeOK
  <2> QED
    BY <1>1, <2>1, OutboxAssumption DEF Paid, Waiting
<1>3. CASE ~(job[e].stalls < MaxStalls)
  <2>1. job'[e].state = "failed"
    BY <1>3, FinishedJobs DEF HandOut
  <2>2. faults' > MaxStalls
    BY <1>1, <1>3, OutboxAssumption
  <2> QED
    BY <2>1, <2>2 DEF Paid
<1> QED
  BY <1>2, <1>3

LEMMA PaidStep ==
    ASSUME TypeOK, [Next]_vars, NEW e \in Events \ Poison, Paid(e)
    PROVE  Paid(e)'
<1>1. faults \in Nat /\ faults' \in Nat /\ faults <= faults'
  BY FaultsGrow
<1>2. /\ job[e].state \in {"waiting", "active"} =>
            job[e].attempts \in 0 .. MaxAttempts - 1 /\ job[e].stalls \in 0 .. MaxStalls
      /\ MaxAttempts \in Nat /\ MaxStalls \in Nat
  BY JobByState, OutboxAssumption DEF TypeOK
<1>3. CASE job'[e] = job[e]
  <2>1. ASSUME job[e].state = "active", Doomed(e)'
        PROVE  job[e].attempts + job[e].stalls < faults'
    <3>1. Doomed(e) \/ faults' = faults + 1
      BY <1>3, <2>1, DoomIsAFault
    <3> QED
      BY <1>1, <1>2, <2>1, <3>1 DEF Paid
  <2>2. job[e].state \in {"waiting", "active"} => job[e].attempts + job[e].stalls <= faults'
    BY <1>1, <1>2 DEF Paid
  <2>3. job[e].state = "failed" => faults' >= MaxAttempts \/ faults' > MaxStalls
    BY <1>1, <1>2 DEF Paid
  <2> QED
    BY <1>3, <2>1, <2>2, <2>3 DEF Paid
<1>4. CASE job'[e] \in {NoJob, NewJob} \/ job'[e].state = "completed"
  BY <1>1, <1>4 DEF Paid, NoJob, NewJob, Waiting
<1>5. CASE job[e].state = "failed" /\ job'[e].state = "failed"
  BY <1>1, <1>2, <1>5 DEF Paid
<1>6. ASSUME NEW w \in Workers, Take(w, e)
      PROVE  Paid(e)'
  <2>1. /\ job'[e] = [state |-> "active", attempts |-> job[e].attempts,
                      stalls |-> job[e].stalls, owner |-> w]
        /\ work'[w] = [pc |-> "taken", event |-> e] /\ faults' = faults
        /\ job[e].state = "waiting"
    BY <1>6 DEF Take, Becomes, TypeOK
  <2>2. ~Doomed(e)'
    BY <2>1 DEF Doomed, WorkingOn, Idle
  <2> QED
    BY <2>1, <2>2 DEF Paid
<1>7. ASSUME NEW w \in Workers, Fail(w), work[w].event = e, Owns(w, e)
      PROVE  Paid(e)'
  <2>1. job' = AttemptFails(e) /\ faults' = faults
    BY <1>7 DEF Fail
  <2>2. job[e].state = "active" /\ Doomed(e)
    BY <1>7 DEF Fail, Owns, Doomed
  <2>3. job[e].attempts + job[e].stalls < faults
    BY <2>2 DEF Paid
  <2>4. CASE job[e].attempts + 1 < MaxAttempts
    <3>1. job'[e] = Waiting(job[e].attempts + 1, job[e].stalls)
      BY <2>1, <2>4 DEF AttemptFails, TypeOK
    <3> QED
      BY <1>1, <1>2, <2>1, <2>2, <2>3, <3>1 DEF Paid, Waiting
  <2>5. CASE ~(job[e].attempts + 1 < MaxAttempts)
    <3>1. job'[e].state = "failed"
      BY <2>1, <2>5, FinishedJobs DEF AttemptFails
    <3>2. faults' >= MaxAttempts
      BY <1>1, <1>2, <2>1, <2>2, <2>3, <2>5
    <3> QED
      BY <3>1, <3>2 DEF Paid
  <2> QED
    BY <2>4, <2>5
<1>8. CASE Recover(e)
  <2>1. job[e].state = "active" /\ HandOut(e) /\ Doomed(e) /\ faults' = faults
    BY <1>8 DEF Recover, Doomed
  <2> QED
    BY <1>1, <2>1, HandedOutIsPaid DEF Paid
<1>9. CASE Stall(e)
  <2>1. job[e].state = "active" /\ HandOut(e) /\ faults' = faults + 1
    BY <1>9 DEF Stall, Fault
  <2>2. job[e].attempts + job[e].stalls < faults'
    BY <1>1, <1>2, <2>1 DEF Paid
  <2> QED
    BY <1>1, <2>1, <2>2, HandedOutIsPaid
<1> QED
  BY <1>3, <1>4, <1>5, <1>6, <1>7, <1>8, <1>9, JobMoves DEF Moves

-----------------------------------------------------------------------------
(* The theorems.                                                           *)

LEMMA IInvInit == Init => IInv
<1> SUFFICES ASSUME Init PROVE IInv
  OBVIOUS
<1>1. TypeOK
  BY TypeInit
<1>2. NoJob.state = "none" /\ Idle.pc = "idle"
  BY DEF NoJob, Idle
<1> QED
  BY <1>1, <1>2 DEF Init, IInv, AboutRecorded, WorkersInOrder, CompletedIsProcessed,
     ReachableIsCurrent, PushesAreTracked, EffectReachesAll, GivenUpAfterFaults,
     AttemptsArePaid

LEMMA IInvStep == IInv /\ [Next]_vars => IInv'
<1> SUFFICES ASSUME IInv, [Next]_vars PROVE IInv'
  OBVIOUS
<1> USE DEF IInv
<1>1. TypeOK' /\ AboutRecorded'
  BY TypeStep, AboutRecordedStep
<1>2. WorkersInOrder' /\ CompletedIsProcessed'
  BY WorkersInOrderStep, CompletedStep
<1>3. ReachableIsCurrent' /\ PushesAreTracked' /\ EffectReachesAll'
  BY ReachableIsCurrentStep, PushesStep, EffectStep
<1>4. ASSUME NEW e \in Events \ Poison
      PROVE  Paid(e)'
  <2>1. Paid(e)
    BY DEF Paid, AttemptsArePaid, GivenUpAfterFaults
  <2> QED
    BY <2>1, PaidStep
<1>5. AttemptsArePaid' /\ GivenUpAfterFaults'
  BY <1>4 DEF Paid, AttemptsArePaid, GivenUpAfterFaults
<1> QED
  BY <1>1, <1>2, <1>3, <1>5

\* The inductive invariant: jobs, workers and marks are about rows that exist,
\* effect comes before mark and mark before the end of the job, and a device that
\* could always be reached is sent to or still to be sent to.
THEOREM Invariance == Spec => []IInv
  BY IInvInit, IInvStep, PTL DEF Spec

\* Without a fault no job of a healthy event is given up, and with faults only when
\* they are as many as its attempts or more than its stalls
\* (outbox.processor.ts:168).
THEOREM GivenUp == Spec => []GivenUpAfterFaults
<1>1. IInv => GivenUpAfterFaults
  BY DEF IInv
<1> QED
  BY <1>1, Invariance, PTL

\* Types: the attempts and stalls of a job, and the finished jobs that are kept,
\* stay within the limits of the queue.
THEOREM TypeCorrect == Spec => []TypeOK
<1>1. IInv => TypeOK
  BY DEF IInv
<1> QED
  BY <1>1, Invariance, PTL

\* A job of an event that is not PROCESSED never completes, so add() is never
\* ignored for good (outbox.service.ts:63).
THEOREM CompletedIsProcessedAlways == Spec => []CompletedIsProcessed
<1>1. IInv => CompletedIsProcessed
  BY DEF IInv
<1> QED
  BY <1>1, Invariance, PTL

\* An event is not PROCESSED before all the devices that could be reached all the
\* time were sent it (push-dispatch.service.ts:59).
THEOREM NobodyIsSkippedEver == Spec => []NobodyIsSkipped
<1>1. IInv => NobodyIsSkipped
  BY DEF IInv, WorkersInOrder, EffectReachesAll, NobodyIsSkipped
<1> QED
  BY <1>1, Invariance, PTL

LEMMA DeliveryInit == Init => Delivery!Init
  BY DEF Init, Delivery!Init, Recorded

LEMMA DeliveryStep ==
    ASSUME IInv, [Next]_vars
    PROVE  [Delivery!Next]_(Delivery!vars)
<1> USE DEF IInv
<1>1. CASE UNCHANGED <<Recorded, effective, processed>>
  BY <1>1 DEF Delivery!vars
<1>2. ASSUME NEW e \in Events, Record(e)
      PROVE  Delivery!Record(e)
  <2>1. Recorded' = Recorded \cup {e}
    <3>1. /\ created'[e] = Cardinality(Recorded) + 1
          /\ \A f \in Events \ {e} : created'[f] = created[f]
      BY <1>2 DEF Record, TypeOK
    <3>2. created'[e] > 0
      BY <3>1, RecordedIsFinite
    <3> QED
      BY <3>1, <3>2 DEF Recorded
  <2> QED
    BY <1>2, <2>1 DEF Record, Delivery!Record
<1>3. Idle.pc = "idle"
  BY DEF Idle
<1>4. ASSUME NEW w \in Workers, HandleOther(w) \/ Dispatched(w)
      PROVE  Delivery!TakeEffect(work[w].event)
  <2>1. work[w].event \in Recorded
    BY <1>3, <1>4 DEF HandleOther, Dispatched, Settled, AboutRecorded
  <2>2. Recorded' = Recorded
    BY <1>4 DEF HandleOther, Dispatched, Recorded
  <2> QED
    BY <1>4, <2>1, <2>2 DEF HandleOther, Dispatched, Delivery!TakeEffect
<1>5. ASSUME NEW w \in Workers, MarkProcessed(w)
      PROVE  Delivery!Close(work[w].event)
  <2>1. work[w].event \in effective
    BY <1>5 DEF MarkProcessed, WorkersInOrder
  <2>2. Recorded' = Recorded
    BY <1>5 DEF MarkProcessed, Recorded
  <2> QED
    BY <1>5, <2>1, <2>2 DEF MarkProcessed, Delivery!Close
<1>6. ASSUME NEW w \in Workers, HandleOther(w) \/ Dispatched(w) \/ MarkProcessed(w)
      PROVE  work[w].event \in Events
  BY <1>3, <1>6, WorkByPc DEF HandleOther, Dispatched, Settled, MarkProcessed, TypeOK
<1>7. ASSUME NEW w \in Workers,
             Lookup(w) \/ HandlePoison(w) \/ HandleNotification(w) \/ Rejected(w)
             \/ Complete(w) \/ Fail(w) \/ Crash(w)
             \/ (\E dt \in Devices \X Tokens : Push(w, dt))
             \/ (\E d \in Devices : Deactivate(w, d))
      PROVE  UNCHANGED <<Recorded, effective, processed>>
  BY <1>7 DEF Lookup, HandlePoison, HandleNotification, Rejected, Complete, Fail, Crash, Push,
     Deactivate, Recorded
<1>8. CASE UNCHANGED vars
  BY <1>1, <1>8 DEF vars, Recorded
<1>9. CASE RelayRead \/ \E e \in Events : RelayAdd(e) \/ RelayFails(e) \/ Recover(e) \/ Stall(e)
                                         \/ \E w \in Workers : Take(w, e)
  BY <1>1, <1>9 DEF RelayRead, RelayAdd, RelayFails, Recover, Stall, Take, Recorded
<1>10. CASE DeviceStep
  BY <1>1, <1>10 DEF DeviceStep, Unregister, UpdatePushToken, Revoke, Recorded
<1>11. ASSUME NEW w \in Workers, Handle(w) \/ Crash(w)
       PROVE  [Delivery!Next]_(Delivery!vars)
  BY <1>1, <1>4, <1>5, <1>6, <1>7, <1>11 DEF Handle, Delivery!Next
<1> QED
  BY <1>2, <1>8, <1>9, <1>10, <1>11 DEF Next, Delivery!Next

\* The outbox implements EventDelivery: recorded, then in effect, then closed, for
\* good (outbox.processor.ts:44).
THEOREM Implements == Spec => ImplementsEventDelivery
  BY DeliveryInit, DeliveryStep, Invariance, PTL DEF Spec, Delivery!Spec, ImplementsEventDelivery

=============================================================================
