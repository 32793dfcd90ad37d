---------------------------- MODULE RiderLocations ----------------------------
(***************************************************************************)
(* The positions of riders: the newest one in Redis with an index for the  *)
(* search (tracking.service.ts), a sample of them on its way to PostgreSQL *)
(* (tracking.cron.ts), and the worker that stores it                       *)
(* (tracking.processor.ts).                                                *)
(*                                                                         *)
(* A place is a number on a line, in the distance a rider may go in one    *)
(* unit of time at MAX_SPEED_KMH.  Every script, statement and pipeline is *)
(* one step; the cron may start again before its last run has ended.       *)
(***************************************************************************)
EXTENDS Integers, FiniteSets

CONSTANTS
    Riders,      \* user ids of riders, as the access token has them
    Profiles,    \* those that are the id of a row of rider_profiles too: the
                 \* foreign key of rider_locations.riderId
    Places,
    MaxTime,     \* bound on the timestamps of the riders' clocks
    MaxEpoch,    \* bound on the positions of a rider that expire
    Scans,       \* runs of the persistence scanner that may overlap
    KeepFailed,  \* removeOnFail
    NoFix

ASSUME LocationsAssumption ==
    /\ Profiles \subseteq Riders
    /\ Places \subseteq Int
    /\ MaxTime \in Nat /\ MaxEpoch \in Nat
    /\ KeepFailed \in Nat \ {0}
    /\ NoFix \notin [time : Int, place : Int, epoch : Int]

VARIABLES
    fix,        \* rider:location:<id>, the hash
    indexed,    \* rider:locations:geo
    epoch,      \* how often the hash of a rider has expired
    last,       \* rider:last_persisted:<id>, 0: not set
    scan,       \* what each run of scanAndPersistLocations is doing
    cleanup,    \* what cleanupStaleGeo is doing
    queue,      \* jobs of persist-location
    failed,     \* failed jobs that are kept
    dropped,    \* keys of failed jobs that are kept no longer
    table       \* rider_locations

redisVars == <<fix, indexed, epoch>>
jobVars == <<queue, failed, dropped, table>>
vars == <<fix, indexed, epoch, last, scan, cleanup, queue, failed, dropped, table>>

-----------------------------------------------------------------------------
Times == 1..MaxTime

Fix == [time : Times, place : Places, epoch : Nat]

\* A job of the queue, and a row of the table: who was where at what time.
Sample == [rider : Riders, fix : Fix]

\* The job id, and the unique index of the table.
Key(sample) == <<sample.rider, sample.fix.time>>
Keys(samples) == {Key(sample) : sample \in samples}

Idle == [pc |-> "idle"]

ScanRecord ==
    {Idle}
    \cup [pc : {"listed"}, todo : SUBSET Riders]
    \cup [pc : {"read", "newer", "added"}, todo : SUBSET Riders, sample : Sample]

CleanupRecord ==
    {Idle}
    \cup [pc : {"listed"}, riders : SUBSET Riders]
    \cup [pc : {"checked"}, gone : SUBSET Riders]

Distance(p, q) == IF p < q THEN q - p ELSE p - q

-----------------------------------------------------------------------------
(* The script LUA_UPDATE_LOCATION.                                         *)

\* Neither stale nor an impossible jump.
Accepts(old, time, place) ==
    old # NoFix => /\ time > old.time
                   /\ Distance(old.place, place) <= time - old.time

\* Mutant of UpdateLocation: the jump is not looked at.
UpdateLocationAnywhere(r, time, place) ==
    /\ fix[r] # NoFix => time > fix[r].time
    /\ fix' = [fix EXCEPT ![r] = [time |-> time, place |-> place, epoch |-> epoch[r]]]
    /\ indexed' = indexed \cup {r}
    /\ UNCHANGED <<epoch, last, scan, cleanup, jobVars>>

UpdateLocation(r, time, place) ==
    /\ Accepts(fix[r], time, place)
    /\ fix' = [fix EXCEPT ![r] = [time |-> time, place |-> place, epoch |-> epoch[r]]]
    /\ indexed' = indexed \cup {r}
    /\ UNCHANGED <<epoch, last, scan, cleanup, jobVars>>

\* Five minutes without an accepted position.
ExpireFix(r) ==
    /\ fix[r] # NoFix
    /\ epoch[r] < MaxEpoch
    /\ fix' = [fix EXCEPT ![r] = NoFix]
    /\ epoch' = [epoch EXCEPT ![r] = @ + 1]
    /\ UNCHANGED <<indexed, last, scan, cleanup, jobVars>>

-----------------------------------------------------------------------------
(* cleanupStaleGeo.                                                        *)

ListIndex ==
    /\ cleanup = Idle
    /\ indexed # {}
    /\ cleanup' = [pc |-> "listed", riders |-> indexed]
    /\ UNCHANGED <<redisVars, last, scan, jobVars>>

\* The pipeline of EXISTS.
CheckIndex ==
    /\ cleanup.pc = "listed"
    /\ LET gone == {r \in cleanup.riders : fix[r] = NoFix} IN
       cleanup' = IF gone = {} THEN Idle ELSE [pc |-> "checked", gone |-> gone]
    /\ UNCHANGED <<redisVars, last, scan, jobVars>>

\* A rider who has come back since is taken out as well.
RemoveStale ==
    /\ cleanup.pc = "checked"
    /\ indexed' = indexed \ cleanup.gone
    /\ cleanup' = Idle
    /\ UNCHANGED <<fix, epoch, last, scan, jobVars>>

-----------------------------------------------------------------------------
(* scanAndPersistLocations: one rider after the other.                     *)

Becomes(s, record) == scan' = [scan EXCEPT ![s] = record]

Continue(s, todo) ==
    Becomes(s, IF todo = {} THEN Idle ELSE [pc |-> "listed", todo |-> todo])

StartScan(s) ==
    /\ scan[s] = Idle
    /\ indexed # {}
    /\ Becomes(s, [pc |-> "listed", todo |-> indexed])
    /\ UNCHANGED <<redisVars, last, cleanup, jobVars>>

ReadFix(s, r) ==
    /\ scan[s].pc = "listed"
    /\ r \in scan[s].todo
    /\ LET todo == scan[s].todo \ {r} IN
       IF fix[r] = NoFix
       THEN Continue(s, todo)
       ELSE Becomes(s, [pc |-> "read", todo |-> todo,
                        sample |-> [rider |-> r, fix |-> fix[r]]])
    /\ UNCHANGED <<redisVars, last, cleanup, jobVars>>

\* Mutant of CompareLast: lastPersisted is set before the job is added.
CompareLastAndSet(s) ==
    /\ scan[s].pc = "read"
    /\ LET sample == scan[s].sample IN
       IF sample.fix.time > last[sample.rider]
       THEN /\ Becomes(s, [scan[s] EXCEPT !.pc = "newer"])
            /\ last' = [last EXCEPT ![sample.rider] = sample.fix.time]
       ELSE Continue(s, scan[s].todo) /\ UNCHANGED last
    /\ UNCHANGED <<redisVars, cleanup, jobVars>>

CompareLast(s) ==
    /\ scan[s].pc = "read"
    /\ LET sample == scan[s].sample IN
       IF sample.fix.time > last[sample.rider]
       THEN Becomes(s, [scan[s] EXCEPT !.pc = "newer"])
       ELSE Continue(s, scan[s].todo)
    /\ UNCHANGED <<redisVars, last, cleanup, jobVars>>

\* A job of the same id that waits, or has failed and is kept, is not added again.
AddJob(s) ==
    /\ scan[s].pc = "newer"
    /\ queue' = IF Key(scan[s].sample) \in Keys(queue \cup failed) THEN queue
                ELSE queue \cup {scan[s].sample}
    /\ Becomes(s, [scan[s] EXCEPT !.pc = "added"])
    /\ UNCHANGED <<redisVars, last, cleanup, failed, dropped, table>>

SetLast(s) ==
    /\ scan[s].pc = "added"
    /\ LET sample == scan[s].sample IN
       last' = [last EXCEPT ![sample.rider] = sample.fix.time]
    /\ Continue(s, scan[s].todo)
    /\ UNCHANGED <<redisVars, cleanup, jobVars>>

\* Redis refuses a command: the error is logged, the next rider is next.
SkipRider(s) ==
    /\ scan[s].pc \in {"read", "newer", "added"}
    /\ Continue(s, scan[s].todo)
    /\ UNCHANGED <<redisVars, last, cleanup, jobVars>>

\* An hour after it was set.
ExpireLast(r) ==
    /\ last[r] # 0
    /\ last' = [last EXCEPT ![r] = 0]
    /\ UNCHANGED <<redisVars, scan, cleanup, jobVars>>

-----------------------------------------------------------------------------
(* The worker, and the server.                                             *)

\* INSERT ... ON CONFLICT DO NOTHING; if the worker is stopped before the job
\* completes, another takes the job again.
Store(job) ==
    /\ job.rider \in Profiles
    /\ table' = IF Key(job) \in Keys(table) THEN table ELSE table \cup {job}
    /\ queue' = queue \ {job} \/ queue' = queue
    /\ UNCHANGED <<redisVars, last, scan, cleanup, failed, dropped>>

\* The database is down, the rider has no such profile, or the job was stalled too
\* often.  The job has one attempt; the newest failed jobs are kept.
Fail(job) ==
    /\ queue' = queue \ {job}
    /\ \/ /\ Cardinality(failed) < KeepFailed
          /\ failed' = failed \cup {job}
          /\ UNCHANGED dropped
       \/ /\ Cardinality(failed) >= KeepFailed
          /\ \E oldest \in failed :
                /\ failed' = (failed \ {oldest}) \cup {job}
                /\ dropped' = dropped \cup {Key(oldest)}
    /\ UNCHANGED <<redisVars, last, scan, cleanup, table>>

\* The server is stopped and started.
Restart ==
    /\ cleanup # Idle \/ \E s \in Scans : scan[s] # Idle
    /\ scan' = [s \in Scans |-> Idle]
    /\ cleanup' = Idle
    /\ UNCHANGED <<redisVars, last, jobVars>>

-----------------------------------------------------------------------------
Init ==
    /\ fix = [r \in Riders |-> NoFix]
    /\ indexed = {}
    /\ epoch = [r \in Riders |-> 0]
    /\ last = [r \in Riders |-> 0]
    /\ scan = [s \in Scans |-> Idle]
    /\ cleanup = Idle
    /\ queue = {} /\ failed = {} /\ dropped = {} /\ table = {}

Handle(s) == CompareLast(s) \/ AddJob(s) \/ SetLast(s)

ScanStep(s) ==
    \/ StartScan(s) \/ Handle(s) \/ SkipRider(s)
    \/ \E r \in Riders : ReadFix(s, r)

Next ==
    \/ \E r \in Riders :
          \/ \E time \in Times, place \in Places : UpdateLocation(r, time, place)
          \/ ExpireFix(r)
          \/ ExpireLast(r)
    \/ ListIndex \/ CheckIndex \/ RemoveStale
    \/ \E s \in Scans : ScanStep(s)
    \/ \E job \in queue : Store(job) \/ Fail(job)
    \/ Restart

Spec == Init /\ [][Next]_vars

-----------------------------------------------------------------------------
TypeOK ==
    /\ fix \in [Riders -> Fix \cup {NoFix}]
    /\ indexed \subseteq Riders
    /\ epoch \in [Riders -> Nat]
    /\ last \in [Riders -> 0..MaxTime]
    /\ scan \in [Scans -> ScanRecord]
    /\ cleanup \in CleanupRecord
    /\ queue \subseteq Sample /\ failed \subseteq Sample /\ table \subseteq Sample
    /\ dropped \subseteq Riders \X Times

\* The samples that are on their way or have arrived.
Handed == queue \cup failed \cup table

Scanned == {scan[s].sample : s \in {t \in Scans : scan[t].pc \in {"read", "newer", "added"}}}

Current == {[rider |-> r, fix |-> fix[r]] : r \in {q \in Riders : fix[q] # NoFix}}

Known == Handed \cup Scanned \cup Current

\* lastPersisted names a position that was handed to the queue: a stop between the
\* two calls, an overlapping run or a job that fails never makes the scanner
\* believe that it has handed over what it has not (tracking.cron.ts:48).
LastIsHanded ==
    \A r \in Riders : last[r] # 0 => <<r, last[r]>> \in Keys(Handed) \cup dropped

\* Any two positions of a rider that were accepted without an expiry in between are
\* as far apart as he can have gone, however few of those in between were looked at:
\* the script compares with the last one only (tracking.service.ts:39).
PlausiblePath ==
    \A a, b \in Known :
        a.rider = b.rider /\ a.fix.epoch = b.fix.epoch =>
            Distance(a.fix.place, b.fix.place) <= Distance(a.fix.time, b.fix.time)

\* The hash has the newest position of its epoch.
NewestOfEpoch ==
    /\ \A r \in Riders : fix[r] # NoFix => fix[r].epoch = epoch[r]
    /\ \A a \in Known :
          /\ a.fix.epoch <= epoch[a.rider]
          /\ a.fix.epoch = epoch[a.rider] =>
                fix[a.rider] # NoFix /\ a.fix.time <= fix[a.rider].time

AddedIsHanded ==
    \A s \in Scans : scan[s].pc = "added" => Key(scan[s].sample) \in Keys(Handed) \cup dropped

IInv ==
    /\ TypeOK
    /\ LastIsHanded
    /\ AddedIsHanded
    /\ NewestOfEpoch
    /\ PlausiblePath

=============================================================================
