------------------------- MODULE RiderLocationsProofs -------------------------
(***************************************************************************)
(* What RiderLocations guarantees for any number of riders, places and     *)
(* overlapping scans.                                                      *)
(***************************************************************************)
EXTENDS RiderLocations, TLAPS

Samples == {"read", "newer", "added"}

LEMMA ScanByPc ==
    ASSUME NEW record \in ScanRecord
    PROVE  /\ record.pc = "listed" => record.todo \in SUBSET Riders
           /\ record.pc \in Samples => /\ record.todo \in SUBSET Riders
                                       /\ record.sample \in Sample
           /\ record.pc \in Samples =>
                record \in [pc : Samples, todo : SUBSET Riders, sample : Sample]
  BY DEF ScanRecord, Idle, Samples

LEMMA ScanIntro ==
    /\ Idle \in ScanRecord
    /\ \A todo \in SUBSET Riders :
          /\ [pc |-> "listed", todo |-> todo] \in ScanRecord
          /\ \A sample \in Sample :
                [pc |-> "read", todo |-> todo, sample |-> sample] \in ScanRecord
  BY DEF ScanRecord

LEMMA FixIsInt ==
    ASSUME NEW f \in Fix
    PROVE  f.time \in Int /\ f.place \in Int
<1>1. f.time \in 1..MaxTime /\ f.place \in Places
  BY DEF Fix, Times
<1>2. MaxTime \in Nat /\ Places \subseteq Int
  BY LocationsAssumption
<1>3. f.time \in Int
  BY <1>1, <1>2
<1>4. f.place \in Int
  BY <1>1, <1>2
<1> QED
  BY <1>3, <1>4

LEMMA CleanupByPc ==
    ASSUME NEW record \in CleanupRecord
    PROVE  /\ record.pc = "listed" => record.riders \in SUBSET Riders
           /\ record.pc = "checked" => record.gone \in SUBSET Riders
  BY DEF CleanupRecord, Idle

\* What a scan is doing after it has gone on to the next rider.
LEMMA ContinueTypes ==
    ASSUME TypeOK, NEW s \in Scans, NEW todo \in SUBSET Riders, Continue(s, todo)
    PROVE  /\ scan' \in [Scans -> ScanRecord]
           /\ \A t \in Scans \ {s} : scan'[t] = scan[t]
           /\ scan'[s].pc \notin Samples
<1>1. (IF todo = {} THEN Idle ELSE [pc |-> "listed", todo |-> todo]) \in ScanRecord
  BY ScanIntro
<1> QED
  BY <1>1 DEF Continue, Becomes, TypeOK, Idle, Samples

-----------------------------------------------------------------------------
(* Type correctness.                                                       *)

LEMMA InitIInv == Init => IInv
<1> SUFFICES ASSUME Init PROVE IInv
  OBVIOUS
<1>1. TypeOK
  BY ScanIntro, LocationsAssumption DEF Init, TypeOK, CleanupRecord
<1>2. Known = {}
  BY DEF Init, Known, Handed, Scanned, Current, Idle
<1> QED
  BY <1>1, <1>2 DEF Init, IInv, LastIsHanded, AddedIsHanded, NewestOfEpoch, PlausiblePath, Idle

LEMMA TypeStep ==
    ASSUME TypeOK, [Next]_vars
    PROVE  TypeOK'
<1> USE DEF TypeOK
<1>1. ASSUME NEW r \in Riders, NEW time \in Times, NEW place \in Places,
             UpdateLocation(r, time, place)
      PROVE  TypeOK'
  <2>1. [time |-> time, place |-> place, epoch |-> epoch[r]] \in Fix
    BY DEF Fix
  <2> QED
    BY <1>1, <2>1 DEF UpdateLocation, jobVars
<1>2. ASSUME NEW r \in Riders, ExpireFix(r) \/ ExpireLast(r)
      PROVE  TypeOK'
  BY <1>2, LocationsAssumption DEF ExpireFix, ExpireLast, jobVars, redisVars
<1>3. CASE ListIndex \/ CheckIndex \/ RemoveStale
  <2>1. cleanup.pc = "listed" => cleanup.riders \subseteq Riders
    BY CleanupByPc
  <2>2. cleanup' \in CleanupRecord
    BY <1>3, <2>1 DEF ListIndex, CheckIndex, RemoveStale, CleanupRecord
  <2> QED
    BY <1>3, <2>2 DEF ListIndex, CheckIndex, RemoveStale, jobVars, redisVars
<1>4. ASSUME NEW s \in Scans, ScanStep(s)
      PROVE  TypeOK'
  <2>1. CASE StartScan(s)
    BY <2>1, ScanIntro DEF StartScan, Becomes, jobVars, redisVars
  <2>2. ASSUME NEW r \in Riders, ReadFix(s, r)
        PROVE  TypeOK'
    <3>1. scan[s].todo \ {r} \in SUBSET Riders
      BY <2>2, ScanByPc DEF ReadFix
    <3>2. fix[r] # NoFix => [rider |-> r, fix |-> fix[r]] \in Sample
      BY DEF Sample
    <3>3. scan' \in [Scans -> ScanRecord]
      BY <2>2, <3>1, <3>2, ScanIntro, ContinueTypes DEF ReadFix, Becomes
    <3> QED
      BY <2>2, <3>3 DEF ReadFix, jobVars, redisVars
  <2>3. ASSUME scan[s].pc \in Samples
        PROVE  /\ scan[s].sample \in Sample /\ scan[s].todo \in SUBSET Riders
               /\ scan[s].sample.fix.time \in 0..MaxTime /\ scan[s].sample.rider \in Riders
               /\ \A pc \in Samples : [scan[s] EXCEPT !.pc = pc] \in ScanRecord
    <3>1. scan[s] \in [pc : Samples, todo : SUBSET Riders, sample : Sample]
      BY <2>3, ScanByPc
    <3>2. \A pc \in Samples :
             [scan[s] EXCEPT !.pc = pc] \in [pc : Samples, todo : SUBSET Riders, sample : Sample]
      BY <3>1
    <3>3. scan[s].sample.fix.time \in 0..MaxTime /\ scan[s].sample.rider \in Riders
      BY <3>1, LocationsAssumption DEF Sample, Fix, Times
    <3> QED
      BY <3>1, <3>2, <3>3 DEF ScanRecord, Samples
  <2>4. CASE CompareLast(s)
    <3>1. scan' \in [Scans -> ScanRecord]
      BY <2>3, <2>4, ContinueTypes DEF CompareLast, Becomes, Samples
    <3> QED
      BY <2>4, <3>1 DEF CompareLast, jobVars, redisVars
  <2>5. CASE AddJob(s)
    <3>1. queue' \subseteq Sample /\ scan' \in [Scans -> ScanRecord]
      BY <2>3, <2>5 DEF AddJob, Becomes, Samples
    <3> QED
      BY <2>5, <3>1 DEF AddJob, redisVars
  <2>6. CASE SetLast(s) \/ SkipRider(s)
    <3>1. scan' \in [Scans -> ScanRecord]
      BY <2>3, <2>6, ContinueTypes DEF SetLast, SkipRider, Samples
    <3>2. last' \in [Riders -> 0..MaxTime]
      BY <2>3, <2>6 DEF SetLast, SkipRider, Samples
    <3> QED
      BY <2>6, <3>1, <3>2 DEF SetLast, SkipRider, jobVars, redisVars
  <2> QED
    BY <1>4, <2>1, <2>2, <2>4, <2>5, <2>6 DEF ScanStep, Handle
<1>5. ASSUME NEW job \in queue, Store(job) \/ Fail(job)
      PROVE  TypeOK'
  <2>1. \A sample \in Sample : Key(sample) \in Riders \X Times
    BY DEF Key, Sample, Fix
  <2> QED
    BY <1>5, <2>1 DEF Store, Fail, redisVars
<1>6. CASE Restart
  BY <1>6, ScanIntro DEF Restart, CleanupRecord, jobVars, redisVars
<1>7. CASE UNCHANGED vars
  BY <1>7 DEF vars
<1> QED
  BY <1>1, <1>2, <1>3, <1>4, <1>5, <1>6, <1>7 DEF Next

-----------------------------------------------------------------------------
(* Samples that were handed over.                                          *)

Settled == Keys(Handed) \cup dropped

LEMMA SettledGrows ==
    ASSUME [Next]_vars
    PROVE  Settled \subseteq Settled'
<1>1. CASE UNCHANGED jobVars
  BY <1>1 DEF jobVars, Settled, Handed, Keys
<1>2. ASSUME NEW s \in Scans, AddJob(s)
      PROVE  Settled \subseteq Settled'
  <2>1. queue \subseteq queue' /\ UNCHANGED <<failed, dropped, table>>
    BY <1>2 DEF AddJob
  <2> QED
    BY <2>1 DEF Settled, Handed, Keys
<1>3. ASSUME NEW job \in queue, Store(job)
      PROVE  Settled \subseteq Settled'
  <2>1. /\ queue \subseteq queue' \cup {job} /\ table \subseteq table'
        /\ UNCHANGED <<failed, dropped>> /\ Key(job) \in Keys(table')
    BY <1>3 DEF Store, Keys
  <2> QED
    BY <2>1 DEF Settled, Handed, Keys
<1>4. ASSUME NEW job \in queue, Fail(job)
      PROVE  Settled \subseteq Settled'
  <2>1. /\ queue \subseteq queue' \cup failed' /\ UNCHANGED table
    BY <1>4 DEF Fail
  <2>2. Keys(failed) \subseteq Keys(failed') \cup dropped' /\ dropped \subseteq dropped'
    BY <1>4 DEF Fail, Keys
  <2> QED
    BY <2>1, <2>2 DEF Settled, Handed, Keys
<1> QED
  BY <1>1, <1>2, <1>3, <1>4
     DEF Next, vars, ScanStep, Handle, jobVars, UpdateLocation, ExpireFix, ExpireLast, ListIndex,
         CheckIndex, RemoveStale, StartScan, ReadFix, CompareLast, SetLast, SkipRider, Restart

\* A sample that is added now is handed over.
LEMMA AddedStep ==
    ASSUME TypeOK, AddedIsHanded, [Next]_vars
    PROVE  AddedIsHanded'
<1> SUFFICES ASSUME NEW t \in Scans, scan'[t].pc = "added"
             PROVE  Key(scan'[t].sample) \in Settled'
  BY DEF AddedIsHanded, Settled
<1>1. CASE scan'[t] = scan[t]
  BY <1>1, SettledGrows DEF AddedIsHanded, Settled
<1>2. ASSUME NEW s \in Scans, AddJob(s)
      PROVE  Key(scan'[t].sample) \in Settled'
  <2>1. CASE t = s
    <3>1. scan[s] \in [pc : Samples, todo : SUBSET Riders, sample : Sample]
      BY <1>2, ScanByPc DEF AddJob, TypeOK, Samples
    <3>2. scan'[s].sample = scan[s].sample
      BY <1>2, <3>1 DEF AddJob, Becomes, TypeOK
    <3>3. Key(scan[s].sample) \in Keys(queue' \cup failed')
      BY <1>2 DEF AddJob, Keys
    <3> QED
      BY <2>1, <3>2, <3>3 DEF Settled, Handed, Keys
  <2>2. CASE t # s
    BY <1>1, <1>2, <2>2 DEF AddJob, Becomes
  <2> QED
    BY <2>1, <2>2
<1>3. ASSUME NEW s \in Scans, NEW todo \in SUBSET Riders, Continue(s, todo)
      PROVE  scan'[t] = scan[t]
  BY <1>3, ContinueTypes DEF Samples
<1>4. ASSUME NEW s \in Scans,
             StartScan(s) \/ CompareLast(s) \/ SetLast(s) \/ SkipRider(s)
             \/ \E r \in Riders : ReadFix(s, r)
      PROVE  scan'[t] = scan[t]
  <2>1. scan[s].pc \in Samples \cup {"listed"} => scan[s].todo \in SUBSET Riders
    BY ScanByPc DEF TypeOK
  <2>2. CASE StartScan(s)
    BY <2>2 DEF StartScan, Becomes, TypeOK
  <2>3. CASE SetLast(s) \/ SkipRider(s)
    BY <1>3, <2>1, <2>3 DEF SetLast, SkipRider, Samples
  <2>4. CASE CompareLast(s)
    <3>1. CASE Becomes(s, [scan[s] EXCEPT !.pc = "newer"])
      <4>1. [scan[s] EXCEPT !.pc = "newer"].pc = "newer"
        BY <2>4, ScanByPc DEF CompareLast, TypeOK, Samples
      <4> QED
        BY <3>1, <4>1 DEF Becomes, TypeOK
    <3> QED
      BY <1>3, <2>1, <2>4, <3>1 DEF CompareLast, Samples
  <2>5. ASSUME NEW r \in Riders, ReadFix(s, r)
        PROVE  scan'[t] = scan[t]
    <3>1. CASE fix[r] = NoFix
      <4>1. scan[s].todo \ {r} \in SUBSET Riders
        BY <2>1, <2>5 DEF ReadFix
      <4> QED
        BY <1>3, <2>5, <3>1, <4>1 DEF ReadFix
    <3>2. CASE fix[r] # NoFix
      BY <2>5, <3>2 DEF ReadFix, Becomes, TypeOK
    <3> QED
      BY <3>1, <3>2
  <2> QED
    BY <1>4, <2>2, <2>3, <2>4, <2>5
<1>5. CASE Restart
  BY <1>5 DEF Restart, Idle
<1>6. CASE UNCHANGED scan
  BY <1>1, <1>6
<1> QED
  BY <1>1, <1>2, <1>4, <1>5, <1>6
     DEF Next, vars, ScanStep, Handle, UpdateLocation, ExpireFix, ExpireLast, ListIndex,
         CheckIndex, RemoveStale, Store, Fail

LEMMA LastStep ==
    ASSUME TypeOK, AddedIsHanded, LastIsHanded, [Next]_vars
    PROVE  LastIsHanded'
<1> SUFFICES ASSUME NEW r \in Riders, last'[r] # 0
             PROVE  <<r, last'[r]>> \in Settled'
  BY DEF LastIsHanded, Settled
<1>1. CASE last'[r] = last[r]
  BY <1>1, SettledGrows DEF LastIsHanded, Settled
<1>2. ASSUME NEW s \in Scans, SetLast(s)
      PROVE  <<r, last'[r]>> \in Settled'
  <2>1. Key(scan[s].sample) \in Settled'
    BY <1>2, SettledGrows DEF SetLast, AddedIsHanded, Settled
  <2> QED
    BY <1>1, <1>2, <2>1 DEF SetLast, Key, TypeOK
<1>3. ASSUME NEW q \in Riders, ExpireLast(q)
      PROVE  last'[r] = last[r]
  BY <1>3 DEF ExpireLast, TypeOK
<1>4. CASE UNCHANGED last
  BY <1>1, <1>4
<1> QED
  BY <1>1, <1>2, <1>3, <1>4
     DEF Next, vars, ScanStep, Handle, UpdateLocation, ExpireFix, ListIndex, CheckIndex,
         RemoveStale, StartScan, ReadFix, CompareLast, AddJob, SkipRider, Restart, Store, Fail,
         redisVars

-----------------------------------------------------------------------------
(* Positions that are known.                                               *)

LEMMA KnownTypes ==
    ASSUME TypeOK
    PROVE  Known \subseteq Sample
<1>1. Scanned \subseteq Sample
  BY ScanByPc DEF Scanned, TypeOK, Samples
<1>2. Current \subseteq Sample
  BY DEF Current, Sample, TypeOK
<1> QED
  BY <1>1, <1>2 DEF Known, Handed, TypeOK

\* Without an update nothing becomes known that was not.
LEMMA KnownStays ==
    ASSUME TypeOK, [Next]_vars,
           \A r \in Riders : \A time \in Times, place \in Places : ~UpdateLocation(r, time, place)
    PROVE  /\ Known' \subseteq Known
           /\ UNCHANGED <<fix, epoch>> \/ \E r \in Riders : ExpireFix(r)
<1> DEFINE Goal == Known' \subseteq Known /\ UNCHANGED <<fix, epoch>>
<1>1. ASSUME NEW r \in Riders, ExpireFix(r)
      PROVE  Known' \subseteq Known
  <2>1. Handed' = Handed /\ Scanned' = Scanned
    BY <1>1 DEF ExpireFix, jobVars, Handed, Scanned
  <2>2. Current' \subseteq Current
    BY <1>1 DEF ExpireFix, Current, TypeOK
  <2> QED
    BY <2>1, <2>2 DEF Known
<1>2. CASE UNCHANGED <<fix, epoch, scan, queue, failed, table>>
  BY <1>2 DEF Known, Handed, Scanned, Current
<1>3. ASSUME UNCHANGED <<fix, epoch>>, Handed' \cup Scanned' \subseteq Known
      PROVE  Goal
  BY <1>3 DEF Known, Current
<1>4. ASSUME NEW s \in Scans, \A t \in Scans \ {s} : scan'[t] = scan[t],
             scan'[s].pc \in Samples => scan'[s].sample \in Known
      PROVE  Scanned' \subseteq Known
  BY <1>4 DEF Scanned, Known, Samples
<1>5. ASSUME NEW s \in Scans, ScanStep(s)
      PROVE  Goal
  <2>1. /\ scan[s].pc \in Samples => scan[s].sample \in Scanned
        /\ scan[s].pc \in Samples \cup {"listed"} => scan[s].todo \in SUBSET Riders
        /\ scan[s].pc \in Samples =>
              scan[s] \in [pc : Samples, todo : SUBSET Riders, sample : Sample]
    BY ScanByPc DEF TypeOK, Scanned, Samples
  <2>2. ASSUME NEW todo \in SUBSET Riders, Continue(s, todo), UNCHANGED <<redisVars, jobVars>>
        PROVE  Goal
    <3>1. Scanned' \subseteq Known
      BY <1>4, <2>2, ContinueTypes
    <3> QED
      BY <1>3, <2>2, <3>1 DEF redisVars, jobVars, Known, Handed
  <2>3. CASE StartScan(s)
    <3>1. /\ scan'[s].pc = "listed" /\ \A t \in Scans \ {s} : scan'[t] = scan[t]
      BY <2>3 DEF StartScan, Becomes, TypeOK
    <3>2. Scanned' \subseteq Known
      BY <1>4, <3>1 DEF Samples
    <3> QED
      BY <1>3, <2>3, <3>2 DEF StartScan, redisVars, jobVars, Known, Handed
  <2>4. ASSUME NEW r \in Riders, ReadFix(s, r)
        PROVE  Goal
    <3>1. CASE fix[r] = NoFix
      <4>1. scan[s].todo \ {r} \in SUBSET Riders /\ Continue(s, scan[s].todo \ {r})
        BY <2>1, <2>4, <3>1 DEF ReadFix
      <4> QED
        BY <2>2, <2>4, <4>1 DEF ReadFix
    <3>2. CASE fix[r] # NoFix
      <4>1. /\ scan'[s].sample = [rider |-> r, fix |-> fix[r]]
            /\ \A t \in Scans \ {s} : scan'[t] = scan[t]
        BY <2>4, <3>2 DEF ReadFix, Becomes, TypeOK
      <4>2. scan'[s].sample \in Known
        BY <3>2, <4>1 DEF Known, Current
      <4>3. Scanned' \subseteq Known
        BY <1>4, <4>1, <4>2
      <4> QED
        BY <1>3, <2>4, <4>3 DEF ReadFix, redisVars, jobVars, Known, Handed
    <3> QED
      BY <3>1, <3>2
  <2>5. ASSUME NEW pc \in Samples, scan[s].pc \in Samples,
               Becomes(s, [scan[s] EXCEPT !.pc = pc])
        PROVE  Scanned' \subseteq Known
    <3>1. scan'[s].sample = scan[s].sample /\ \A t \in Scans \ {s} : scan'[t] = scan[t]
      BY <2>1, <2>5 DEF Becomes, TypeOK
    <3> QED
      BY <1>4, <2>1, <2>5, <3>1 DEF Known
  <2>6. CASE CompareLast(s)
    <3>1. CASE Becomes(s, [scan[s] EXCEPT !.pc = "newer"])
      <4>1. Scanned' \subseteq Known
        BY <2>5, <2>6, <3>1 DEF CompareLast, Samples
      <4> QED
        BY <1>3, <2>6, <4>1 DEF CompareLast, redisVars, jobVars, Known, Handed
    <3>2. CASE Continue(s, scan[s].todo)
      BY <2>1, <2>2, <2>6, <3>2 DEF CompareLast, Samples
    <3> QED
      BY <2>6, <3>1, <3>2 DEF CompareLast
  <2>7. CASE AddJob(s)
    <3>1. Scanned' \subseteq Known
      BY <2>5, <2>7 DEF AddJob, Samples
    <3>2. Handed' \subseteq Known
      BY <2>1, <2>7 DEF AddJob, Handed, Known, Samples
    <3> QED
      BY <1>3, <2>7, <3>1, <3>2 DEF AddJob, redisVars
  <2>8. CASE SetLast(s) \/ SkipRider(s)
    BY <2>1, <2>2, <2>8 DEF SetLast, SkipRider, Samples
  <2> QED
    BY <1>5, <2>3, <2>4, <2>6, <2>7, <2>8 DEF ScanStep, Handle
<1>6. ASSUME NEW job \in queue, Store(job) \/ Fail(job)
      PROVE  Goal
  <2>1. Handed' \subseteq Handed /\ Scanned' = Scanned
    BY <1>6 DEF Store, Fail, Handed, Scanned
  <2> QED
    BY <1>3, <1>6, <2>1 DEF Store, Fail, redisVars, Known
<1>7. CASE Restart
  <2>1. Scanned' = {}
    BY <1>7 DEF Restart, Scanned, Idle
  <2> QED
    BY <1>3, <1>7, <2>1 DEF Restart, redisVars, jobVars, Known, Handed
<1> QED
  BY <1>1, <1>2, <1>5, <1>6, <1>7
     DEF Next, vars, redisVars, jobVars, ListIndex, CheckIndex, RemoveStale, ExpireLast

\* The triangle: the new place is near the last, and the last was near the others.
LEMMA PathStep ==
    ASSUME IInv, [Next]_vars
    PROVE  NewestOfEpoch' /\ PlausiblePath'
<1> USE DEF IInv
<1>1. Known \subseteq Sample
  BY KnownTypes
<1>2. ASSUME NEW r \in Riders, NEW time \in Times, NEW place \in Places,
             UpdateLocation(r, time, place)
      PROVE  NewestOfEpoch' /\ PlausiblePath'
  <2> DEFINE new == [rider |-> r, fix |-> [time |-> time, place |-> place, epoch |-> epoch[r]]]
  <2>1. /\ fix'[r] = new.fix /\ \A q \in Riders \ {r} : fix'[q] = fix[q]
        /\ UNCHANGED epoch
    BY <1>2 DEF UpdateLocation, TypeOK
  <2>2. Known' \subseteq Known \cup {new}
    <3>1. Handed' = Handed /\ Scanned' = Scanned
      BY <1>2 DEF UpdateLocation, jobVars, Handed, Scanned
    <3>2. Current' \subseteq Current \cup {new}
      BY <2>1 DEF Current
    <3> QED
      BY <3>1, <3>2 DEF Known
  <2>3. new.fix # NoFix /\ epoch[r] \in Nat
    BY LocationsAssumption DEF TypeOK, Times
  <2>4. time \in Int /\ place \in Int
    BY LocationsAssumption DEF Times
  <2>5. fix[r] # NoFix => /\ [rider |-> r, fix |-> fix[r]] \in Known
                         /\ fix[r].epoch = epoch[r] /\ fix[r].time \in Int /\ fix[r].place \in Int
                         /\ time > fix[r].time /\ Distance(fix[r].place, place) <= time - fix[r].time
    <3>1. fix[r] # NoFix => fix[r] \in Fix
      BY DEF TypeOK
    <3>2. fix[r] # NoFix => fix[r].time \in Int /\ fix[r].place \in Int
      BY <3>1, FixIsInt
    <3> QED
      BY <1>2, <3>2 DEF UpdateLocation, Accepts, Known, Current, NewestOfEpoch
  <2>6. ASSUME NEW a \in Known, a.rider = r, a.fix.epoch = epoch[r]
        PROVE  /\ fix[r] # NoFix /\ a.fix.time <= fix[r].time /\ a.fix.time < time
               /\ a.fix.time \in Int /\ a.fix.place \in Int
               /\ Distance(a.fix.place, place) <= time - a.fix.time
    <3>1. a.fix.time \in Int /\ a.fix.place \in Int
      BY <1>1, FixIsInt DEF Sample
    <3>2. fix[r] # NoFix /\ a.fix.time <= fix[r].time
      BY <2>6 DEF NewestOfEpoch
    <3>3. Distance(a.fix.place, fix[r].place) <= Distance(a.fix.time, fix[r].time)
      BY <2>5, <2>6, <3>2 DEF PlausiblePath
    <3> QED
      BY <2>4, <2>5, <3>1, <3>2, <3>3 DEF Distance
  <2> HIDE DEF new
  <2>7. new.rider = r /\ new.fix.epoch = epoch[r] /\ new.fix.time = time /\ new.fix.place = place
    BY DEF new
  <2>8. NewestOfEpoch'
    <3>1. ASSUME NEW a \in Known'
          PROVE  /\ a.fix.epoch <= epoch'[a.rider]
                 /\ a.fix.epoch = epoch'[a.rider] =>
                       fix'[a.rider] # NoFix /\ a.fix.time <= fix'[a.rider].time
      <4>1. CASE a = new
        BY <2>1, <2>3, <2>4, <2>7, <4>1
      <4>2. CASE a \in Known /\ a.rider = r
        <5>1. a.fix.epoch <= epoch[a.rider]
          BY <4>2 DEF NewestOfEpoch
        <5>2. a.fix.epoch = epoch[r] => a.fix.time <= time
          BY <2>4, <2>6, <4>2
        <5> QED
          BY <2>1, <2>3, <2>7, <4>2, <5>1, <5>2
      <4>3. CASE a \in Known /\ a.rider # r
        <5>1. a.rider \in Riders
          BY <1>1, <4>3 DEF Sample
        <5> QED
          BY <2>1, <4>3, <5>1 DEF NewestOfEpoch
      <4> QED
        BY <2>2, <4>1, <4>2, <4>3
    <3>2. \A q \in Riders : fix'[q] # NoFix => fix'[q].epoch = epoch'[q]
      BY <2>1, <2>7 DEF NewestOfEpoch
    <3> QED
      BY <3>1, <3>2 DEF NewestOfEpoch
  <2>9. PlausiblePath'
    <3> SUFFICES ASSUME NEW a \in Known', NEW b \in Known', a.rider = b.rider,
                        a.fix.epoch = b.fix.epoch
                 PROVE  Distance(a.fix.place, b.fix.place) <= Distance(a.fix.time, b.fix.time)
      BY DEF PlausiblePath
    <3>1. CASE a \in Known /\ b \in Known
      BY <3>1 DEF PlausiblePath
    <3>2. CASE a = new /\ b = new
      BY <2>4, <2>7, <3>2 DEF Distance
    <3>3. CASE a \in Known /\ b = new
      <4>1. /\ a.fix.time < time /\ a.fix.time \in Int /\ a.fix.place \in Int
            /\ Distance(a.fix.place, place) <= time - a.fix.time
        BY <2>6, <2>7, <3>3
      <4> QED
        BY <2>4, <2>7, <3>3, <4>1 DEF Distance
    <3>4. CASE a = new /\ b \in Known
      <4>1. /\ b.fix.time < time /\ b.fix.time \in Int /\ b.fix.place \in Int
            /\ Distance(b.fix.place, place) <= time - b.fix.time
        BY <2>6, <2>7, <3>4
      <4> QED
        BY <2>4, <2>7, <3>4, <4>1 DEF Distance
    <3> QED
      BY <2>2, <3>1, <3>2, <3>3, <3>4
  <2> QED
    BY <2>8, <2>9
<1>3. ASSUME Known' \subseteq Known
      PROVE  PlausiblePath'
  BY <1>3 DEF PlausiblePath
<1>4. ASSUME Known' \subseteq Known, UNCHANGED <<fix, epoch>>
      PROVE  NewestOfEpoch'
  BY <1>4 DEF NewestOfEpoch
<1>5. ASSUME Known' \subseteq Known, NEW r \in Riders, ExpireFix(r)
      PROVE  NewestOfEpoch'
  <2>1. /\ fix'[r] = NoFix /\ epoch'[r] = epoch[r] + 1
        /\ \A q \in Riders \ {r} : fix'[q] = fix[q] /\ epoch'[q] = epoch[q]
    BY <1>5 DEF ExpireFix, TypeOK
  <2>2. ASSUME NEW a \in Known'
        PROVE  /\ a.fix.epoch <= epoch'[a.rider]
               /\ a.fix.epoch = epoch'[a.rider] =>
                     fix'[a.rider] # NoFix /\ a.fix.time <= fix'[a.rider].time
    <3>1. a \in Known /\ a.rider \in Riders /\ a.fix.epoch \in Nat
      BY <1>1, <1>5 DEF Sample, Fix
    <3>2. a.fix.epoch <= epoch[a.rider] /\ epoch[a.rider] \in Nat
      BY <3>1 DEF NewestOfEpoch, TypeOK
    <3>3. CASE a.rider = r
      BY <2>1, <3>1, <3>2, <3>3
    <3>4. CASE a.rider # r
      BY <2>1, <3>1, <3>4 DEF NewestOfEpoch
    <3> QED
      BY <3>3, <3>4
  <2> QED
    BY <2>1, <2>2 DEF NewestOfEpoch
<1>6. CASE \A r \in Riders : \A time \in Times, place \in Places : ~UpdateLocation(r, time, place)
  BY <1>3, <1>4, <1>5, <1>6, KnownStays
<1> QED
  BY <1>2, <1>6

-----------------------------------------------------------------------------
(* The theorems.                                                           *)

LEMMA IInvStep == IInv /\ [Next]_vars => IInv'
<1> SUFFICES ASSUME IInv, [Next]_vars PROVE IInv'
  OBVIOUS
<1>1. TypeOK' /\ AddedIsHanded' /\ LastIsHanded'
  BY TypeStep, AddedStep, LastStep DEF IInv
<1>2. NewestOfEpoch' /\ PlausiblePath'
  BY PathStep
<1> QED
  BY <1>1, <1>2 DEF IInv

\* The inductive invariant: the hash has the newest position of its epoch, and a
\* sample whose job was added is in the queue, failed, dropped or stored.
THEOREM Invariance == Spec => []IInv
  BY InitIInv, IInvStep, PTL DEF Spec

\* The scanner never believes that it has handed over what it has not
\* (tracking.cron.ts:48).
THEOREM LastIsHandedAlways == Spec => []LastIsHanded
<1>1. IInv => LastIsHanded
  BY DEF IInv
<1> QED
  BY <1>1, Invariance, PTL

\* All accepted positions of an epoch lie on a path a rider may have gone
\* (tracking.service.ts:39).
THEOREM PlausiblePathAlways == Spec => []PlausiblePath
<1>1. IInv => PlausiblePath
  BY DEF IInv
<1> QED
  BY <1>1, Invariance, PTL

=============================================================================
