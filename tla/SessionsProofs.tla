---------------------------- MODULE SessionsProofs ----------------------------
(***************************************************************************)
(* What Sessions guarantees for any number of sessions and of requests in  *)
(* progress.                                                               *)
(***************************************************************************)
EXTENDS Sessions, TLAPS

LEMMA CallByPc ==
    ASSUME NEW r \in CallRecord
    PROVE  /\ r # Idle => r.session \in Sessions /\ r.pc # "idle"
           /\ r.pc \in {"checked", "loaded", "differs"} => r # Idle /\ r.read \in Row
           /\ r.pc = "checked" =>
                r \in [pc : {"checked"}, session : Sessions, read : Row]
           /\ r.pc = "answered" =>
                /\ r # Idle
                /\ r \in [pc : {"answered"}, session : Sessions, token : Nat]
           /\ r.pc = "loaded" =>
                r \in [pc : {"loaded"}, session : Sessions, read : Row, kind : Saves]
           /\ r.pc = "differs" =>
                r \in [pc : {"differs"}, session : Sessions, read : Row, kind : Saves,
                       columns : SUBSET Columns]
  BY DEF CallRecord, Idle

LEMMA CallIntro ==
    /\ Idle \in CallRecord
    /\ \A s \in Sessions, read \in Row :
          /\ [pc |-> "checked", session |-> s, read |-> read] \in CallRecord
          /\ \A kind \in Saves :
                /\ [pc |-> "loaded", session |-> s, read |-> read, kind |-> kind] \in CallRecord
                /\ \A columns \in SUBSET Columns :
                      [pc |-> "differs", session |-> s, read |-> read, kind |-> kind,
                       columns |-> columns] \in CallRecord
    /\ \A s \in Sessions, token \in Nat :
          [pc |-> "answered", session |-> s, token |-> token] \in CallRecord
  BY DEF CallRecord

LEMMA IdlePc == Idle.pc = "idle"
  BY DEF Idle

\* The record that an answer leaves.
LEMMA AnswerTypes ==
    ASSUME TypeOK, NEW c \in Calls, call[c] # Idle, NEW token \in Nat, Answer(c, token)
    PROVE  /\ call' \in [Calls -> CallRecord]
           /\ \A d \in Calls \ {c} : call'[d] = call[d]
           /\ IF waiting[call[c].session] = c
              THEN call'[c] = [pc |-> "answered", session |-> call[c].session, token |-> token]
              ELSE call'[c] = Idle
<1>1. call[c].session \in Sessions
  BY CallByPc DEF TypeOK
<1>2. [pc |-> "answered", session |-> call[c].session, token |-> token] \in CallRecord
  BY <1>1, CallIntro
<1> QED
  BY <1>2, CallIntro DEF Answer, Becomes, TypeOK

\* The row that a save leaves.
LEMMA WrittenTypes ==
    ASSUME TypeOK, NEW c \in Calls, call[c].pc = "differs", NEW old \in Row,
           NEW version \in Nat, call[c].read.hash # 0, old.hash # 0
    PROVE  /\ Written(c, old, version) \in Row
           /\ Written(c, old, version).hash # 0
           /\ Written(c, old, version).version = version
<1>1. call[c].read \in Row
  BY CallByPc DEF TypeOK
<1>2. Wanted(c) \in Row /\ Wanted(c).hash = call[c].read.hash
  BY <1>1 DEF Wanted, Row
<1> QED
  BY <1>1, <1>2 DEF Written, Row

-----------------------------------------------------------------------------
(* Type correctness.                                                       *)

LEMMA IInvInit == Init => IInv
<1> SUFFICES ASSUME Init PROVE IInv
  OBVIOUS
<1>1. TypeOK
  BY CallIntro DEF Init, TypeOK, NoRow, Row
<1> QED
  BY <1>1, IdlePc DEF Init, IInv, NewestIsCurrent, CopiesAreOlder, AnswersAreAwaited,
     ClientInStep, Exists, NoRow, Intact

LEMMA TypeStep ==
    ASSUME TypeOK, CopiesAreOlder, [Next]_vars
    PROVE  TypeOK'
<1> USE DEF TypeOK
<1>1. ASSUME NEW s \in Sessions, Login(s)
      PROVE  TypeOK'
  BY <1>1 DEF Login, Row, ghostVars
<1>2. ASSUME NEW s \in Sessions, NEW c \in Calls, RefreshRead(c, s)
      PROVE  call' \in [Calls -> CallRecord]
  BY <1>2, CallIntro DEF RefreshRead, Becomes, Refused
<1>3. ASSUME NEW s \in Sessions, NEW c \in Calls, Refresh(c, s) \/ Repeat(c, s)
      PROVE  TypeOK'
  BY <1>2, <1>3 DEF Refresh, Repeat, RefreshRead, ghostVars
<1>4. ASSUME NEW s \in Sessions, Receive(s) \/ LoseAnswer(s) \/ Restart(s)
      PROVE  TypeOK'
  <2> DEFINE c == waiting[s]
  <2>1. c \in Calls
    BY <1>4 DEF Receive, LoseAnswer, Restart
  <2>2. call' \in [Calls -> CallRecord]
    <3>1. Becomes(c, Idle) \/ UNCHANGED call
      BY <1>4 DEF Receive, LoseAnswer, Restart, Dropped
    <3>2. Idle \in CallRecord
      BY CallIntro
    <3> HIDE DEF c
    <3> QED
      BY <3>1, <3>2, <2>1 DEF Becomes
  <2>3. Receive(s) => call[c].token \in Nat
    BY <2>1, CallByPc DEF Receive
  <2> QED
    BY <1>4, <2>1, <2>2, <2>3 DEF Receive, LoseAnswer, Restart, ghostVars
<1>5. ASSUME NEW c \in Calls, Rotate(c) \/ Conflict(c)
      PROVE  TypeOK'
  <2>1. /\ call[c] # Idle /\ call[c].session \in Sessions /\ call[c].read \in Row
    BY <1>5, CallByPc DEF Rotate, Conflict
  <2>2. call' \in [Calls -> CallRecord]
    <3>1. PICK token \in Nat : Answer(c, token)
      BY <1>5, <2>1 DEF Rotate, Conflict
    <3> QED
      BY <2>1, <3>1, AnswerTypes
  <2>3. CASE Conflict(c)
    BY <2>2, <2>3 DEF Conflict, clientVars, ghostVars
  <2>4. CASE Rotate(c)
    <3> DEFINE s == call[c].session
               new == issued[s] + 1
    <3>1. [row EXCEPT ![s].hash = new, ![s].version = @ + 1] \in [Sessions -> Row]
      BY <2>1 DEF Row
    <3>2. row' \in [Sessions -> Row] /\ issued' \in [Sessions -> Nat]
      BY <2>1, <2>4, <3>1 DEF Rotate
    <3>3. spent' \subseteq Sessions \X Nat /\ missed' \subseteq Sessions
      BY <2>1, <2>4 DEF Rotate, Row
    <3> QED
      BY <2>2, <2>4, <3>2, <3>3 DEF Rotate, clientVars
  <2> QED
    BY <1>5, <2>3, <2>4
<1>6. ASSUME NEW s \in Sessions, NEW c \in Calls, NEW kind \in Saves, Load(c, s, kind)
      PROVE  TypeOK'
  BY <1>6, CallIntro DEF Load, Becomes, clientVars, ghostVars
<1>7. ASSUME NEW c \in Calls, Compare(c)
      PROVE  TypeOK'
  <2>1. call[c].session \in Sessions /\ call[c].read \in Row /\ call[c].kind \in Saves
    BY <1>7, CallByPc DEF Compare
  <2> QED
    BY <1>7, <2>1, CallIntro DEF Compare, Becomes, clientVars, ghostVars
<1>8. ASSUME NEW c \in Calls, Write(c) \/ NothingToWrite(c)
      PROVE  TypeOK'
  <2> DEFINE s == call[c].session
  <2>1. s \in Sessions /\ call[c].read \in Row /\ call[c].pc = "differs"
    BY <1>8, CallByPc DEF Write, NothingToWrite
  <2>2. row[s].hash # 0 /\ call[c].read.hash # 0
    BY <2>1 DEF CopiesAreOlder, Exists
  <2>3. call' \in [Calls -> CallRecord] /\ held' \in [Sessions -> Nat]
    BY <1>8, CallIntro DEF Write, NothingToWrite, Becomes, Ended
  <2>4. CASE NothingToWrite(c)
    BY <2>3, <2>4 DEF NothingToWrite, ghostVars
  <2>5. CASE Write(c)
    <3>1. PICK version \in {row[s].version + 1} \cup {call[c].read.version} :
             row' = [row EXCEPT ![s] = Written(c, row[s], version)]
      BY <2>5 DEF Write
    <3>2. version \in Nat
      BY <2>1 DEF Row
    <3>3. row' \in [Sessions -> Row]
      BY <2>1, <2>2, <3>1, <3>2, WrittenTypes
    <3>4. overwritten' \subseteq Sessions
      BY <2>1, <2>5 DEF Write
    <3> QED
      BY <2>3, <2>5, <3>3, <3>4 DEF Write
  <2> QED
    BY <1>8, <2>4, <2>5
<1>9. CASE LogoutAll
  <2>1. ASSUME NEW s \in Sessions
        PROVE  [hash |-> row[s].hash, revoked |-> TRUE, version |-> row[s].version + 1] \in Row
    BY DEF Row
  <2>2. row' \in [Sessions -> Row]
    BY <1>9, <2>1 DEF LogoutAll
  <2> QED
    BY <1>9, <2>2 DEF LogoutAll, clientVars, ghostVars
<1>10. CASE Suspend
  BY <1>10 DEF Suspend, clientVars, ghostVars
<1>11. CASE UNCHANGED vars
  BY <1>11 DEF vars
<1> QED
  BY <1>1, <1>3, <1>4, <1>5, <1>6, <1>7, <1>8, <1>9, <1>10, <1>11
     DEF Next, ClientStep, ServerStep

-----------------------------------------------------------------------------
(* Rows.                                                                   *)

\* A row stays; if it is intact, it is as it was or has a greater version, and
\* another token only by a rotation.
LEMMA RowGrows ==
    ASSUME TypeOK, NewestIsCurrent, CopiesAreOlder, [Next]_vars, NEW s \in Sessions, Exists(s)
    PROVE  /\ Exists(s)'
           /\ Intact(s)' => /\ Intact(s)
                            /\ row'[s] = row[s] \/ row'[s].version > row[s].version
<1> USE DEF TypeOK
<1>1. row[s] \in Row
  OBVIOUS
<1>2. CASE UNCHANGED <<row, overwritten>>
  BY <1>2 DEF Exists, Intact
<1>3. ASSUME NEW r \in Sessions, Login(r)
      PROVE  /\ row'[s] = row[s] /\ UNCHANGED overwritten
  BY <1>3 DEF Login, Exists, ghostVars
<1>4. ASSUME NEW c \in Calls, Rotate(c)
      PROVE  /\ Exists(s)' /\ UNCHANGED overwritten
             /\ row'[s] = row[s] \/ row'[s].version > row[s].version
  <2>1. call[c].session \in Sessions
    BY <1>4, CallByPc DEF Rotate
  <2>2. issued[call[c].session] + 1 # 0 /\ issued[call[c].session] + 1 \in Nat
    BY <2>1
  <2>3. row[s].version + 1 > row[s].version
    BY <1>1 DEF Row
  <2>4. row'[s] = row[s] \/ /\ row'[s].hash # 0
                            /\ row'[s].version = row[s].version + 1
    BY <1>1, <1>4, <2>1, <2>2 DEF Rotate, Row
  <2> QED
    BY <1>4, <2>3, <2>4 DEF Rotate, Exists
<1>5. ASSUME NEW c \in Calls, Write(c)
      PROVE  /\ Exists(s)'
             /\ Intact(s)' => /\ Intact(s)
                              /\ row'[s] = row[s] \/ row'[s].version > row[s].version
  <2> DEFINE t == call[c].session
  <2>1. t \in Sessions /\ call[c].read \in Row /\ call[c].pc = "differs"
    BY <1>5, CallByPc DEF Write
  <2>2. row[t].hash # 0 /\ call[c].read.hash # 0 /\ row[t] \in Row
    BY <2>1 DEF CopiesAreOlder, Exists
  <2>3. PICK version \in {row[t].version + 1} \cup {call[c].read.version} :
           row' = [row EXCEPT ![t] = Written(c, row[t], version)]
    BY <1>5 DEF Write
  <2>4. version \in Nat
    BY <2>1, <2>2 DEF Row
  <2>5. Written(c, row[t], version) \in Row /\ Written(c, row[t], version).hash # 0
    BY <2>1, <2>2, <2>4, WrittenTypes
  <2>6. Exists(s)'
    BY <2>3, <2>5 DEF Exists
  <2>7. CASE s # t
    BY <1>5, <2>3, <2>6, <2>7 DEF Write, Intact
  <2>8. ASSUME s = t, Intact(s)'
        PROVE  Intact(s) /\ row'[s].version > row[s].version
    <3>1. Intact(s) /\ ~Older(row'[s], row[s])
      BY <1>5, <2>1, <2>8 DEF Write, Intact
    <3>2. row'[s].version \in Nat /\ row[s].version \in Nat
      BY <2>1, <2>3, <2>5, <2>8 DEF Row
    <3> QED
      BY <3>1, <3>2 DEF Older
  <2> QED
    BY <2>6, <2>7, <2>8
<1>6. CASE LogoutAll
  <2>1. row'[s] = row[s] \/ /\ row'[s].hash = row[s].hash
                            /\ row'[s].version = row[s].version + 1
    BY <1>6 DEF LogoutAll
  <2>2. row[s].version + 1 > row[s].version
    BY <1>1 DEF Row
  <2> QED
    BY <1>6, <2>1, <2>2 DEF LogoutAll, Exists, Intact, ghostVars
<1>7. CASE UNCHANGED vars
  BY <1>2, <1>7 DEF vars
<1>8. ASSUME NEW r \in Sessions, ClientStep(r) \/ \E c \in Calls, kind \in Saves : Load(c, r, kind)
      PROVE  UNCHANGED <<row, overwritten>>
  BY <1>8 DEF ClientStep, Receive, LoseAnswer, Restart, Refresh, Repeat, RefreshRead, Load,
     ghostVars
<1>9. ASSUME NEW c \in Calls, Conflict(c) \/ Compare(c) \/ NothingToWrite(c) \/ Suspend
      PROVE  UNCHANGED <<row, overwritten>>
  BY <1>9 DEF Conflict, Compare, NothingToWrite, Suspend, ghostVars
<1>10. CASE Suspend
  BY <1>2, <1>10 DEF Suspend, ghostVars
<1> QED
  BY <1>2, <1>3, <1>4, <1>5, <1>6, <1>7, <1>8, <1>9, <1>10 DEF Next, ServerStep, Exists, Intact

\* Where the copy of a request comes from: it had it, or it has read the row now.
LEMMA CopiesKeep ==
    ASSUME TypeOK, NewestIsCurrent, [Next]_vars, NEW c \in Calls,
           call'[c].pc \in {"checked", "loaded", "differs"}
    PROVE  \/ /\ call[c].pc \in {"checked", "loaded", "differs"}
              /\ call'[c].session = call[c].session /\ call'[c].read = call[c].read
              /\ call'[c].pc = "checked" => call[c].pc = "checked"
           \/ /\ UNCHANGED <<row, overwritten>>
              /\ call'[c].session \in Sessions /\ Exists(call'[c].session)
              /\ call'[c].read = row[call'[c].session]
              /\ call'[c].pc = "checked" => ~row[call'[c].session].revoked
<1> USE DEF TypeOK
<1> DEFINE Goal == \/ /\ call[c].pc \in {"checked", "loaded", "differs"}
                      /\ call'[c].session = call[c].session /\ call'[c].read = call[c].read
                      /\ call'[c].pc = "checked" => call[c].pc = "checked"
                   \/ /\ UNCHANGED <<row, overwritten>>
                      /\ call'[c].session \in Sessions /\ Exists(call'[c].session)
                      /\ call'[c].read = row[call'[c].session]
                      /\ call'[c].pc = "checked" => ~row[call'[c].session].revoked
<1>1. CASE call'[c] = call[c]
  BY <1>1
<1>2. CASE call'[c] = Idle
  BY <1>2, IdlePc
<1>3. ASSUME NEW s \in Sessions, NEW d \in Calls, RefreshRead(d, s)
      PROVE  Goal
  <2>1. CASE Accepts(s, held[s]) /\ d = c
    <3>1. call'[c] = [pc |-> "checked", session |-> s, read |-> row[s]]
      BY <1>3, <2>1 DEF RefreshRead, Becomes
    <3> QED
      BY <1>3, <2>1, <3>1 DEF RefreshRead, Accepts, ghostVars
  <2>2. CASE ~Accepts(s, held[s]) /\ d = c
    <3>1. call'[c].pc = "answered"
      BY <1>3, <2>2 DEF RefreshRead, Becomes, Refused
    <3> QED
      BY <3>1
  <2>3. CASE d # c
    BY <1>1, <1>3, <2>3 DEF RefreshRead, Becomes
  <2> QED
    BY <2>1, <2>2, <2>3
<1>4. ASSUME NEW d \in Calls, Rotate(d) \/ Conflict(d)
      PROVE  Goal
  <2>1. call[d] # Idle /\ call[d].session \in Sessions
    BY <1>4, CallByPc DEF Rotate, Conflict
  <2>2. PICK token \in Nat : Answer(d, token)
    BY <1>4, <2>1 DEF Rotate, Conflict
  <2>3. call'[c] = call[c] \/ call'[c] = Idle \/ call'[c].pc = "answered"
    <3>1. \/ call'[d] = Idle
          \/ call'[d] = [pc |-> "answered", session |-> call[d].session, token |-> token]
      BY <2>1, <2>2, AnswerTypes
    <3>2. c # d => call'[c] = call[c]
      BY <2>1, <2>2, AnswerTypes
    <3> QED
      BY <3>1, <3>2
  <2> QED
    BY <1>1, <1>2, <2>3
<1>5. ASSUME NEW s \in Sessions, Receive(s) \/ LoseAnswer(s) \/ Restart(s)
      PROVE  call'[c] = call[c] \/ call'[c] = Idle
  <2>1. Becomes(waiting[s], Idle) \/ UNCHANGED call
    BY <1>5 DEF Receive, LoseAnswer, Restart, Dropped
  <2> QED
    BY <2>1 DEF Becomes
<1>6. ASSUME NEW s \in Sessions, NEW d \in Calls, NEW kind \in Saves, Load(d, s, kind)
      PROVE  Goal
  <2>1. CASE d = c
    <3>1. call'[c] = [pc |-> "loaded", session |-> s, read |-> row[s], kind |-> kind]
      BY <1>6, <2>1 DEF Load, Becomes
    <3> QED
      BY <1>6, <3>1 DEF Load, ghostVars
  <2> QED
    BY <1>1, <1>6, <2>1 DEF Load, Becomes
<1>7. ASSUME NEW d \in Calls, Compare(d)
      PROVE  Goal
  <2>1. CASE d = c
    BY <1>7, <2>1 DEF Compare, Becomes
  <2> QED
    BY <1>1, <1>7, <2>1 DEF Compare, Becomes
<1>8. ASSUME NEW d \in Calls, Write(d) \/ NothingToWrite(d)
      PROVE  call'[c] = call[c] \/ call'[c] = Idle
  BY <1>8 DEF Write, NothingToWrite, Becomes
<1>9. CASE UNCHANGED call
  BY <1>1, <1>9
<1>10. CASE UNCHANGED vars
  BY <1>9, <1>10 DEF vars
<1>11. CASE LogoutAll \/ Suspend \/ \E s \in Sessions : Login(s)
  BY <1>9, <1>11 DEF LogoutAll, Suspend, Login
<1> QED
  BY <1>1, <1>2, <1>3, <1>4, <1>5, <1>6, <1>7, <1>8, <1>10, <1>11
     DEF Next, ClientStep, ServerStep, Refresh, Repeat

LEMMA CopiesStep ==
    ASSUME TypeOK, NewestIsCurrent, CopiesAreOlder, [Next]_vars
    PROVE  CopiesAreOlder'
<1> SUFFICES ASSUME NEW c \in Calls, call'[c].pc \in {"checked", "loaded", "differs"}
             PROVE  \A s : s = call'[c].session =>
                      /\ Exists(s)' /\ call'[c].read.hash # 0
                      /\ call'[c].pc = "checked" => ~call'[c].read.revoked
                      /\ Intact(s)' =>
                            /\ call'[c].read.version <= row'[s].version
                            /\ call'[c].read.version = row'[s].version =>
                                  call'[c].read = row'[s]
  BY DEF CopiesAreOlder, Exists, Intact
<1> TAKE s
<1> HAVE s = call'[c].session
<1>1. CASE /\ call[c].pc \in {"checked", "loaded", "differs"}
           /\ call'[c].session = call[c].session /\ call'[c].read = call[c].read
           /\ call'[c].pc = "checked" => call[c].pc = "checked"
  <2>1. s \in Sessions /\ call[c].read \in Row /\ row[s] \in Row
    BY <1>1, CallByPc DEF TypeOK
  <2>2. /\ Exists(s) /\ call[c].read.hash # 0
        /\ call[c].pc = "checked" => ~call[c].read.revoked
        /\ Intact(s) => /\ call[c].read.version <= row[s].version
                        /\ call[c].read.version = row[s].version => call[c].read = row[s]
    BY <1>1 DEF CopiesAreOlder
  <2>3. /\ Exists(s)'
        /\ Intact(s)' => /\ Intact(s)
                         /\ row'[s] = row[s] \/ row'[s].version > row[s].version
    BY <2>1, <2>2, RowGrows
  <2>4. row'[s].version \in Nat
    BY <2>1, TypeStep DEF TypeOK, Row
  <2>5. call[c].read.version \in Nat /\ row[s].version \in Nat
    BY <2>1 DEF Row
  <2>6. Intact(s)' /\ row'[s].version > row[s].version =>
           /\ call[c].read.version <= row'[s].version
           /\ call[c].read.version # row'[s].version
    BY <2>2, <2>3, <2>4, <2>5
  <2> QED
    BY <1>1, <2>2, <2>3, <2>6
<1>2. CASE /\ UNCHANGED <<row, overwritten>>
           /\ call'[c].session \in Sessions /\ Exists(call'[c].session)
           /\ call'[c].read = row[call'[c].session]
           /\ call'[c].pc = "checked" => ~row[call'[c].session].revoked
  <2>1. row[s].version <= row[s].version
    BY <1>2 DEF TypeOK, Row
  <2> QED
    BY <1>2, <2>1 DEF Exists, Intact
<1> QED
  BY <1>1, <1>2, CopiesKeep

-----------------------------------------------------------------------------
(* Tokens.                                                                 *)

\* What a rotation does to an intact row.
LEMMA RotateIntact ==
    ASSUME TypeOK, NewestIsCurrent, CopiesAreOlder, NEW c \in Calls, Rotate(c)
    PROVE  LET s == call[c].session IN
           /\ s \in Sessions /\ Exists(s)
           /\ row'[s].hash = issued[s] + 1 /\ row'[s].revoked = row[s].revoked
           /\ issued'[s] = issued[s] + 1 /\ issued[s] \in Nat
           /\ \A t \in Sessions \ {s} : row'[t] = row[t] /\ issued'[t] = issued[t]
           /\ Intact(s) => /\ call[c].read.hash = row[s].hash /\ row[s].hash = issued[s]
                           /\ ~row[s].revoked
<1>1. call[c].session \in Sessions /\ call[c].read \in Row /\ call[c].pc = "checked"
  BY CallByPc DEF Rotate, TypeOK
<1>2. row[call[c].session].version = call[c].read.version
  BY DEF Rotate
<1>3. row'[call[c].session].hash = issued[call[c].session] + 1
      /\ row'[call[c].session].revoked = row[call[c].session].revoked
  BY <1>1 DEF Rotate, TypeOK, Row
<1> QED
  BY <1>1, <1>2, <1>3 DEF Rotate, TypeOK, NewestIsCurrent, CopiesAreOlder

LEMMA NewestStep ==
    ASSUME IInv, [Next]_vars
    PROVE  NewestIsCurrent'
<1> USE DEF IInv, TypeOK
<1>1. CASE UNCHANGED <<row, issued, spent, held, waiting, overwritten>>
  BY <1>1 DEF NewestIsCurrent, Exists, Intact
<1>2. ASSUME NEW s \in Sessions, Login(s)
      PROVE  NewestIsCurrent'
  BY <1>2 DEF Login, NewestIsCurrent, Exists, Intact, ghostVars
<1>3. ASSUME NEW s \in Sessions, NEW c \in Calls, Refresh(c, s)
      PROVE  NewestIsCurrent'
  BY <1>3 DEF Refresh, RefreshRead, NewestIsCurrent, Exists, Intact, ghostVars
<1>4. ASSUME NEW s \in Sessions, Receive(s) \/ LoseAnswer(s) \/ Restart(s)
      PROVE  NewestIsCurrent'
  <2>1. Exists(s) /\ UNCHANGED <<row, issued, spent, overwritten>>
        /\ waiting' = [waiting EXCEPT ![s] = NoCall]
        /\ \A t \in Sessions \ {s} : held'[t] = held[t]
    BY <1>4 DEF Receive, LoseAnswer, Restart, NewestIsCurrent, ghostVars
  <2> QED
    BY <2>1 DEF NewestIsCurrent, Exists, Intact
<1>5. ASSUME NEW c \in Calls, Rotate(c)
      PROVE  NewestIsCurrent'
  <2> DEFINE s == call[c].session
  <2>1. /\ s \in Sessions /\ Exists(s)
        /\ row'[s].hash = issued[s] + 1 /\ issued'[s] = issued[s] + 1 /\ issued[s] \in Nat
        /\ \A t \in Sessions \ {s} : row'[t] = row[t] /\ issued'[t] = issued[t]
        /\ Intact(s) => /\ call[c].read.hash = row[s].hash /\ row[s].hash = issued[s]
    BY <1>5, RotateIntact
  <2>2. /\ spent' = spent \cup {<<s, call[c].read.hash>>}
        /\ UNCHANGED <<held, waiting, overwritten>>
    BY <1>5 DEF Rotate, clientVars
  <2> HIDE DEF s
  <2>3. \A t \in Sessions : Intact(t)' => row'[t].hash = issued'[t]
    BY <2>1, <2>2 DEF NewestIsCurrent, Intact
  <2>4. ASSUME NEW st \in spent', Intact(st[1])
        PROVE  st[2] < issued'[st[1]]
    <3>1. CASE st = <<s, call[c].read.hash>>
      BY <2>1, <2>4, <3>1
    <3>2. CASE st \in spent
      <4>1. st[2] < issued[st[1]] /\ st[1] \in Sessions /\ st[2] \in Nat
        BY <2>4, <3>2 DEF NewestIsCurrent
      <4>2. CASE st[1] = s
        BY <2>1, <4>1, <4>2
      <4>3. CASE st[1] # s
        BY <2>1, <4>1, <4>3
      <4> QED
        BY <4>2, <4>3
    <3> QED
      BY <2>2, <3>1, <3>2
  <2>5. \A t \in Sessions : Exists(t)' <=> Exists(t)
    BY <2>1 DEF Exists
  <2>6. \A t \in Sessions : Exists(t) => issued'[t] > 0
    <3>1. issued'[s] > 0
      BY <2>1
    <3> QED
      BY <2>1, <3>1 DEF NewestIsCurrent
  <2>7. \A t \in Sessions : ~Exists(t) => issued'[t] = 0 /\ held[t] = 0 /\ waiting[t] = NoCall
    BY <2>1 DEF NewestIsCurrent
  <2> QED
    BY <2>2, <2>3, <2>4, <2>5, <2>6, <2>7 DEF NewestIsCurrent, Intact
<1>6. ASSUME NEW c \in Calls, Write(c)
      PROVE  NewestIsCurrent'
  <2> DEFINE t == call[c].session
  <2>1. t \in Sessions /\ Exists(t)
    BY <1>6, CallByPc DEF Write, CopiesAreOlder
  <2>2. /\ UNCHANGED <<issued, spent, waiting>>
        /\ \A s \in Sessions : held'[s] = held[s] \/ s = t
        /\ \A s \in Sessions : row'[s] = row[s] \/ s = t
        /\ overwritten \subseteq overwritten'
        /\ t \notin overwritten' => row'[t].hash = row[t].hash
    BY <1>6, <2>1 DEF Write, Ended, Older
  <2>3. \A s \in Sessions : Exists(s)' <=> Exists(s)
    BY <2>1, <2>2, RowGrows DEF Exists
  <2> HIDE DEF t
  <2> QED
    BY <2>1, <2>2, <2>3 DEF NewestIsCurrent, Intact
<1>7. ASSUME NEW c \in Calls, NothingToWrite(c)
      PROVE  NewestIsCurrent'
  BY <1>7 DEF NothingToWrite, Ended, NewestIsCurrent, Exists, Intact, ghostVars
<1>8. CASE LogoutAll
  <2>1. \A s \in Sessions : row'[s].hash = row[s].hash
    BY <1>8 DEF LogoutAll
  <2> QED
    BY <1>8, <2>1 DEF LogoutAll, NewestIsCurrent, Exists, Intact, clientVars, ghostVars
<1>9. CASE UNCHANGED vars
  BY <1>1, <1>9 DEF vars
<1>10. CASE \E s \in Sessions, c \in Calls : Repeat(c, s) \/ \E kind \in Saves : Load(c, s, kind)
  BY <1>1, <1>10 DEF Repeat, RefreshRead, Load, clientVars, ghostVars
<1>11. CASE Suspend \/ \E c \in Calls : Conflict(c) \/ Compare(c)
  BY <1>1, <1>11 DEF Suspend, Conflict, Compare, clientVars, ghostVars
<1> QED
  BY <1>2, <1>3, <1>4, <1>5, <1>6, <1>7, <1>8, <1>9, <1>10, <1>11
     DEF Next, ClientStep, ServerStep

\* Only a rotation changes the token of an intact row.
LEMMA HashKeeps ==
    ASSUME IInv, [Next]_vars, ~ \E c \in Calls : Rotate(c), NEW s \in Sessions, Exists(s),
           s \notin overwritten'
    PROVE  row'[s].hash = row[s].hash /\ s \notin overwritten
<1> USE DEF IInv, TypeOK
<1>1. CASE UNCHANGED <<row, overwritten>>
  BY <1>1
<1>2. ASSUME NEW r \in Sessions, Login(r)
      PROVE  row'[s].hash = row[s].hash /\ s \notin overwritten
  BY <1>2 DEF Login, Exists, ghostVars
<1>3. ASSUME NEW c \in Calls, Write(c)
      PROVE  row'[s].hash = row[s].hash /\ s \notin overwritten
  <2>1. call[c].session \in Sessions
    BY <1>3, CallByPc DEF Write
  <2> QED
    BY <1>3, <2>1 DEF Write, Older
<1>4. CASE LogoutAll
  BY <1>4 DEF LogoutAll, ghostVars
<1>5. CASE UNCHANGED vars
  BY <1>1, <1>5 DEF vars
<1>6. ASSUME NEW r \in Sessions, ClientStep(r) \/ \E c \in Calls, kind \in Saves : Load(c, r, kind)
      PROVE  UNCHANGED <<row, overwritten>>
  BY <1>6 DEF ClientStep, Receive, LoseAnswer, Restart, Refresh, Repeat, RefreshRead, Load,
     ghostVars
<1>7. ASSUME NEW c \in Calls, Conflict(c) \/ Compare(c) \/ NothingToWrite(c)
      PROVE  UNCHANGED <<row, overwritten>>
  BY <1>7 DEF Conflict, Compare, NothingToWrite, ghostVars
<1>8. CASE Suspend
  BY <1>1, <1>8 DEF Suspend, ghostVars
<1> QED
  BY <1>1, <1>2, <1>3, <1>4, <1>5, <1>6, <1>7, <1>8 DEF Next, ServerStep

\* A step that leaves the clients and the requests they wait for alone.
LEMMA NobodyWaits ==
    ASSUME IInv, [Next]_vars, ~ \E c \in Calls : Rotate(c),
           UNCHANGED <<waiting, missed>>,
           \A s \in Sessions : held'[s] \in {0, held[s]},
           \A c \in Calls : \/ call'[c] = call[c]
                            \/ /\ call[c].pc \notin {"checked", "answered"}
                               /\ call'[c].pc # "answered"
    PROVE  AnswersAreAwaited' /\ ClientInStep'
<1> USE DEF IInv, TypeOK
<1>1. ASSUME NEW s \in Sessions, waiting[s] # NoCall
      PROVE  call'[waiting[s]] = call[waiting[s]]
  BY <1>1 DEF AnswersAreAwaited
<1>2. ASSUME NEW c \in Calls, call'[c].pc = "answered"
      PROVE  call'[c] = call[c] /\ call[c].session \in Sessions /\ Exists(call[c].session)
             /\ call[c].token \in Nat
  <2>1. call'[c] = call[c] /\ call[c].session \in Sessions /\ call[c].token \in Nat
    BY <1>2, CallByPc
  <2>2. waiting[call[c].session] = c
    BY <1>2, <2>1 DEF AnswersAreAwaited
  <2> QED
    BY <2>1, <2>2, SessionsAssumption DEF NewestIsCurrent
<1>3. AnswersAreAwaited'
  BY <1>1, <1>2, HashKeeps DEF AnswersAreAwaited, Intact
<1>4. ClientInStep'
  <2> SUFFICES ASSUME NEW s \in Sessions, held'[s] # 0, s \notin overwritten', s \notin missed',
                      ~HasNewToken(s)'
               PROVE  held'[s] = row'[s].hash
    BY DEF ClientInStep, Intact
  <2>1. held'[s] = held[s] /\ Exists(s)
    BY DEF NewestIsCurrent
  <2>2. ~HasNewToken(s)
    BY <1>1 DEF HasNewToken
  <2> QED
    BY <2>1, <2>2, HashKeeps DEF ClientInStep, Intact
<1> QED
  BY <1>3, <1>4

LEMMA AnswersStep ==
    ASSUME IInv, [Next]_vars
    PROVE  AnswersAreAwaited' /\ ClientInStep'
<1> USE DEF IInv, TypeOK
<1> DEFINE Goal == AnswersAreAwaited' /\ ClientInStep'
<1>1. ASSUME NEW c \in Calls, Compare(c) \/ Write(c) \/ NothingToWrite(c)
      PROVE  Goal
  <2>1. ~ \E d \in Calls : Rotate(d)
    <3>1. UNCHANGED issued
      BY <1>1 DEF Compare, Write, NothingToWrite
    <3>2. ASSUME NEW d \in Calls, Rotate(d)
          PROVE  FALSE
      <4>1. issued'[call[d].session] = issued[call[d].session] + 1
            /\ issued[call[d].session] \in Nat
        BY <3>2, RotateIntact
      <4> QED
        BY <3>1, <4>1
    <3> QED
      BY <3>2
  <2>2. /\ UNCHANGED <<waiting, missed>>
        /\ \A s \in Sessions : held'[s] \in {0, held[s]}
    BY <1>1 DEF Compare, Write, NothingToWrite, Ended, clientVars, ghostVars
  <2>3. \A d \in Calls : \/ call'[d] = call[d]
                         \/ /\ call[d].pc \notin {"checked", "answered"}
                            /\ call'[d].pc # "answered"
    BY <1>1, IdlePc DEF Compare, Write, NothingToWrite, Becomes
  <2> QED
    BY <2>1, <2>2, <2>3, NobodyWaits
<1>2. CASE LogoutAll \/ Suspend \/ UNCHANGED vars \/ \E s \in Sessions, c \in Calls, kind \in Saves :
                                                        Load(c, s, kind)
  <2>1. ~ \E d \in Calls : Rotate(d)
    <3>1. UNCHANGED issued
      BY <1>2 DEF LogoutAll, Suspend, vars, Load
    <3>2. ASSUME NEW d \in Calls, Rotate(d)
          PROVE  FALSE
      <4>1. issued'[call[d].session] = issued[call[d].session] + 1
            /\ issued[call[d].session] \in Nat
        BY <3>2, RotateIntact
      <4> QED
        BY <3>1, <4>1
    <3> QED
      BY <3>2
  <2>2. UNCHANGED <<held, waiting, missed>>
    BY <1>2 DEF LogoutAll, Suspend, vars, Load, clientVars, ghostVars
  <2>3. \A d \in Calls : \/ call'[d] = call[d]
                         \/ /\ call[d].pc \notin {"checked", "answered"}
                            /\ call'[d].pc # "answered"
    BY <1>2, IdlePc DEF LogoutAll, Suspend, vars, Load, Becomes
  <2> QED
    BY <2>1, <2>2, <2>3, NobodyWaits
<1>3. ASSUME NEW s \in Sessions, Login(s)
      PROVE  Goal
  <2>1. /\ ~Exists(s) /\ UNCHANGED <<call, waiting, missed, overwritten>>
        /\ row'[s].hash = 1 /\ held'[s] \in {0, 1} /\ waiting[s] = NoCall
        /\ \A t \in Sessions \ {s} : row'[t] = row[t] /\ held'[t] = held[t]
    BY <1>3 DEF Login, ghostVars, NewestIsCurrent
  <2>2. \A c \in Calls : call[c].pc = "answered" => call[c].session # s
    BY <2>1, SessionsAssumption DEF AnswersAreAwaited
  <2>3. \A c \in Calls : call[c].pc = "answered" => call[c].session \in Sessions
    BY CallByPc
  <2>4. AnswersAreAwaited'
    BY <2>1, <2>2, <2>3 DEF AnswersAreAwaited, Intact
  <2>5. ClientInStep'
    BY <2>1 DEF ClientInStep, HasNewToken, Intact
  <2> QED
    BY <2>4, <2>5
<1>4. ASSUME NEW s \in Sessions, NEW c \in Calls, Refresh(c, s) \/ Repeat(c, s)
      PROVE  Goal
  <2>1. /\ call[c] = Idle
        /\ UNCHANGED <<row, held, missed, overwritten>>
        /\ call'[c] \in {[pc |-> "checked", session |-> s, read |-> row[s]], Refused(s)}
        /\ \A d \in Calls \ {c} : call'[d] = call[d]
        /\ \A t \in Sessions \ {s} : waiting'[t] = waiting[t]
        /\ \/ waiting[s] = NoCall /\ waiting'[s] = c
           \/ /\ waiting'[s] = waiting[s]
              /\ call'[c] = [pc |-> "checked", session |-> s, read |-> row[s]]
    BY <1>4 DEF Refresh, Repeat, RefreshRead, Becomes, ghostVars
  <2>2. \A t \in Sessions : waiting[t] # c
    BY <2>1, IdlePc, SessionsAssumption DEF AnswersAreAwaited
  <2>3. /\ call'[c].pc \in {"checked", "answered"} /\ call'[c].session = s
        /\ call'[c].pc = "answered" => call'[c].token = 0
    BY <2>1 DEF Refused
  <2>4. \A d \in Calls : call[d].pc = "answered" => waiting[call[d].session] = d
                                                    /\ call[d].session \in Sessions
    BY CallByPc DEF AnswersAreAwaited
  <2>5. AnswersAreAwaited'
    <3>1. ASSUME NEW t \in Sessions, waiting'[t] # NoCall
          PROVE  /\ call'[waiting'[t]].pc \in {"checked", "answered"}
                 /\ call'[waiting'[t]].session = t
      BY <2>1, <2>2, <2>3, <3>1 DEF AnswersAreAwaited
    <3>2. ASSUME NEW d \in Calls, call'[d].pc = "answered"
          PROVE  \A t : t = call'[d].session =>
                    /\ waiting'[t] = d
                    /\ t \notin overwritten' /\ t \notin missed' /\ call'[d].token # 0 =>
                          call'[d].token = row'[t].hash
      <4>1. CASE d = c
        BY <2>1, <2>3, <3>2, <4>1
      <4>2. CASE d # c
        BY <2>1, <2>4, <3>2, <4>2, SessionsAssumption DEF AnswersAreAwaited, Intact
      <4> QED
        BY <4>1, <4>2
    <3> QED
      BY <3>1, <3>2 DEF AnswersAreAwaited, Intact
  <2>6. ASSUME NEW t \in Sessions, HasNewToken(t)
        PROVE  HasNewToken(t)'
    BY <2>1, <2>2, <2>6, SessionsAssumption DEF HasNewToken
  <2>7. ClientInStep'
    BY <2>1, <2>6 DEF ClientInStep, Intact
  <2> QED
    BY <2>5, <2>7
<1>5. ASSUME NEW s \in Sessions, Receive(s) \/ LoseAnswer(s) \/ Restart(s)
      PROVE  Goal
  <2> DEFINE c == waiting[s]
  <2>1. /\ c \in Calls /\ UNCHANGED <<row, overwritten>> /\ missed \subseteq missed'
        /\ waiting'[s] = NoCall
        /\ \A t \in Sessions \ {s} : waiting'[t] = waiting[t] /\ held'[t] = held[t]
        /\ \A d \in Calls \ {c} : call'[d] = call[d]
        /\ call'[c].pc # "answered"
        /\ call[c].session = s /\ call[c].pc \in {"checked", "answered"}
    BY <1>5, IdlePc DEF Receive, LoseAnswer, Restart, Dropped, Becomes, ghostVars,
       AnswersAreAwaited
  <2>2. held'[s] # 0 /\ s \notin overwritten /\ s \notin missed' => held'[s] = row[s].hash
    <3>1. CASE Receive(s)
      <4>1. held'[s] = call[c].token /\ call[c].pc = "answered" /\ missed' = missed
        BY <3>1 DEF Receive, ghostVars
      <4> QED
        BY <2>1, <4>1 DEF AnswersAreAwaited, Intact
    <3>2. CASE LoseAnswer(s)
      BY <3>2 DEF LoseAnswer
    <3>3. CASE Restart(s)
      <4>1. /\ held' = held
            /\ missed' = IF call[c].pc = "answered" /\ call[c].token # 0
                         THEN missed \cup {s} ELSE missed
        BY <3>3 DEF Restart
      <4> QED
        BY <4>1 DEF ClientInStep, HasNewToken, Intact
    <3> QED
      BY <1>5, <3>1, <3>2, <3>3
  <2>3. \A t \in Sessions \ {s} : waiting[t] # c
    <3> SUFFICES ASSUME NEW t \in Sessions \ {s}, waiting[t] = c PROVE FALSE
      OBVIOUS
    <3>1. c # NoCall
      BY <1>5 DEF Receive, LoseAnswer, Restart
    <3>2. call[waiting[t]].session = t
      BY <3>1 DEF AnswersAreAwaited
    <3> QED
      BY <2>1, <3>2
  <2>4. \A d \in Calls : call[d].pc = "answered" => call[d].session \in Sessions
    BY CallByPc
  <2> HIDE DEF c
  <2>5. AnswersAreAwaited'
    <3>1. ASSUME NEW t \in Sessions, waiting'[t] # NoCall
          PROVE  /\ call'[waiting'[t]].pc \in {"checked", "answered"}
                 /\ call'[waiting'[t]].session = t
      BY <2>1, <2>3, <3>1 DEF AnswersAreAwaited
    <3>2. ASSUME NEW d \in Calls, call'[d].pc = "answered"
          PROVE  \A t : t = call'[d].session =>
                    /\ waiting'[t] = d
                    /\ t \notin overwritten' /\ t \notin missed' /\ call'[d].token # 0 =>
                          call'[d].token = row'[t].hash
      <4>1. d # c /\ call'[d] = call[d]
        BY <2>1, <3>2
      <4>2. call[d].session # s
        BY <2>1, <3>2, <4>1 DEF AnswersAreAwaited, c
      <4> QED
        BY <2>1, <2>4, <3>2, <4>1, <4>2 DEF AnswersAreAwaited, Intact
    <3> QED
      BY <3>1, <3>2 DEF AnswersAreAwaited, Intact
  <2>6. ASSUME NEW t \in Sessions \ {s}
        PROVE  HasNewToken(t)' <=> HasNewToken(t)
    BY <2>1, <2>3 DEF HasNewToken
  <2>7. ClientInStep'
    BY <2>1, <2>2, <2>6 DEF ClientInStep, Intact
  <2> QED
    BY <2>5, <2>7
<1>6. ASSUME NEW c \in Calls, Rotate(c) \/ Conflict(c)
      PROVE  Goal
  <2>1. PICK s \in Sessions : s = call[c].session
    BY <1>6, CallByPc DEF Rotate, Conflict
  <2>2. call[c] # Idle /\ call[c].pc = "checked"
    BY <1>6, CallByPc DEF Rotate, Conflict
  <2>3. PICK token \in Nat :
           /\ Answer(c, token)
           /\ \/ token # 0 /\ token = row'[s].hash /\ missed' = (IF waiting[s] = c THEN missed
                                                                ELSE missed \cup {s})
              \/ token = 0 /\ row'[s] = row[s] /\ missed' = missed
    <3>1. CASE Conflict(c)
      BY <2>1, <3>1 DEF Conflict, ghostVars
    <3>2. CASE Rotate(c)
      <4>1. /\ issued[s] + 1 \in Nat /\ issued[s] + 1 # 0
            /\ row'[s].hash = issued[s] + 1
        BY <2>1, <3>2, RotateIntact
      <4>2. Answer(c, issued[s] + 1) /\ missed' = (IF waiting[s] = c THEN missed
                                                   ELSE missed \cup {s})
        BY <2>1, <3>2 DEF Rotate
      <4> QED
        BY <4>1, <4>2
    <3> QED
      BY <1>6, <3>1, <3>2
  <2>4. /\ UNCHANGED <<held, waiting, overwritten>>
        /\ \A t \in Sessions \ {s} : row'[t] = row[t]
    BY <1>6, <2>1 DEF Rotate, Conflict, clientVars, ghostVars
  <2>5. /\ \A d \in Calls \ {c} : call'[d] = call[d]
        /\ waiting[s] = c =>
              call'[c] = [pc |-> "answered", session |-> s, token |-> token]
        /\ waiting[s] # c => call'[c] = Idle
    <3>1. IF waiting[call[c].session] = c
          THEN call'[c] = [pc |-> "answered", session |-> call[c].session, token |-> token]
          ELSE call'[c] = Idle
      BY <2>2, <2>3, AnswerTypes
    <3>2. \A d \in Calls \ {c} : call'[d] = call[d]
      BY <2>2, <2>3, AnswerTypes
    <3> QED
      BY <2>1, <3>1, <3>2
  <2>6. \A t \in Sessions \ {s} : waiting[t] # c
    <3> SUFFICES ASSUME NEW t \in Sessions \ {s}, waiting[t] = c PROVE FALSE
      OBVIOUS
    <3>1. c # NoCall
      BY SessionsAssumption
    <3>2. call[waiting[t]].session = t
      BY <3>1 DEF AnswersAreAwaited
    <3> QED
      BY <2>1, <3>2
  <2>7. \A d \in Calls : call[d].pc = "answered" => call[d].session \in Sessions
    BY CallByPc
  <2>8. AnswersAreAwaited'
    <3>1. ASSUME NEW t \in Sessions, waiting'[t] # NoCall
          PROVE  /\ call'[waiting'[t]].pc \in {"checked", "answered"}
                 /\ call'[waiting'[t]].session = t
      <4>1. CASE waiting[t] = c
        BY <2>4, <2>5, <2>6, <4>1
      <4>2. CASE waiting[t] # c
        BY <2>4, <2>5, <3>1, <4>2 DEF AnswersAreAwaited
      <4> QED
        BY <4>1, <4>2
    <3>2. ASSUME NEW d \in Calls, call'[d].pc = "answered"
          PROVE  \A t : t = call'[d].session =>
                    /\ waiting'[t] = d
                    /\ t \notin overwritten' /\ t \notin missed' /\ call'[d].token # 0 =>
                          call'[d].token = row'[t].hash
      <4>1. CASE d = c
        <5>1. waiting[s] = c
          BY <2>5, <3>2, <4>1, IdlePc
        <5> QED
          BY <2>3, <2>4, <2>5, <4>1, <5>1
      <4>2. CASE d # c
        <5>1. call'[d] = call[d] /\ waiting[call[d].session] = d
          BY <2>5, <3>2, <4>2 DEF AnswersAreAwaited
        <5>2. CASE call[d].session = s
          BY <2>3, <2>4, <3>2, <4>2, <5>1, <5>2 DEF AnswersAreAwaited, Intact
        <5>3. CASE call[d].session # s
          BY <2>3, <2>4, <2>7, <3>2, <4>2, <5>1, <5>3 DEF AnswersAreAwaited, Intact
        <5> QED
          BY <5>2, <5>3
      <4> QED
        BY <4>1, <4>2
    <3> QED
      BY <3>1, <3>2 DEF AnswersAreAwaited, Intact
  <2>9. ClientInStep'
    <3> SUFFICES ASSUME NEW t \in Sessions, held'[t] # 0, t \notin overwritten',
                        t \notin missed', ~HasNewToken(t)'
                 PROVE  held'[t] = row'[t].hash
      BY DEF ClientInStep, Intact
    <3>1. CASE t # s
      <4>1. ~HasNewToken(t)
        BY <2>4, <2>5, <2>6, <3>1 DEF HasNewToken
      <4> QED
        BY <2>3, <2>4, <3>1, <4>1 DEF ClientInStep, Intact
    <3>2. CASE t = s /\ waiting[s] = c
      <4>1. token = 0
        BY <2>4, <2>5, <3>2, SessionsAssumption DEF HasNewToken
      <4>2. ~HasNewToken(t)
        BY <2>2, <3>2 DEF HasNewToken
      <4> QED
        BY <2>3, <2>4, <3>2, <4>1, <4>2 DEF ClientInStep, Intact
    <3>3. CASE t = s /\ waiting[s] # c
      <4>1. token = 0
        BY <2>3, <3>3
      <4>2. ~HasNewToken(t)
        BY <2>4, <2>5, <3>3 DEF HasNewToken
      <4> QED
        BY <2>3, <2>4, <3>3, <4>1, <4>2 DEF ClientInStep, Intact
    <3> QED
      BY <3>1, <3>2, <3>3
  <2> QED
    BY <2>8, <2>9
<1> QED
  BY <1>1, <1>2, <1>3, <1>4, <1>5, <1>6 DEF Next, ClientStep, ServerStep

LEMMA IInvStep == IInv /\ [Next]_vars => IInv'
<1> SUFFICES ASSUME IInv, [Next]_vars PROVE IInv'
  OBVIOUS
<1>1. TypeOK'
  BY TypeStep DEF IInv
<1>2. NewestIsCurrent'
  BY NewestStep
<1>3. CopiesAreOlder'
  BY CopiesStep DEF IInv
<1>4. AnswersAreAwaited' /\ ClientInStep'
  BY AnswersStep
<1> QED
  BY <1>1, <1>2, <1>3, <1>4 DEF IInv

-----------------------------------------------------------------------------
(* The theorems.                                                           *)

\* The inductive invariant: an intact row has the newest token, a copy of it that
\* has its version is equal to it, and an answer has the newest token.
THEOREM Invariance == Spec => []IInv
  BY IInvInit, IInvStep, PTL DEF Spec

\* Types: tokens, rows and the copies that requests have read.
THEOREM TypeCorrect == Spec => []TypeOK
<1>1. IInv => TypeOK
  BY DEF IInv
<1> QED
  BY <1>1, Invariance, PTL

\* The client and the server agree on the token (NetworkClient.kt:84).
THEOREM ClientInStepAlways == Spec => []ClientInStep
<1>1. IInv => ClientInStep
  BY DEF IInv
<1> QED
  BY <1>1, Invariance, PTL

-----------------------------------------------------------------------------
(* Refinement.                                                             *)

\* Every step is one of the promise, or none.
LEMMA PromiseStep ==
    ASSUME IInv, IInv', [Next]_vars
    PROVE  [Promise!Next]_(Promise!vars)
<1> USE DEF IInv
<1> DEFINE StateOf(s) == IF ~Intact(s) THEN "overwritten"
                         ELSE IF ~Exists(s) THEN "none"
                         ELSE IF row[s].revoked THEN "ended" ELSE "live"
           state == [s \in Sessions |-> StateOf(s)]
           CurrentOf(s) == IF Intact(s) THEN row[s].hash ELSE 0
           current == [s \in Sessions |-> CurrentOf(s)]
           accepted == {st \in spent : Intact(st[1])}
           Stutter == state' = state /\ current' = current /\ accepted' = accepted
           Goal == [Promise!Next]_(Promise!vars)
<1>1. ASSUME Stutter PROVE Goal
  BY <1>1 DEF Promise!vars, Intact, Exists
<1>2. CASE UNCHANGED <<row, overwritten, spent>>
  BY <1>1, <1>2 DEF Intact, Exists
<1>3. ASSUME NEW s \in Sessions, Login(s)
      PROVE  Goal
  <2>1. /\ ~Exists(s) /\ row'[s] = [hash |-> 1, revoked |-> FALSE, version |-> 1]
        /\ \A t \in Sessions \ {s} : row'[t] = row[t]
        /\ UNCHANGED <<spent, overwritten>>
    BY <1>3 DEF Login, ghostVars, TypeOK
  <2>2. row'[s].hash = 1 /\ ~row'[s].revoked
    BY <2>1
  <2>3. CASE ~Intact(s)
    BY <1>1, <2>1, <2>3 DEF Intact, Exists
  <2>4. CASE Intact(s)
    <3>1. \A t \in Sessions : StateOf(t)' = IF t = s THEN "live" ELSE StateOf(t)
      BY <2>1, <2>2, <2>4 DEF Intact, Exists
    <3>2. \A t \in Sessions : CurrentOf(t)' = IF t = s THEN 1 ELSE CurrentOf(t)
      BY <2>1, <2>2, <2>4 DEF Intact
    <3>3. state[s] = "none" /\ accepted' = accepted
      BY <2>1, <2>4 DEF Intact
    <3>4. state' = [state EXCEPT ![s] = "live"] /\ current' = [current EXCEPT ![s] = 1]
      BY <3>1, <3>2
    <3> QED
      BY <3>3, <3>4 DEF Promise!Next, Promise!Start, Intact, Exists
  <2> QED
    BY <2>3, <2>4
<1>4. ASSUME NEW c \in Calls, Rotate(c)
      PROVE  Goal
  <2>0. PICK s \in Sessions : s = call[c].session
    BY <1>4, CallByPc DEF Rotate, TypeOK
  <2>1. /\ Exists(s)
        /\ row'[s].hash = issued[s] + 1 /\ row'[s].revoked = row[s].revoked
        /\ issued'[s] = issued[s] + 1 /\ issued[s] \in Nat
        /\ \A t \in Sessions \ {s} : row'[t] = row[t]
        /\ Intact(s) => /\ call[c].read.hash = row[s].hash /\ row[s].hash = issued[s]
                        /\ ~row[s].revoked
    BY <1>4, <2>0, RotateIntact
  <2>2. spent' = spent \cup {<<s, call[c].read.hash>>} /\ UNCHANGED overwritten
    BY <1>4, <2>0 DEF Rotate
  <2>3. \A t \in Sessions : StateOf(t)' = StateOf(t)
    BY <2>1, <2>2 DEF Intact, Exists
  <2>4. CASE s \in overwritten
    <3>1. \A t \in Sessions : CurrentOf(t)' = CurrentOf(t)
      BY <2>1, <2>2, <2>4 DEF Intact
    <3>2. accepted' = accepted
      BY <2>2, <2>4 DEF Intact
    <3> QED
      BY <1>1, <2>3, <3>1, <3>2
  <2>5. CASE s \notin overwritten
    <3>1. state' = state /\ state[s] = "live"
      BY <2>1, <2>3, <2>5 DEF Intact
    <3>2. current[s] = row[s].hash /\ current'[s] = issued[s] + 1
      BY <2>1, <2>2, <2>5 DEF Intact
    <3>3. current' = [current EXCEPT ![s] = current'[s]]
      <4>1. \A t \in Sessions \ {s} : CurrentOf(t)' = CurrentOf(t)
        BY <2>1, <2>2 DEF Intact
      <4> QED
        BY <4>1
    <3>4. accepted' = accepted \cup {<<s, current[s]>>}
      BY <2>1, <2>2, <2>5, <3>2 DEF Intact
    <3>5. <<s, current[s]>> \notin accepted
      BY <2>1, <2>5, <3>2 DEF NewestIsCurrent, Intact
    <3>6. <<s, current'[s]>> \notin accepted'
      BY <2>1, <2>2, <2>5, <3>2 DEF NewestIsCurrent, Intact
    <3>7. current'[s] \in Nat
      BY <2>1, <3>2
    <3> HIDE DEF state, current, accepted
    <3>8. Promise!Rotate(s)
      BY <3>1, <3>3, <3>4, <3>5, <3>6, <3>7
         DEF Promise!Rotate, state, current, accepted, Intact, Exists
    <3> QED
      BY <2>1, <3>8 DEF Promise!Next
  <2> QED
    BY <2>4, <2>5
<1>5. ASSUME NEW c \in Calls, Write(c)
      PROVE  Goal
  <2>0. PICK s \in Sessions : s = call[c].session
    BY <1>5, CallByPc DEF Write, TypeOK
  <2>1. Exists(s) /\ Exists(s)'
    <3>1. Exists(s)
      BY <1>5, <2>0 DEF Write, CopiesAreOlder
    <3> QED
      BY <3>1, RowGrows
  <2>2. /\ \A t \in Sessions \ {s} : row'[t] = row[t]
        /\ overwritten' = IF Older(row'[s], row[s]) THEN overwritten \cup {s} ELSE overwritten
        /\ UNCHANGED spent
    BY <1>5, <2>0 DEF Write, TypeOK
  <2>3. CASE s \in overwritten
    BY <1>1, <2>1, <2>2, <2>3 DEF Intact, Exists
  <2>4. CASE s \notin overwritten /\ s \in overwritten'
    <3>1. overwritten' = overwritten \cup {s}
      BY <2>2, <2>4
    <3>2. /\ \A t \in Sessions : StateOf(t)' = IF t = s THEN "overwritten" ELSE StateOf(t)
          /\ \A t \in Sessions : CurrentOf(t)' = IF t = s THEN 0 ELSE CurrentOf(t)
      BY <2>2, <3>1 DEF Intact, Exists
    <3>3. accepted' = {st \in accepted : st[1] # s}
      BY <2>2, <3>1 DEF Intact
    <3>4. state' = [state EXCEPT ![s] = "overwritten"] /\ current' = [current EXCEPT ![s] = 0]
      BY <3>2
    <3>5. Promise!Overwrite(s)
      BY <3>3, <3>4 DEF Promise!Overwrite, Intact, Exists
    <3> QED
      BY <2>1, <3>5 DEF Promise!Next
  <2>5. CASE s \notin overwritten'
    <3>1. /\ UNCHANGED overwritten /\ s \notin overwritten
          /\ row'[s].hash = row[s].hash /\ (row[s].revoked => row'[s].revoked)
      BY <2>2, <2>5 DEF Older
    <3>2. accepted' = accepted /\ \A t \in Sessions : CurrentOf(t)' = CurrentOf(t)
      BY <2>2, <3>1 DEF Intact
    <3>3. CASE row'[s].revoked <=> row[s].revoked
      <4>1. \A t \in Sessions : StateOf(t)' = StateOf(t)
        BY <2>1, <2>2, <3>1, <3>3 DEF Intact, Exists
      <4> QED
        BY <1>1, <3>2, <4>1
    <3>4. CASE row'[s].revoked /\ ~row[s].revoked
      <4>1. \A t \in Sessions : StateOf(t)' = IF t \in {s} THEN "ended" ELSE StateOf(t)
        BY <2>1, <2>2, <3>1, <3>4 DEF Intact, Exists
      <4>2. state[s] = "live" /\ current' = current
        BY <2>1, <3>1, <3>2, <3>4 DEF Intact
      <4>3. state' = [t \in Sessions |-> IF t \in {s} THEN "ended" ELSE state[t]]
        BY <4>1
      <4>4. Promise!End({s})
        BY <3>2, <4>2, <4>3 DEF Promise!End, Intact, Exists
      <4> QED
        BY <2>1, <4>4 DEF Promise!Next
    <3> QED
      BY <3>1, <3>3, <3>4
  <2> QED
    BY <2>3, <2>4, <2>5
<1>6. CASE LogoutAll
  <2>0. PICK ended \in SUBSET Sessions :
           ended = {s \in Sessions : Intact(s) /\ Exists(s) /\ ~row[s].revoked}
    OBVIOUS
  <2>1. /\ \A s \in Sessions : /\ row'[s].hash = row[s].hash
                               /\ Exists(s) => row'[s].revoked
        /\ UNCHANGED <<spent, overwritten>>
    BY <1>6 DEF LogoutAll, ghostVars
  <2>2. \A s \in Sessions : /\ StateOf(s)' = IF s \in ended THEN "ended" ELSE StateOf(s)
                            /\ CurrentOf(s)' = CurrentOf(s)
    BY <2>0, <2>1 DEF Intact, Exists
  <2>3. /\ \A s \in ended : state[s] = "live"
        /\ current' = current /\ accepted' = accepted
    BY <2>0, <2>1, <2>2 DEF Intact, Exists
  <2>4. state' = [s \in Sessions |-> IF s \in ended THEN "ended" ELSE state[s]]
    BY <2>2
  <2>5. Promise!End(ended)
    BY <2>3, <2>4 DEF Promise!End, Intact, Exists
  <2> QED
    BY <2>5 DEF Promise!Next
<1>7. CASE UNCHANGED vars
  BY <1>2, <1>7 DEF vars
<1>8. ASSUME NEW s \in Sessions, ClientStep(s) \/ \E c \in Calls, kind \in Saves : Load(c, s, kind)
      PROVE  UNCHANGED <<row, overwritten, spent>>
  BY <1>8 DEF ClientStep, Receive, LoseAnswer, Restart, Refresh, Repeat, RefreshRead, Load,
     ghostVars
<1>9. ASSUME NEW c \in Calls, Conflict(c) \/ Compare(c) \/ NothingToWrite(c)
      PROVE  UNCHANGED <<row, overwritten, spent>>
  BY <1>9 DEF Conflict, Compare, NothingToWrite, ghostVars
<1>10. CASE Suspend
  BY <1>2, <1>10 DEF Suspend, ghostVars
<1> QED
  BY <1>2, <1>3, <1>4, <1>5, <1>6, <1>7, <1>8, <1>9, <1>10 DEF Next, ServerStep

\* A token is accepted once, and a session that has ended stays so, unless its row
\* is overwritten with an older copy of itself.
THEOREM Implements == Spec => ImplementsSessionTokens
<1>1. Init => Promise!Init
  BY DEF Init, Promise!Init, Intact, Exists, NoRow
<1>2. IInv /\ IInv' /\ [Next]_vars => [Promise!Next]_(Promise!vars)
  BY PromiseStep
<1> QED
  BY <1>1, <1>2, Invariance, PTL DEF Spec, ImplementsSessionTokens, Promise!Spec

=============================================================================
