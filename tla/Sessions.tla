------------------------------- MODULE Sessions -------------------------------
(***************************************************************************)
(* The sessions of one user: a row of the table devices each, with the     *)
(* hash of its refresh token and a version.  auth.service.ts logs in,      *)
(* rotates the token and logs out; users.service.ts and                    *)
(* push-dispatch.service.ts save the row for other reasons; the client is  *)
(* that of NetworkClient.kt and AuthRepository.kt.                         *)
(*                                                                         *)
(* refreshTokens reads the row without a lock and updates it only at the   *)
(* version it has read.  The others save() an entity they have loaded:     *)
(* TypeORM reads the row again, and writes every column in which the       *)
(* entity and the row differ, whoever has changed it, at any version.      *)
(* Whether it writes the version too, or increments it, is left open.      *)
(*                                                                         *)
(* Tokens are numbered as they are issued; a row has the number of the     *)
(* token whose hash it stores.                                             *)
(***************************************************************************)
EXTENDS Naturals, FiniteSets

CONSTANTS
    Sessions,      \* ids of rows in devices
    Calls,         \* requests in progress at a time
    Apps,          \* sessions of the mobile app, which stores an id of its own
                   \* (AuthRepository.kt:32); other clients take the id of the
                   \* row from the access token
    MaxTokens,     \* bound: no refresh begins when so many were issued
    MaxVersion,    \* bound: no request begins on a row of that version
    NoCall         \* the client does not wait for an answer

ASSUME SessionsAssumption ==
    /\ Apps \subseteq Sessions
    /\ MaxTokens \in Nat /\ MaxVersion \in Nat
    /\ NoCall \notin Calls

VARIABLES
    row,         \* devices
    issued,      \* tokens issued to each session
    suspended,   \* users.status # ACTIVE
    call,        \* what each request is doing
    held,        \* refresh_token in the storage of the client, 0: none
    waiting,     \* the request whose answer the client waits for
    spent,       \* tokens that were accepted
    missed,      \* sessions with a rotation whose answer no client stores
    overwritten  \* sessions whose row was overwritten with an older copy

clientVars == <<held, waiting>>
ghostVars == <<spent, missed, overwritten>>
vars == <<row, issued, suspended, call, held, waiting, spent, missed, overwritten>>

-----------------------------------------------------------------------------
NoRow == [hash |-> 0, revoked |-> FALSE, version |-> 0]
Row == [hash : Nat, revoked : BOOLEAN, version : Nat]

Idle == [pc |-> "idle"]

Saves == {"logout", "revoke", "push"}
Columns == {"hash", "revoked", "version"}

CallRecord ==
    {Idle}
    \cup [pc : {"checked"}, session : Sessions, read : Row]
    \cup [pc : {"answered"}, session : Sessions, token : Nat]
    \cup [pc : {"loaded"}, session : Sessions, read : Row, kind : Saves]
    \cup [pc : {"differs"}, session : Sessions, read : Row, kind : Saves,
          columns : SUBSET Columns]

Exists(s) == row[s].hash # 0
Becomes(c, record) == call' = [call EXCEPT ![c] = record]

-----------------------------------------------------------------------------
(* Login.                                                                  *)

\* verifyOtpAndLogin inserts a row for every login; the answer may be lost.
Login(s) ==
    /\ ~Exists(s)
    /\ ~suspended
    /\ row' = [row EXCEPT ![s] = [hash |-> 1, revoked |-> FALSE, version |-> 1]]
    /\ issued' = [issued EXCEPT ![s] = 1]
    /\ held' = [held EXCEPT ![s] = 1] \/ held' = held
    /\ UNCHANGED <<suspended, call, waiting, ghostVars>>

\* An administrator suspends the user.
Suspend ==
    /\ ~suspended
    /\ suspended' = TRUE
    /\ UNCHANGED <<row, issued, call, clientVars, ghostVars>>

-----------------------------------------------------------------------------
(* refreshTokens.                                                          *)

\* The row is found if the client sends its id.
Accepts(s, t) ==
    /\ s \notin Apps
    /\ Exists(s)
    /\ ~row[s].revoked
    /\ row[s].hash = t
    /\ ~suspended

Refused(s) == [pc |-> "answered", session |-> s, token |-> 0]

RefreshRead(c, s) ==
    /\ call[c] = Idle
    /\ held[s] # 0
    /\ issued[s] < MaxTokens
    /\ row[s].version < MaxVersion
    /\ Becomes(c, IF Accepts(s, held[s])
                  THEN [pc |-> "checked", session |-> s, read |-> row[s]]
                  ELSE Refused(s))
    /\ UNCHANGED <<row, issued, suspended, held, ghostVars>>

\* The client has one refresh at a time (the mutex).
Refresh(c, s) ==
    /\ waiting[s] = NoCall
    /\ waiting' = [waiting EXCEPT ![s] = c]
    /\ RefreshRead(c, s)

\* Another client with the same storage, or a copy of the request.
Repeat(c, s) ==
    /\ Accepts(s, held[s])
    /\ RefreshRead(c, s)
    /\ UNCHANGED waiting

Answer(c, token) ==
    LET s == call[c].session IN
    IF waiting[s] = c
    THEN Becomes(c, [pc |-> "answered", session |-> s, token |-> token])
    ELSE Becomes(c, Idle)

\* Mutant of Rotate: the update names the id only.
RotateAnyVersion(c) ==
    LET s == call[c].session
        new == issued[s] + 1 IN
    /\ call[c].pc = "checked"
    /\ row' = [row EXCEPT ![s].hash = new, ![s].version = @ + 1]
    /\ issued' = [issued EXCEPT ![s] = new]
    /\ spent' = spent \cup {<<s, call[c].read.hash>>}
    /\ missed' = IF waiting[s] = c THEN missed ELSE missed \cup {s}
    /\ Answer(c, new)
    /\ UNCHANGED <<suspended, clientVars, overwritten>>

Rotate(c) ==
    LET s == call[c].session
        new == issued[s] + 1 IN
    /\ call[c].pc = "checked"
    /\ row[s].version = call[c].read.version
    /\ row' = [row EXCEPT ![s].hash = new, ![s].version = @ + 1]
    /\ issued' = [issued EXCEPT ![s] = new]
    /\ spent' = spent \cup {<<s, call[c].read.hash>>}
    /\ missed' = IF waiting[s] = c THEN missed ELSE missed \cup {s}
    /\ Answer(c, new)
    /\ UNCHANGED <<suspended, clientVars, overwritten>>

\* "Concurrent refresh detected", also when it was another kind of save.
Conflict(c) ==
    /\ call[c].pc = "checked"
    /\ row[call[c].session].version # call[c].read.version
    /\ Answer(c, 0)
    /\ UNCHANGED <<row, issued, suspended, clientVars, ghostVars>>

-----------------------------------------------------------------------------
(* The client: NetworkClient.kt.                                           *)

\* The new tokens are stored; after a refusal the old ones are cleared.
Receive(s) ==
    LET c == waiting[s] IN
    /\ c # NoCall
    /\ call[c].pc = "answered"
    /\ held' = [held EXCEPT ![s] = call[c].token]
    /\ waiting' = [waiting EXCEPT ![s] = NoCall]
    /\ Becomes(c, Idle)
    /\ UNCHANGED <<row, issued, suspended, ghostVars>>

\* The answer will not come, the request may go on.
Dropped(c) == IF call[c].pc = "answered" THEN Becomes(c, Idle) ELSE UNCHANGED call

\* Mutant of LoseAnswer: only a refusal clears the tokens.
LoseAnswerKeepTokens(s) ==
    LET c == waiting[s] IN
    /\ c # NoCall
    /\ waiting' = [waiting EXCEPT ![s] = NoCall]
    /\ Dropped(c)
    /\ UNCHANGED <<row, issued, suspended, held, ghostVars>>

\* Whatever goes wrong clears the tokens.
LoseAnswer(s) ==
    LET c == waiting[s] IN
    /\ c # NoCall
    /\ held' = [held EXCEPT ![s] = 0]
    /\ waiting' = [waiting EXCEPT ![s] = NoCall]
    /\ Dropped(c)
    /\ UNCHANGED <<row, issued, suspended, ghostVars>>

\* The client is stopped before it has stored the answer.
Restart(s) ==
    LET c == waiting[s] IN
    /\ c # NoCall
    /\ waiting' = [waiting EXCEPT ![s] = NoCall]
    /\ missed' = IF call[c].pc = "answered" /\ call[c].token # 0
                 THEN missed \cup {s} ELSE missed
    /\ Dropped(c)
    /\ UNCHANGED <<row, issued, suspended, held, spent, overwritten>>

-----------------------------------------------------------------------------
(* Saves: logout, revokeDevice, and the changes of the push token.         *)

Load(c, s, kind) ==
    /\ call[c] = Idle
    /\ Exists(s)
    /\ kind = "revoke" => ~row[s].revoked
    /\ row[s].version < MaxVersion
    /\ Becomes(c, [pc |-> "loaded", session |-> s, read |-> row[s], kind |-> kind])
    /\ UNCHANGED <<row, issued, suspended, clientVars, ghostVars>>

\* The entity that is saved.
Wanted(c) ==
    IF call[c].kind = "push" THEN call[c].read ELSE [call[c].read EXCEPT !.revoked = TRUE]

\* save() reads the row again and compares.
Compare(c) ==
    LET s == call[c].session
        columns == {column \in Columns : Wanted(c)[column] # row[s][column]} IN
    /\ call[c].pc = "loaded"
    /\ Becomes(c, [pc |-> "differs", session |-> s, read |-> call[c].read,
                   kind |-> call[c].kind, columns |-> columns])
    /\ UNCHANGED <<row, issued, suspended, clientVars, ghostVars>>

\* A client that is told of its logout clears its tokens.
Ended(c) ==
    \/ call[c].kind = "logout" /\ held' = [held EXCEPT ![call[c].session] = 0]
    \/ UNCHANGED held

Older(new, old) ==
    \/ new.hash # old.hash
    \/ old.revoked /\ ~new.revoked
    \/ new.version <= old.version

Written(c, old, version) ==
    LET columns == call[c].columns IN
    [hash    |-> IF "hash" \in columns THEN Wanted(c).hash ELSE old.hash,
     revoked |-> IF "revoked" \in columns THEN Wanted(c).revoked ELSE old.revoked,
     version |-> version]

\* Then it updates the columns that differed; the push token is always one.
Write(c) ==
    LET s == call[c].session IN
    /\ call[c].pc = "differs"
    /\ call[c].columns # {} \/ call[c].kind = "push"
    /\ \E version \in {row[s].version + 1}
                      \cup (IF "version" \in call[c].columns THEN {call[c].read.version}
                            ELSE {}) :
          row' = [row EXCEPT ![s] = Written(c, row[s], version)]
    /\ overwritten' = IF Older(row'[s], row[s]) THEN overwritten \cup {s} ELSE overwritten
    /\ Ended(c)
    /\ Becomes(c, Idle)
    /\ UNCHANGED <<issued, suspended, waiting, spent, missed>>

NothingToWrite(c) ==
    /\ call[c].pc = "differs"
    /\ call[c].columns = {} /\ call[c].kind # "push"
    /\ Ended(c)
    /\ Becomes(c, Idle)
    /\ UNCHANGED <<row, issued, suspended, waiting, ghostVars>>

\* logoutAll is one update of the rows that are not revoked.
LogoutAll ==
    /\ \E s \in Sessions : Exists(s) /\ ~row[s].revoked
    /\ row' = [s \in Sessions |->
                 IF Exists(s) /\ ~row[s].revoked
                 THEN [hash |-> row[s].hash, revoked |-> TRUE, version |-> row[s].version + 1]
                 ELSE row[s]]
    /\ UNCHANGED <<issued, suspended, call, clientVars, ghostVars>>

-----------------------------------------------------------------------------
Init ==
    /\ row = [s \in Sessions |-> NoRow]
    /\ issued = [s \in Sessions |-> 0]
    /\ suspended = FALSE
    /\ call = [c \in Calls |-> Idle]
    /\ held = [s \in Sessions |-> 0]
    /\ waiting = [s \in Sessions |-> NoCall]
    /\ spent = {}
    /\ missed = {}
    /\ overwritten = {}

ClientStep(s) ==
    \/ Receive(s) \/ LoseAnswer(s) \/ Restart(s)
    \/ \E c \in Calls : Refresh(c, s) \/ Repeat(c, s)

ServerStep(c) == Rotate(c) \/ Conflict(c) \/ Compare(c) \/ Write(c) \/ NothingToWrite(c)

Next ==
    \/ \E s \in Sessions :
          \/ Login(s)
          \/ ClientStep(s)
          \/ \E c \in Calls, kind \in Saves : Load(c, s, kind)
    \/ \E c \in Calls : ServerStep(c)
    \/ LogoutAll
    \/ Suspend

Spec == Init /\ [][Next]_vars

-----------------------------------------------------------------------------
TypeOK ==
    /\ row \in [Sessions -> Row]
    /\ issued \in [Sessions -> Nat]
    /\ suspended \in BOOLEAN
    /\ call \in [Calls -> CallRecord]
    /\ held \in [Sessions -> Nat]
    /\ waiting \in [Sessions -> Calls \cup {NoCall}]
    /\ spent \subseteq Sessions \X Nat
    /\ missed \subseteq Sessions
    /\ overwritten \subseteq Sessions

Intact(s) == s \notin overwritten

\* The row of an intact session has the newest token; the older ones are spent or
\* will never be accepted.
NewestIsCurrent ==
    /\ \A s \in Sessions : Intact(s) => row[s].hash = issued[s]
    /\ \A st \in spent : Intact(st[1]) => st[2] < issued[st[1]]
    /\ \A s \in Sessions :
          /\ ~Exists(s) => issued[s] = 0 /\ held[s] = 0 /\ waiting[s] = NoCall
          /\ Exists(s) => issued[s] > 0

\* A copy of an intact row is older than the row, or like it.
CopiesAreOlder ==
    \A c \in Calls : call[c].pc \in {"checked", "loaded", "differs"} =>
        LET s == call[c].session IN
        /\ Exists(s) /\ call[c].read.hash # 0
        /\ call[c].pc = "checked" => ~call[c].read.revoked
        /\ Intact(s) =>
              /\ call[c].read.version <= row[s].version
              /\ call[c].read.version = row[s].version => call[c].read = row[s]

\* An answer is for the client that waits for it, and has the newest token.
AnswersAreAwaited ==
    /\ \A s \in Sessions : waiting[s] # NoCall =>
          /\ call[waiting[s]].pc \in {"checked", "answered"}
          /\ call[waiting[s]].session = s
    /\ \A c \in Calls : call[c].pc = "answered" =>
          LET s == call[c].session IN
          /\ waiting[s] = c
          /\ Intact(s) /\ s \notin missed /\ call[c].token # 0 =>
                call[c].token = row[s].hash

HasNewToken(s) ==
    waiting[s] # NoCall /\ call[waiting[s]].pc = "answered" /\ call[waiting[s]].token # 0

\* The client holds the token of its session, unless its row was overwritten or
\* nobody has stored the answer to a rotation: a second request with the same
\* token, a lost answer or a stop between answer and storage never leaves it with
\* a token that was spent by itself and not known to be (NetworkClient.kt:84).
ClientInStep ==
    \A s \in Sessions :
        held[s] # 0 /\ Intact(s) /\ s \notin missed /\ ~HasNewToken(s) =>
            held[s] = row[s].hash

IInv ==
    /\ TypeOK
    /\ NewestIsCurrent
    /\ CopiesAreOlder
    /\ AnswersAreAwaited
    /\ ClientInStep

-----------------------------------------------------------------------------
\* A token is accepted once, of concurrent refreshes one, and a session that has
\* ended is never rotated and never comes back, unless a save has overwritten its
\* row with an older copy (auth.service.ts:142, users.service.ts:120).
Promise == INSTANCE SessionTokens WITH
    state <- [s \in Sessions |-> IF ~Intact(s) THEN "overwritten"
                                 ELSE IF ~Exists(s) THEN "none"
                                 ELSE IF row[s].revoked THEN "ended" ELSE "live"],
    current <- [s \in Sessions |-> IF Intact(s) THEN row[s].hash ELSE 0],
    spent <- {st \in spent : Intact(st[1])}
ImplementsSessionTokens == Promise!Spec

=============================================================================
