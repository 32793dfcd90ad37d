----------------------------- MODULE LiveTracking -----------------------------
(***************************************************************************)
(* A delivery as its customer follows it: tracking.gateway.ts with rooms   *)
(* of sockets, the handlers of a rider's positions, and the channel of     *)
(* Redis between tracking.service.ts and the gateway, next to the requests *)
(* of Handover, which end a delivery and then its room.                    *)
(*                                                                         *)
(* A handler reads the delivery, awaits, and goes on with what it has read *)
(* while the delivery may end.  There is one server process: no adapter is *)
(* installed that would make rooms reach further.                          *)
(***************************************************************************)
EXTENDS Handover, FiniteSets

CONSTANTS
    Clients,        \* sockets of those who may follow every delivery
    Handlers,       \* handlers of update_location in progress at a time
    MaxMessages,    \* bound on messages in a channel
    NoDelivery

ASSUME LiveTrackingAssumption ==
    /\ MaxMessages \in Nat
    /\ IsFiniteSet(Handlers)
    /\ NoDelivery \notin Deliveries

VARIABLES
    room,           \* who is in the room of each delivery
    asking,         \* what each socket's handler of subscribe_delivery has found
    handler,        \* what each handler of update_location is doing
    channel,        \* messages of delivery:<id>:location not yet emitted
    terminating     \* deliveries that have ended, but whose rooms have not

trackingVars == <<room, asking, handler, channel, terminating>>
vars == <<delivery, payments, room, asking, handler, channel, terminating>>

-----------------------------------------------------------------------------
Idle == [pc |-> "idle"]

HandlerRecord == {Idle} \cup [pc : {"checked", "accepted"}, delivery : Deliveries]

-----------------------------------------------------------------------------
(* Sockets.                                                                *)

\* Mutant of AskToSubscribe: the status is not looked at.
AskToSubscribeExists(c, d) ==
    /\ asking[c] = NoDelivery
    /\ asking' = [asking EXCEPT ![c] = d]
    /\ UNCHANGED <<handoverVars, room, handler, channel, terminating>>

\* The delivery is active, and the user has to do with it.
AskToSubscribe(c, d) ==
    /\ asking[c] = NoDelivery
    /\ IsActive(d)
    /\ asking' = [asking EXCEPT ![c] = d]
    /\ UNCHANGED <<handoverVars, room, handler, channel, terminating>>

Subscribe(c) ==
    /\ asking[c] # NoDelivery
    /\ room' = [room EXCEPT ![asking[c]] = @ \cup {c}]
    /\ asking' = [asking EXCEPT ![c] = NoDelivery]
    /\ UNCHANGED <<handoverVars, handler, channel, terminating>>

Unsubscribe(c, d) ==
    /\ c \in room[d]
    /\ room' = [room EXCEPT ![d] = @ \ {c}]
    /\ UNCHANGED <<handoverVars, asking, handler, channel, terminating>>

\* A socket is closed; whoever comes back has another.
Disconnect(c) ==
    /\ asking[c] # NoDelivery \/ \E d \in Deliveries : c \in room[d]
    /\ room' = [d \in Deliveries |-> room[d] \ {c}]
    /\ asking' = [asking EXCEPT ![c] = NoDelivery]
    /\ UNCHANGED <<handoverVars, handler, channel, terminating>>

-----------------------------------------------------------------------------
(* Positions.                                                              *)

\* Mutant of CheckDelivery: the status is not looked at.
CheckDeliveryExists(h, d) ==
    /\ handler[h] = Idle
    /\ handler' = [handler EXCEPT ![h] = [pc |-> "checked", delivery |-> d]]
    /\ UNCHANGED <<handoverVars, room, asking, channel, terminating>>

CheckDelivery(h, d) ==
    /\ handler[h] = Idle
    /\ IsActive(d)
    /\ handler' = [handler EXCEPT ![h] = [pc |-> "checked", delivery |-> d]]
    /\ UNCHANGED <<handoverVars, room, asking, channel, terminating>>

\* The script accepts the position, or it is stale or an impossible jump.
UpdatePosition(h) ==
    /\ handler[h].pc = "checked"
    /\ \/ handler' = [handler EXCEPT ![h] = [@ EXCEPT !.pc = "accepted"]]
       \/ handler' = [handler EXCEPT ![h] = Idle]
    /\ UNCHANGED <<handoverVars, room, asking, channel, terminating>>

Publish(h) ==
    LET d == handler[h].delivery IN
    /\ handler[h].pc = "accepted"
    /\ channel[d] < MaxMessages
    /\ channel' = [channel EXCEPT ![d] = @ + 1]
    /\ handler' = [handler EXCEPT ![h] = Idle]
    /\ UNCHANGED <<handoverVars, room, asking, terminating>>

\* pmessage: emitted to everybody in the room.
Emit(d) ==
    /\ channel[d] > 0
    /\ channel' = [channel EXCEPT ![d] = @ - 1]
    /\ UNCHANGED <<handoverVars, room, asking, handler, terminating>>

-----------------------------------------------------------------------------
(* The end of a delivery.                                                  *)

\* Mutant of EndDelivery: a delivery that fails keeps its room.
EndDeliveryKeepRoom(d) ==
    /\ Ends(d)
    /\ terminating' = IF delivery'[d].status = "DELIVERED" THEN terminating \cup {d}
                      ELSE terminating
    /\ UNCHANGED <<room, asking, handler, channel>>

\* The transaction is committed first.
EndDelivery(d) ==
    /\ Ends(d)
    /\ terminating' = terminating \cup {d}
    /\ UNCHANGED <<room, asking, handler, channel>>

TerminateDeliveryTracking(d) ==
    /\ d \in terminating
    /\ terminating' = terminating \ {d}
    /\ room' = [room EXCEPT ![d] = {}]
    /\ UNCHANGED <<handoverVars, asking, handler, channel>>

\* The server is stopped: sockets are closed, and what it was doing is over.
Restart ==
    /\ room' = [d \in Deliveries |-> {}]
    /\ asking' = [c \in Clients |-> NoDelivery]
    /\ handler' = [h \in Handlers |-> Idle]
    /\ channel' = [d \in Deliveries |-> 0]
    /\ terminating' = {}
    /\ trackingVars' # trackingVars
    /\ UNCHANGED handoverVars

-----------------------------------------------------------------------------
Init ==
    /\ HandoverInit
    /\ room = [d \in Deliveries |-> {}]
    /\ asking = [c \in Clients |-> NoDelivery]
    /\ handler = [h \in Handlers |-> Idle]
    /\ channel = [d \in Deliveries |-> 0]
    /\ terminating = {}

ClientStep(c) ==
    \/ Subscribe(c) \/ Disconnect(c)
    \/ \E d \in Deliveries : AskToSubscribe(c, d) \/ Unsubscribe(c, d)

Next ==
    \/ \E d \in Deliveries :
          \/ GoesOn(d) /\ UNCHANGED trackingVars
          \/ EndDelivery(d) \/ TerminateDeliveryTracking(d) \/ Emit(d)
          \/ \E h \in Handlers : CheckDelivery(h, d)
    \/ \E h \in Handlers : UpdatePosition(h) \/ Publish(h)
    \/ \E c \in Clients : ClientStep(c)
    \/ Restart

Spec == Init /\ [][Next]_vars

\* What the process has begun it goes on with.
Fairness ==
    /\ \A d \in Deliveries : WF_vars(TerminateDeliveryTracking(d)) /\ WF_vars(Emit(d))
    /\ \A h \in Handlers : WF_vars(UpdatePosition(h) \/ Publish(h))

FairSpec == Spec /\ Fairness

-----------------------------------------------------------------------------
TypeOK ==
    /\ room \in [Deliveries -> SUBSET Clients]
    /\ asking \in [Clients -> Deliveries \cup {NoDelivery}]
    /\ handler \in [Handlers -> HandlerRecord]
    /\ channel \in [Deliveries -> 0..MaxMessages]
    /\ terminating \subseteq Deliveries

\* Only a delivery that has ended is terminated: nobody is sent away from one that
\* goes on (rider-deliveries.service.ts:396, :503).
TerminatedHasEnded == \A d \in terminating : ~IsActive(d)

\* The inductive invariant.
TrackingInv == HandoverInv /\ TypeOK /\ TerminatedHasEnded

Followers(d) == {c \in Clients : c \in room[d] \/ asking[c] = d}
OnTheirWay(d) == {h \in Handlers : handler[h] # Idle /\ handler[h].delivery = d}
UnderWay(d) == Cardinality(OnTheirWay(d)) + channel[d]

\* From its end on a delivery winds down, whatever was in progress then: it stays
\* ended, nobody starts to follow it who had not asked to by then, and no more
\* positions of it are emitted than were under way (tracking.gateway.ts:139, :183).
EndedWindsDown ==
    [][\A d \in Deliveries : ~IsActive(d) =>
          /\ ~IsActive(d)'
          /\ Followers(d)' \subseteq Followers(d)
          /\ UnderWay(d)' <= UnderWay(d)]_vars

\* After a delivery has ended its room falls silent for good: the positions that
\* were being handled come to an end, and no other is taken
\* (tracking.gateway.ts:139, "Reject terminal delivery updates").
Silent(d) ==
    /\ channel[d] = 0
    /\ \A h \in Handlers : handler[h] # Idle => handler[h].delivery # d

EndedFallsSilent == \A d \in Deliveries : ~IsActive(d) ~> []Silent(d)

\* Whoever follows a delivery is sent away when it has ended, delivered or failed
\* (rider-deliveries.service.ts:396, :503).
FollowersAreSentAway ==
    \A d \in Deliveries, c \in Clients :
        c \in room[d] /\ IsActive(d) ~> (c \notin room[d] \/ []IsActive(d))

=============================================================================
