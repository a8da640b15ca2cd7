------------------------------ MODULE Sessions ------------------------------
(***************************************************************************)
(* The web-socket clients of ui/server.py: exactly one may hold the helm,  *)
(* the others observe.  Every socket has a handler of its own, and every   *)
(* send is an await at which the other handlers run.  A socket that will   *)
(* not drain is dropped from the clients although it stays open: it is     *)
(* told nothing more, and may still command.                               *)
(***************************************************************************)
EXTENDS Naturals, SequencesExt

CONSTANTS
    Clients,     \* sockets that may be open at once
    Nobody,      \* None in the source
    Readonly,    \* the hosted read-only demo: nobody is ever helm
    MaxBusy      \* bound: handlers busy with something else than reading

ASSUME SessionsAssumption ==
    Nobody \notin Clients /\ Readonly \in BOOLEAN /\ MaxBusy \in Nat

VARIABLES
    listed,      \* clients: the sockets that are sent frames and roles
    order,       \* client_order: every open socket, oldest first
    helm,        \* _helm["ws"]
    told,        \* the role each listed client was last told
    phase,       \* what each socket's handler is at
    toTell       \* the clients a handler in _broadcast_roles has yet to tell

sessionVars == <<listed, order, helm, told, phase, toTell>>

Phases == {"away", "greeting", "telling", "reading", "leaving"}
Roles == {"none", "helm", "observer"}
Role(c) == IF c = helm THEN "helm" ELSE "observer"

SessionsInit ==
    /\ listed = {} /\ order = <<>> /\ helm = Nobody
    /\ told = [c \in Clients |-> "none"]
    /\ phase = [c \in Clients |-> "away"]
    /\ toTell = [c \in Clients |-> {}]

Calm == Cardinality({c \in Clients : phase[c] \notin {"away", "reading"}}) < MaxBusy

TellsItself(h, to) ==     \* mutant: only the asking client is told
    /\ phase' = [phase EXCEPT ![h] = to]
    /\ toTell' = [toTell EXCEPT ![h] = listed' \cap {h}]
(* A handler starts _broadcast_roles: it goes over the clients of now.     *)
Broadcast(h, to) ==
    /\ phase' = [phase EXCEPT ![h] = to]
    /\ toTell' = [toTell EXCEPT ![h] = listed']

Connect(c) ==
    /\ Calm /\ phase[c] = "away"
    /\ listed' = listed \cup {c}
    /\ order' = Append(order, c)
    /\ helm' = IF helm = Nobody /\ ~Readonly THEN c ELSE helm
    /\ phase' = [phase EXCEPT ![c] = "greeting"]
    /\ UNCHANGED <<told, toTell>>

(* The first snapshot has reached the new client.                          *)
Greet(c) ==
    /\ phase[c] = "greeting"
    /\ UNCHANGED <<listed, order, helm, told>>
    /\ Broadcast(c, "telling")

(* Told nothing more, although its socket is open.                         *)
Dropped(c) == listed' = listed \ {c} /\ told' = [told EXCEPT ![c] = "none"]

(* One send of _send_role by handler h.                                    *)
Tell(h, c) ==
    /\ c \in toTell[h]
    /\ toTell' = [toTell EXCEPT ![h] = @ \ {c}]
    /\ \/ told' = [told EXCEPT ![c] = Role(c)] /\ UNCHANGED listed
       \/ Dropped(c)     \* it failed, or 2 s are over
    /\ UNCHANGED <<order, helm, phase>>

EveryoneTold(h) ==
    /\ phase[h] \in {"telling", "leaving"} /\ toTell[h] = {}
    /\ phase' = [phase EXCEPT ![h] = IF @ = "telling" THEN "reading" ELSE "away"]
    /\ UNCHANGED <<listed, order, helm, told, toTell>>

(* A frame of the broadcaster or of the fetch relay that does not drain.   *)
Evict(c) ==
    /\ c \in listed /\ Dropped(c)
    /\ UNCHANGED <<order, helm, phase, toTell>>

TakeHelm(c) ==
    /\ Calm /\ phase[c] = "reading" /\ ~Readonly
    /\ helm' = c
    /\ UNCHANGED <<listed, order, told>>
    /\ Broadcast(c, "telling")

PromotedNone(clients, queue) == Nobody     \* mutant: left vacant
(* _promote_next_helm: the oldest that is still listed.                    *)
Promoted(clients, queue) ==
    LET heirs == {i \in DOMAIN queue : queue[i] \in clients}
    IN IF heirs = {} THEN Nobody ELSE queue[Min(heirs)]

(* The finally block of the handler, up to its first send.  A send to the  *)
(* closed socket fails and changes nothing, for it is listed no more.      *)
Disconnect(c) ==
    /\ phase[c] = "greeting" \/ (phase[c] = "reading" /\ Calm)
    /\ listed' = listed \ {c}
    /\ order' = RemoveFirst(order, c)
    /\ helm' = IF helm = c THEN Promoted(listed', order') ELSE helm
    /\ told' = [told EXCEPT ![c] = "none"]
    /\ phase' = [phase EXCEPT ![c] = "leaving"]
    /\ toTell' = [h \in Clients |-> IF h = c THEN listed' ELSE toTell[h] \ {c}]

SessionsNext ==
    \E c \in Clients :
        \/ Connect(c) \/ Greet(c) \/ EveryoneTold(c) \/ Evict(c)
        \/ TakeHelm(c) \/ Disconnect(c)
        \/ \E h \in Clients : Tell(h, c)

(* A handler that sends roles goes on: each send ends within 2 s.  The     *)
(* greeting has no timeout of its own, but a client that does not drain it *)
(* is evicted by the broadcaster.                                          *)
GoesOn(c) == EveryoneTold(c) \/ \E d \in Clients : Tell(c, d)
GreetedOrDropped(c) ==
    phase[c] = "greeting" /\ c \in listed /\ (Greet(c) \/ Evict(c))

SessionsFairness ==
    \A c \in Clients : WF_sessionVars(GoesOn(c)) /\ WF_sessionVars(GreetedOrDropped(c))

SessionsSpec == SessionsInit /\ [][SessionsNext]_sessionVars
LiveSessions == SessionsSpec /\ SessionsFairness
-----------------------------------------------------------------------------
SessionsTypeOK ==
    /\ listed \subseteq Clients /\ order \in Seq(Clients)
    /\ helm \in Clients \cup {Nobody}
    /\ told \in [Clients -> Roles] /\ phase \in [Clients -> Phases]
    /\ toTell \in [Clients -> SUBSET Clients]

(* Whenever a client is connected somebody holds the helm, and the holder  *)
(* is an open socket: otherwise every order but STOP would be refused.     *)
HelmHeld ==
    /\ listed # {} /\ ~Readonly => helm # Nobody
    /\ helm # Nobody => helm \in ToSet(order)

(* A listed client that was last told another role than it has is about to *)
(* be told: some handler still has it on its list.                         *)
RolesSettle ==
    \A c \in listed :
        \/ told[c] = Role(c)
        \/ phase[c] = "greeting"
        \/ \E h \in Clients : c \in toTell[h]

(* Whoever gains or loses the helm is told so, or is dropped.              *)
RoleReaches ==
    \A c \in Clients :
        c \in listed /\ told[c] # Role(c) ~> c \notin listed \/ told[c] = Role(c)
=============================================================================
