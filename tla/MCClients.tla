----------------------------- MODULE MCClients ------------------------------
(* The parts that serve the clients and the host, for TLC.  They share no  *)
(* variable and no event, so one run checks them one by one: a behaviour   *)
(* is of one part, and the variables of the others keep their first values.*)
EXTENDS Sessions, FetchRelay, PhoneSensors, HostUpdate, SelfUpdate

VARIABLE part

AloneVars == <<sessionVars, relayVars, phoneVars, hostVars, selfVars>>
Parts == {"sessions", "relay", "phone", "host", "self"}

Init ==
    /\ part \in Parts
    /\ SessionsInit /\ RelayInit /\ PhoneInit /\ HostInit /\ SelfInit

Next ==
    \/ /\ part = "sessions" /\ SessionsNext
       /\ UNCHANGED <<part, relayVars, phoneVars, hostVars, selfVars>>
    \/ /\ part = "relay" /\ RelayNext
       /\ UNCHANGED <<part, sessionVars, phoneVars, hostVars, selfVars>>
    \/ /\ part = "phone" /\ PhoneNext
       /\ UNCHANGED <<part, sessionVars, relayVars, hostVars, selfVars>>
    \/ /\ part = "host" /\ HostNext
       /\ UNCHANGED <<part, sessionVars, relayVars, phoneVars, selfVars>>
    \/ /\ part = "self" /\ ~mishap /\ SelfNext     \* bound: it ends at a mishap
       /\ UNCHANGED <<part, sessionVars, relayVars, phoneVars, hostVars>>

(* SessionsFairness and that of LiveSelf, each when its part runs.          *)
Fairness ==
    /\ \A c \in Clients :
        /\ WF_sessionVars(part = "sessions" /\ GoesOn(c))
        /\ WF_sessionVars(part = "sessions" /\ GreetedOrDropped(c))
    /\ WF_selfVars(part = "self" /\ ~mishap /\ Boot)

Spec == Init /\ [][Next]_<<part, AloneVars>> /\ Fairness

(* Every variable of every part has its type.                              *)
ClientsTypeOK ==
    part \in Parts /\ SessionsTypeOK /\ RelayTypeOK /\ PhoneTypeOK /\ HostTypeOK /\ SelfTypeOK

=============================================================================
