----------------------------- MODULE FetchRelay -----------------------------
(***************************************************************************)
(* runtime/fetch_relay.py: a boat without internet fetches through a       *)
(* connected client.  The callers modelled want the same resource, so they *)
(* should share one relayed request; the first, the primary, owns it.      *)
(* Between the answer and the primary's clean-up other callers run.        *)
(***************************************************************************)
EXTENDS FiniteSets

CONSTANTS
    Callers,     \* coroutines that fetch
    NoCaller     \* no entry in _inflight

ASSUME RelayAssumption == NoCaller \notin Callers

VARIABLES
    offline,     \* the sticky breaker is engaged
    at,          \* what each caller is at
    future,      \* the future of each caller's own request
    sharing,     \* whose future a secondary caller awaits
    inflight,    \* the request _inflight names for this resource
    ended        \* how each caller's last fetch ended

relayVars == <<offline, at, future, sharing, inflight, ended>>

Answers == {"data", "target error"}
Endings == Answers \cup {"none", "relay error", "timeout", "cancelled"}

RelayInit ==
    /\ offline = FALSE
    /\ at = [c \in Callers |-> "idle"]
    /\ future = [c \in Callers |-> "none"]
    /\ sharing = [c \in Callers |-> NoCaller]
    /\ inflight = NoCaller
    /\ ended = [c \in Callers |-> "none"]

End(c, how) ==
    /\ at' = [at EXCEPT ![c] = "idle"]
    /\ ended' = [ended EXCEPT ![c] = how]

InFlight == inflight # NoCaller /\ future[inflight] = "open"

(* _relay up to its first await: no client, a request to share, or one of  *)
(* its own.                                                                *)
Relay(c) ==
    \/ End(c, "relay error") /\ UNCHANGED <<future, sharing, inflight>>
    \/ /\ InFlight
       /\ at' = [at EXCEPT ![c] = "sharing"]
       /\ sharing' = [sharing EXCEPT ![c] = inflight]
       /\ UNCHANGED <<future, inflight, ended>>
    \/ /\ ~InFlight
       /\ at' = [at EXCEPT ![c] = "asking"]
       /\ future' = [future EXCEPT ![c] = "open"]
       /\ inflight' = c
       /\ UNCHANGED <<sharing, ended>>

Fetch(c) ==
    /\ at[c] = "idle"
    /\ \/ offline /\ Relay(c)
       \/ /\ ~offline /\ at' = [at EXCEPT ![c] = "direct"]
          /\ UNCHANGED <<future, sharing, inflight, ended>>
    /\ UNCHANGED offline

DirectSucceeds(c) ==
    /\ at[c] = "direct" /\ End(c, "data")
    /\ UNCHANGED <<offline, future, sharing, inflight>>

(* Any failure trips the breaker, and this fetch goes on to the relay.     *)
DirectFails(c) ==
    /\ at[c] = "direct"
    /\ offline' = TRUE
    /\ Relay(c)

BreakerExpires ==
    /\ offline /\ offline' = FALSE
    /\ UNCHANGED <<at, future, sharing, inflight, ended>>

(* The future of c completes: those that share it wake with its result,    *)
(* its owner has still to clean up.                                        *)
Complete(c, how) ==
    LET woken == {d \in Callers : at[d] = "sharing" /\ sharing[d] = c}
    IN /\ future' = [future EXCEPT ![c] = how]
       /\ at' = [d \in Callers |-> IF d \in woken THEN "idle" ELSE
                                    IF d = c THEN "answered" ELSE at[d]]
       /\ sharing' = [d \in Callers |-> IF d \in woken THEN NoCaller ELSE sharing[d]]
       /\ ended' = [d \in Callers |-> IF d \in woken THEN how ELSE ended[d]]
       /\ UNCHANGED <<offline, inflight>>

(* resolve: only a request that still waits takes an answer; a second or a *)
(* late one matches none.                                                  *)
Answer(c) ==
    /\ future[c] = "open"
    /\ \E how \in Answers : Complete(c, how)

(* wait_for cancels the future the primary waits for, shared or not.       *)
PrimaryTimeout(c) ==
    /\ future[c] = "open"
    /\ Complete(c, "cancelled")

(* A secondary waits on a shield: its timeout leaves the future alone, and *)
(* leaves as TimeoutError.                                                 *)
SecondaryTimeout(c) ==
    /\ at[c] = "sharing" /\ End(c, "timeout")
    /\ sharing' = [sharing EXCEPT ![c] = NoCaller]
    /\ UNCHANGED <<offline, future, inflight>>

PoppedAnyway(c) == NoCaller     \* mutant: whoever's it is
(* The finally block: the entry may already be that of a later request.    *)
Popped(c) == IF inflight = c THEN NoCaller ELSE inflight

PrimaryEnds(c) ==
    /\ at[c] = "answered"
    /\ inflight' = Popped(c)
    /\ End(c, IF future[c] = "cancelled" THEN "relay error" ELSE future[c])
    /\ future' = [future EXCEPT ![c] = "none"]
    /\ UNCHANGED <<offline, sharing>>

RelayNext ==
    \/ BreakerExpires
    \/ \E c \in Callers :
        \/ Fetch(c) \/ DirectSucceeds(c) \/ DirectFails(c)
        \/ Answer(c) \/ PrimaryTimeout(c) \/ SecondaryTimeout(c) \/ PrimaryEnds(c)

RelaySpec == RelayInit /\ [][RelayNext]_relayVars
-----------------------------------------------------------------------------
RelayTypeOK ==
    /\ offline \in BOOLEAN
    /\ at \in [Callers -> {"idle", "direct", "asking", "sharing", "answered"}]
    /\ future \in [Callers -> Answers \cup {"none", "open", "cancelled"}]
    /\ sharing \in [Callers -> Callers \cup {NoCaller}]
    /\ inflight \in Callers \cup {NoCaller}
    /\ ended \in [Callers -> Endings]

(* However the callers come, time out and clean up, the clients are asked  *)
(* for a resource once at a time.                                          *)
OneRequest == \A c, d \in Callers : future[c] = "open" /\ future[d] = "open" => c = d

(* Not kept by the code (README, section 7): fetch gives its callers data, *)
(* or an error with a message.                                             *)
FetchSpeaks == \A c \in Callers : ended[c] \notin {"timeout", "cancelled"}
=============================================================================
