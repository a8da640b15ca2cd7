--------------------------- MODULE Clients_proofs ---------------------------
(***************************************************************************)
(* The fetch relay, the phone sensors, the host's jobs and the supervisor  *)
(* replacing itself, for every set of callers, phones and versions; and    *)
(* what they and the sessions keep in the composition that TLC checks.     *)
(***************************************************************************)
EXTENDS MCClients, Sessions_proofs, TLAPS

(* The fetch relay: an open future is the one _inflight names.             *)
RelayInv ==
    /\ future \in [Callers -> Answers \cup {"none", "open", "cancelled"}]
    /\ inflight \in Callers \cup {NoCaller}
    /\ \A c \in Callers : future[c] = "open" => inflight = c

LEMMA RelayStarts == RelayInit => RelayInv
  BY DEF RelayInit, RelayInv

(* Whoever relays opens a request only when the one in flight is over.     *)
LEMMA RelayKeeps ==
  ASSUME RelayInv, NEW c \in Callers, Relay(c)
  PROVE  RelayInv'
<1>1. CASE UNCHANGED <<future, sharing, inflight>>
  BY <1>1 DEF RelayInv
<1>2. CASE UNCHANGED <<future, inflight, ended>>
  BY <1>2 DEF RelayInv
<1>3. CASE /\ ~InFlight
           /\ future' = [future EXCEPT ![c] = "open"]
           /\ inflight' = c
  <2>1. \A d \in Callers : future[d] # "open"
    BY <1>3, RelayAssumption DEF RelayInv, InFlight
  <2>2. QED
    BY <1>3, <2>1 DEF RelayInv
<1>4. QED
  BY <1>1, <1>2, <1>3 DEF Relay

(* A future that completes is open no more, whatever its entry says.       *)
LEMMA CompleteKeeps ==
  ASSUME RelayInv, NEW c \in Callers, NEW how \in Answers \cup {"cancelled"},
         Complete(c, how)
  PROVE  RelayInv'
<1>1. /\ future' = [future EXCEPT ![c] = how] /\ inflight' = inflight
  BY DEF Complete
<1>2. how # "open"
  BY DEF Answers
<1>3. QED
  BY <1>1, <1>2 DEF RelayInv

LEMMA RelayStep == RelayInv /\ [RelayNext]_relayVars => RelayInv'
<1> SUFFICES ASSUME RelayInv, [RelayNext]_relayVars PROVE RelayInv'
  OBVIOUS
<1>1. CASE BreakerExpires
  BY <1>1 DEF BreakerExpires, RelayInv
<1>2. ASSUME NEW c \in Callers, Fetch(c) PROVE RelayInv'
  <2>1. CASE Relay(c)
    BY <2>1, RelayKeeps
  <2>2. CASE UNCHANGED <<future, sharing, inflight, ended>>
    BY <2>2 DEF RelayInv
  <2>3. QED
    BY <1>2, <2>1, <2>2 DEF Fetch
<1>3. ASSUME NEW c \in Callers, DirectSucceeds(c) PROVE RelayInv'
  BY <1>3 DEF DirectSucceeds, RelayInv
<1>4. ASSUME NEW c \in Callers, DirectFails(c) PROVE RelayInv'
  BY <1>4, RelayKeeps DEF DirectFails
<1>5. ASSUME NEW c \in Callers, Answer(c) PROVE RelayInv'
  BY <1>5, CompleteKeeps DEF Answer
<1>6. ASSUME NEW c \in Callers, PrimaryTimeout(c) PROVE RelayInv'
  BY <1>6, CompleteKeeps DEF PrimaryTimeout
<1>7. ASSUME NEW c \in Callers, SecondaryTimeout(c) PROVE RelayInv'
  BY <1>7 DEF SecondaryTimeout, RelayInv
<1>8. ASSUME NEW c \in Callers, PrimaryEnds(c) PROVE RelayInv'
  BY <1>8 DEF PrimaryEnds, Popped, RelayInv
<1>9. CASE UNCHANGED relayVars
  BY <1>9 DEF relayVars, RelayInv
<1>10. QED
  BY <1>1, <1>2, <1>3, <1>4, <1>5, <1>6, <1>7, <1>8, <1>9 DEF RelayNext

(* Two callers never hold an open request for the resource, for any number *)
(* of callers: fetch_relay's coalescing and its clean-up by identity.      *)
THEOREM OneRequestHolds == RelaySpec => []OneRequest
<1>1. RelayInv => OneRequest
  BY DEF RelayInv, OneRequest
<1>2. QED
  BY RelayStarts, RelayStep, <1>1, PTL DEF RelaySpec

-----------------------------------------------------------------------------
(* The phone sensors: OneFeeder and the types it rests on.                 *)
PhoneInv ==
    /\ feeder \in Phones \cup {NoPhone} /\ lastFix \in Phones \cup {NoPhone, Gone}
    /\ OneFeeder

LEMMA PhoneStarts == PhoneInit => PhoneInv
  BY PhoneAssumption DEF PhoneInit, PhoneInv, OneFeeder

LEMMA PhoneStep == PhoneInv /\ [PhoneNext]_phoneVars => PhoneInv'
<1> SUFFICES ASSUME PhoneInv, [PhoneNext]_phoneVars PROVE PhoneInv'
  OBVIOUS
<1> USE PhoneAssumption DEF PhoneInv, OneFeeder
<1>1. CASE Second
  BY <1>1 DEF Second
<1>2. CASE PhoneStop
  BY <1>2 DEF PhoneStop
<1>3. CASE PhoneStart
  BY <1>3 DEF PhoneStart
<1>4. ASSUME NEW p \in Phones, PhoneConnects(p) PROVE PhoneInv'
  BY <1>4 DEF PhoneConnects
<1>5. ASSUME NEW p \in Phones, PhoneDisconnects(p) PROVE PhoneInv'
  BY <1>5 DEF PhoneDisconnects
<1>6. ASSUME NEW p \in Phones, NEW valid \in BOOLEAN, Sample(p, valid) PROVE PhoneInv'
  BY <1>6 DEF Sample, Holder
<1>7. CASE UNCHANGED phoneVars
  BY <1>7 DEF phoneVars
<1>8. QED
  BY <1>1, <1>2, <1>3, <1>4, <1>5, <1>6, <1>7 DEF PhoneNext

(* Fixes change hands only when the phone that fed them has left, for any  *)
(* number of phones: the slot of hardware/drivers/phone.py.                *)
THEOREM OneFeederHolds == PhoneSpec => []OneFeeder
<1>1. PhoneInv => OneFeeder
  BY DEF PhoneInv
<1>2. QED
  BY PhoneStarts, PhoneStep, <1>1, PTL DEF PhoneSpec

-----------------------------------------------------------------------------
(* The host's jobs.  What the worker is about to do says what it has done: *)
(* which tag the entry names, and what the container was made from.        *)
HostInv ==
    /\ tag \in Tags /\ previous \in Tags \cup {NoTag}
    /\ target \in Tags \cup {NoTag} /\ origin \in Tags \cup {NoTag}
    /\ job = saved
    /\ job \in [kind : Kinds, phase : Ends \cup {"queued"}]
    /\ step # "idle" => job.phase = "queued" /\ job.kind # "none"
    /\ step \in {"run", "gate"} /\ job.kind # "restore" => tag = target
    /\ step \in {"gate", "back_gate"} => container = "running" /\ version = tag
    /\ step \in {"back_run", "back_gate"} => tag = origin
    /\ step \in {"back_stop", "back_rm", "back_entry", "back_run", "back_gate"} =>
            job.kind = "update"
    /\ step \in {"entry", "gate"} => job.kind # "restore"
    /\ step = "load" => job.kind = "update"
    /\ step # "idle" /\ job.kind = "rollback" => target \in Tags
    /\ step # "idle" /\ job.kind = "update" => target \in Tags /\ origin \in Tags
    /\ JobTellsTruth

LEMMA HostStarts == HostInit => HostInv
  BY HostAssumption DEF HostInit, HostInv, NoJob, Kinds, Ends, JobTellsTruth

LEMMA HostStep == HostInv /\ [HostNext]_hostVars => HostInv'
<1> SUFFICES ASSUME HostInv, [HostNext]_hostVars PROVE HostInv'
  OBVIOUS
<1> USE HostAssumption DEF HostInv, JobTellsTruth, Kinds, Ends, entry, docker, jobVars
<1>1. CASE ApplyUpdate
  BY <1>1 DEF ApplyUpdate, Schedule
<1>2. CASE Rollback
  BY <1>2 DEF Rollback, Schedule
<1>3. CASE Restore
  BY <1>3 DEF Restore, Schedule
<1>4. CASE Load
  BY <1>4 DEF Load, Goto, Raise, Finish
<1>5. CASE StopContainer
  BY <1>5 DEF StopContainer, Goto, Raise, Finish
<1>6. CASE RemoveContainer
  BY <1>6 DEF RemoveContainer, Goto
<1>7. CASE UpdateEntry
  BY <1>7 DEF UpdateEntry
<1>8. CASE RevertEntry
  BY <1>8 DEF RevertEntry
<1>9. CASE RunContainer
  BY <1>9 DEF RunContainer, Goto, Raise, Finish, Runs
<1>10. CASE HealthGate
  BY <1>10 DEF HealthGate, Goto, Raise, Finish, Healthy
<1>11. CASE RollbackGate
  BY <1>11 DEF RollbackGate, Finish, Healthy
<1>12. CASE Prune
  BY <1>12 DEF Prune
<1>13. CASE Restart
  BY <1>13 DEF Restart, Runs
<1>14. CASE UNCHANGED hostVars
  BY <1>14 DEF hostVars
<1>15. QED
  BY <1>1, <1>2, <1>3, <1>4, <1>5, <1>6, <1>7, <1>8, <1>9, <1>10, <1>11, <1>12,
     <1>13, <1>14 DEF HostNext, Work

(* What a finished job reports is what the boat runs, for every set of     *)
(* versions and of bad ones and any number of restarts: _health_gate and   *)
(* the rollback of vanchor_supervisor/core.py.                             *)
THEOREM JobTellsTruthHolds == HostSpec => []JobTellsTruth
<1>1. HostInv => JobTellsTruth
  BY DEF HostInv
<1>2. QED
  BY HostStarts, HostStep, <1>1, PTL DEF HostSpec


(* The types of the relay.  A caller whose request is open still waits for *)
(* it, so that what a primary cleans up is an answer.                      *)
RelayTypes ==
    /\ RelayTypeOK
    /\ \A c \in Callers : future[c] = "open" => at[c] = "asking"

LEMMA RelayTypesStart == RelayInit => RelayTypes
BY DEF RelayInit, RelayTypes, RelayTypeOK, Endings, Answers

LEMMA RelayTypesKeep ==
  ASSUME RelayTypes, NEW c \in Callers, Relay(c),
         at[c] \in {"idle", "direct"}, offline' \in BOOLEAN
  PROVE  RelayTypes'
<1>1. CASE End(c, "relay error") /\ UNCHANGED <<future, sharing, inflight>>
  BY <1>1 DEF RelayTypes, RelayTypeOK, End, Endings
<1>2. CASE /\ InFlight
           /\ at' = [at EXCEPT ![c] = "sharing"]
           /\ sharing' = [sharing EXCEPT ![c] = inflight]
           /\ UNCHANGED <<future, inflight, ended>>
  BY <1>2 DEF RelayTypes, RelayTypeOK
<1>3. CASE /\ ~InFlight
           /\ at' = [at EXCEPT ![c] = "asking"]
           /\ future' = [future EXCEPT ![c] = "open"]
           /\ inflight' = c
           /\ UNCHANGED <<sharing, ended>>
  BY <1>3 DEF RelayTypes, RelayTypeOK
<1>4. QED
  BY <1>1, <1>2, <1>3 DEF Relay

LEMMA CompleteTypes ==
  ASSUME RelayTypes, NEW c \in Callers, NEW how \in Answers \cup {"cancelled"},
         future[c] = "open", Complete(c, how)
  PROVE  RelayTypes'
<1> DEFINE woken == {d \in Callers : at[d] = "sharing" /\ sharing[d] = c}
<1>1. /\ future' = [future EXCEPT ![c] = how]
      /\ at' = [d \in Callers |-> IF d \in woken THEN "idle" ELSE
                                   IF d = c THEN "answered" ELSE at[d]]
      /\ sharing' = [d \in Callers |-> IF d \in woken THEN NoCaller ELSE sharing[d]]
      /\ ended' = [d \in Callers |-> IF d \in woken THEN how ELSE ended[d]]
      /\ UNCHANGED <<offline, inflight>>
  BY DEF Complete
<1>a. \A d \in woken : at[d] = "sharing"
  OBVIOUS
<1> HIDE DEF woken
<1>2. future' \in [Callers -> Answers \cup {"none", "open", "cancelled"}]
  BY <1>1 DEF RelayTypes, RelayTypeOK
<1>3. at' \in [Callers -> {"idle", "direct", "asking", "sharing", "answered"}]
  BY <1>1 DEF RelayTypes, RelayTypeOK
<1>4. sharing' \in [Callers -> Callers \cup {NoCaller}]
  BY <1>1 DEF RelayTypes, RelayTypeOK
<1>5. ended' \in [Callers -> Endings]
  BY <1>1 DEF RelayTypes, RelayTypeOK, Endings, Answers
<1>6. \A d \in Callers : future'[d] = "open" => at'[d] = "asking"
  BY <1>1, <1>a DEF RelayTypes, RelayTypeOK, Answers
<1>7. QED
  BY <1>1, <1>2, <1>3, <1>4, <1>5, <1>6 DEF RelayTypes, RelayTypeOK

LEMMA RelayTypesStep == RelayTypes /\ [RelayNext]_relayVars => RelayTypes'
<1> SUFFICES ASSUME RelayTypes, [RelayNext]_relayVars PROVE RelayTypes'
  OBVIOUS
<1>1. CASE BreakerExpires
  BY <1>1 DEF BreakerExpires, RelayTypes, RelayTypeOK
<1>2. ASSUME NEW c \in Callers, Fetch(c) PROVE RelayTypes'
  <2>1. offline' \in BOOLEAN
    BY <1>2 DEF Fetch, RelayTypes, RelayTypeOK
  <2>2. CASE Relay(c)
    BY <1>2, <2>1, <2>2, RelayTypesKeep DEF Fetch
  <2>3. CASE ~offline /\ at' = [at EXCEPT ![c] = "direct"]
             /\ UNCHANGED <<future, sharing, inflight, ended>>
    BY <1>2, <2>1, <2>3 DEF Fetch, RelayTypes, RelayTypeOK
  <2>4. QED
    BY <1>2, <2>2, <2>3 DEF Fetch
<1>3. ASSUME NEW c \in Callers, DirectSucceeds(c) PROVE RelayTypes'
  BY <1>3 DEF DirectSucceeds, End, RelayTypes, RelayTypeOK, Endings, Answers
<1>4. ASSUME NEW c \in Callers, DirectFails(c) PROVE RelayTypes'
  BY <1>4, RelayTypesKeep DEF DirectFails
<1>5. ASSUME NEW c \in Callers, Answer(c) PROVE RelayTypes'
  BY <1>5, CompleteTypes DEF Answer
<1>6. ASSUME NEW c \in Callers, PrimaryTimeout(c) PROVE RelayTypes'
  BY <1>6, CompleteTypes DEF PrimaryTimeout
<1>7. ASSUME NEW c \in Callers, SecondaryTimeout(c) PROVE RelayTypes'
  BY <1>7 DEF SecondaryTimeout, End, RelayTypes, RelayTypeOK, Endings
<1>8. ASSUME NEW c \in Callers, PrimaryEnds(c) PROVE RelayTypes'
  <2>1. future[c] # "open"
    BY <1>8 DEF PrimaryEnds, RelayTypes
  <2>2. QED
    BY <1>8, <2>1 DEF PrimaryEnds, Popped, End, RelayTypes, RelayTypeOK, Endings, Answers
<1>9. CASE UNCHANGED relayVars
  BY <1>9 DEF relayVars, RelayTypes, RelayTypeOK
<1>10. QED
  BY <1>1, <1>2, <1>3, <1>4, <1>5, <1>6, <1>7, <1>8, <1>9 DEF RelayNext

(* Every fetch ends as one of the endings, and the relay keeps its types.   *)
THEOREM RelayTypeCorrect == RelaySpec => []RelayTypeOK
<1>1. RelayTypes => RelayTypeOK
  BY DEF RelayTypes
<1>2. QED
  BY RelayTypesStart, RelayTypesStep, <1>1, PTL DEF RelaySpec

(* The types of the phone sensors: a fix is quiet for a bounded time.      *)
LEMMA PhoneTypeStep == PhoneTypeOK /\ [PhoneNext]_phoneVars => PhoneTypeOK'
<1> SUFFICES ASSUME PhoneTypeOK, [PhoneNext]_phoneVars PROVE PhoneTypeOK'
  OBVIOUS
<1>a. ReissueMax \in Nat /\ quiet \in Nat /\ 0 \in 0 .. ReissueMax + 1
  BY PhoneAssumption DEF PhoneTypeOK
<1>1. CASE Second
  <2>1. quiet' \in 0 .. ReissueMax + 1
    BY <1>a, <1>1 DEF Second
  <2>2. QED
    BY <1>1, <2>1 DEF Second, PhoneTypeOK
<1>2. CASE PhoneStop
  BY <1>a, <1>2 DEF PhoneStop, PhoneTypeOK
<1>3. CASE PhoneStart
  BY <1>3 DEF PhoneStart, PhoneTypeOK
<1>4. ASSUME NEW p \in Phones, PhoneConnects(p) PROVE PhoneTypeOK'
  BY <1>4 DEF PhoneConnects, PhoneTypeOK
<1>5. ASSUME NEW p \in Phones, PhoneDisconnects(p) PROVE PhoneTypeOK'
  BY <1>5 DEF PhoneDisconnects, PhoneTypeOK
<1>6. ASSUME NEW p \in Phones, NEW valid \in BOOLEAN, Sample(p, valid) PROVE PhoneTypeOK'
  BY <1>a, <1>6 DEF Sample, Holder, PhoneTypeOK
<1>7. CASE UNCHANGED phoneVars
  BY <1>7 DEF phoneVars, PhoneTypeOK
<1>8. QED
  BY <1>1, <1>2, <1>3, <1>4, <1>5, <1>6, <1>7 DEF PhoneNext

(* The phone sensors keep their types.                                     *)
THEOREM PhoneTypeCorrect == PhoneSpec => []PhoneTypeOK
<1>1. PhoneInit => PhoneTypeOK
  BY PhoneAssumption DEF PhoneInit, PhoneTypeOK
<1>2. QED
  BY <1>1, PhoneTypeStep, PTL DEF PhoneSpec

(* The types of the host's jobs, from HostInv: the worker only moves to a  *)
(* tag the job has.                                                        *)
LEMMA HostTypeStep ==
  HostInv /\ HostTypeOK /\ [HostNext]_hostVars /\ HostInv' => HostTypeOK'
<1> SUFFICES ASSUME HostInv, HostTypeOK, [HostNext]_hostVars, HostInv' PROVE HostTypeOK'
  OBVIOUS
<1>a. /\ tag' \in Tags /\ previous' \in Tags \cup {NoTag}
      /\ {target', origin'} \subseteq Tags \cup {NoTag}
      /\ {job', saved'} \subseteq [kind : Kinds, phase : Ends \cup {"queued"}]
  BY DEF HostInv
<1> DEFINE Rest == /\ images \subseteq Tags
                   /\ container \in {"absent", "exited", "running"}
                   /\ version \in Tags \cup {NoTag}
                   /\ step \in {"idle", "load", "stop", "rm", "entry", "run", "gate",
                                "back_stop", "back_rm", "back_entry", "back_run", "back_gate"}
<1>b. Rest /\ MaxRestarts \in Nat /\ restarts \in 0 .. MaxRestarts
  BY HostAssumption DEF HostTypeOK
<1>c. (restarts' = restarts \/ (restarts < MaxRestarts /\ restarts' = restarts + 1))
        => restarts' \in 0 .. MaxRestarts
  BY <1>b
<1>d. Rest' /\ restarts' \in 0 .. MaxRestarts => HostTypeOK'
  BY <1>a DEF HostTypeOK
<1> SUFFICES Rest' /\ (restarts' = restarts \/ (restarts < MaxRestarts /\ restarts' = restarts + 1))
  BY <1>c, <1>d
<1> USE <1>b DEF entry, docker, jobVars
<1>1. CASE ApplyUpdate
  BY <1>1 DEF ApplyUpdate, Schedule
<1>2. CASE Rollback
  BY <1>2 DEF Rollback, Schedule
<1>3. CASE Restore
  BY <1>3 DEF Restore, Schedule
<1>4. CASE Load
  <2>1. target \in Tags
    BY <1>4 DEF Load, HostInv
  <2>2. QED
    BY <1>4, <2>1 DEF Load, Goto, Raise, Finish
<1>5. CASE StopContainer
  BY <1>5 DEF StopContainer, Goto, Raise, Finish
<1>6. CASE RemoveContainer
  BY <1>6 DEF RemoveContainer, Goto
<1>7. CASE UpdateEntry
  BY <1>7 DEF UpdateEntry
<1>8. CASE RevertEntry
  BY <1>8 DEF RevertEntry
<1>9. CASE RunContainer
  BY <1>9 DEF RunContainer, Goto, Raise, Finish, Runs, HostInv
<1>10. CASE HealthGate
  BY <1>10 DEF HealthGate, Goto, Raise, Finish
<1>11. CASE RollbackGate
  BY <1>11 DEF RollbackGate, Finish
<1>12. CASE Prune
  BY <1>12 DEF Prune
<1>13. CASE Restart
  BY <1>13 DEF Restart, Runs, HostInv
<1>14. CASE UNCHANGED hostVars
  BY <1>14 DEF hostVars
<1>15. QED
  BY <1>1, <1>2, <1>3, <1>4, <1>5, <1>6, <1>7, <1>8, <1>9, <1>10, <1>11, <1>12,
     <1>13, <1>14 DEF HostNext, Work

(* The host's jobs keep their types.                                       *)
THEOREM HostTypeCorrect == HostSpec => []HostTypeOK
<1>1. HostInit => HostTypeOK
  <2> SUFFICES ASSUME HostInit PROVE HostTypeOK
    OBVIOUS
  <2>1. restarts \in 0 .. MaxRestarts
    BY HostAssumption DEF HostInit
  <2>2. /\ tag \in Tags /\ previous \in Tags \cup {NoTag} /\ images \subseteq Tags
        /\ version \in Tags \cup {NoTag} /\ {target, origin} \subseteq Tags \cup {NoTag}
    BY HostAssumption DEF HostInit
  <2>3. NoJob \in [kind : Kinds, phase : Ends \cup {"queued"}]
    BY DEF NoJob, Kinds, Ends
  <2>4. QED
    BY <2>1, <2>2, <2>3 DEF HostInit, HostTypeOK
<1>2. QED
  BY <1>1, HostStarts, HostStep, HostTypeStep, PTL DEF HostSpec

-----------------------------------------------------------------------------
(* The supervisor replacing itself.  Unless a case of README, section 7,   *)
(* occurred, what the next boots rest on is sound.                         *)
Links ==
    /\ proc = "linked" => noted.is = "whole" /\ tmp = noted.previous
    /\ proc = "reverted" => noted.is = "whole" /\ current = noted.previous
SelfInv ==
    /\ SelfTypeOK /\ StaysSavable
    /\ \A r \in Requests : installs[r].at # "none" => installs[r].version \in Versions
    /\ proc = "linked" => tmp \in Versions
    /\ ~mishap => Links

Notes == [is : {"none", "torn", "whole"}, target : Versions \cup {NoVersion},
          previous : Versions \cup {NoVersion}, boots : 0 .. 2]
Installs == [version : Versions \cup {NoVersion}, at : Stages]

LEMMA SelfConstants ==
  /\ NoNote \in Notes /\ NoNote.is = "none" /\ Torn \in Notes /\ Torn.is = "torn"
  /\ Idle \in Installs /\ Idle.at = "none" /\ AllIdle \in [Requests -> Installs]
  /\ \A r \in Requests : AllIdle[r] = Idle
  /\ \A v, back \in Versions : NoteOf(v, back) \in Notes
  /\ \A v, back \in Versions : NoteOf(v, back).is = "whole"
                               /\ NoteOf(v, back).previous = back
<1>1. 0 \in 0 .. 2
  OBVIOUS
<1>2. NoNote \in Notes /\ NoNote.is = "none" /\ Torn \in Notes /\ Torn.is = "torn"
  BY <1>1 DEF NoNote, Torn, Notes
<1>3. Idle \in Installs /\ Idle.at = "none"
  BY DEF Idle, Installs, Stages
<1>4. \A v, back \in Versions : /\ NoteOf(v, back) \in Notes
                                /\ NoteOf(v, back).is = "whole"
                                /\ NoteOf(v, back).previous = back
  BY <1>1 DEF NoteOf, Notes
<1>5. QED
  BY <1>2, <1>3, <1>4 DEF AllIdle

LEMMA SelfStarts == SelfInit => SelfInv
<1> SUFFICES ASSUME SelfInit PROVE SelfInv
  OBVIOUS
<1>1. outages \in 0 .. MaxOutages /\ First \in Versions /\ Sound(First)
  BY SelfUpdateAssumption DEF SelfInit, Sound
<1>2. SelfTypeOK
  <2>1. present \subseteq Versions /\ whole \subseteq present /\ current \in Versions
        /\ tmp \in Versions \cup {NoVersion}
    BY <1>1 DEF SelfInit
  <2>2. noted \in Notes /\ installs \in [Requests -> Installs]
    BY SelfConstants DEF SelfInit
  <2>3. {exiting, mishap} \subseteq BOOLEAN /\ proc = "up" /\ outages \in 0 .. MaxOutages
    BY <1>1 DEF SelfInit
  <2>4. QED
    BY <2>1, <2>2, <2>3 DEF SelfTypeOK, Notes, Installs
<1>3. Savable
  BY <1>1, SelfConstants DEF SelfInit, Savable
<1>4. QED
  BY <1>2, <1>3, SelfConstants DEF SelfInit, SelfInv, StaysSavable, Links

(* What a request does next changes, its version does not.                 *)
LEMMA ProceedKeeps ==
  ASSUME SelfInv, NEW r \in Requests, NEW s \in Stages, Proceed(r, s),
         installs[r].at # "none"
  PROVE  /\ installs' \in [Requests -> Installs]
         /\ \A o \in Requests : installs'[o].at # "none" => installs'[o].version \in Versions
  BY DEF SelfInv, SelfTypeOK, Proceed, Installs

(* A note cut short is a note, and one that nobody needs.                  *)
LEMMA TearKeeps ==
  ASSUME SelfInv, NEW w \in BOOLEAN, MayTear(w), UNCHANGED <<present, whole, current, tmp>>
  PROVE  noted' \in Notes /\ mishap' \in BOOLEAN /\ StaysSavable'
<1>1. noted' \in Notes /\ mishap' \in BOOLEAN
  BY SelfConstants DEF MayTear, SelfInv, SelfTypeOK, Notes
<1>2. CASE noted' = noted
  BY <1>1, <1>2 DEF MayTear, SelfInv, StaysSavable, Savable, Sound
<1>3. CASE noted' # noted
  BY <1>1, <1>3, SelfConstants DEF MayTear, SelfInv, StaysSavable, Savable, Sound
<1>4. QED
  BY <1>1, <1>2, <1>3

(* A stop ends every request.                                              *)
LEMMA StopKeeps ==
  ASSUME SelfInv, Stops, outages' \in 0 .. MaxOutages,
         noted' \in Notes, mishap' \in BOOLEAN, StaysSavable'
  PROVE  SelfInv'
<1>1. installs' \in [Requests -> Installs]
      /\ \A r \in Requests : installs'[r].at = "none"
  BY SelfConstants DEF Stops
<1>2. QED
  BY <1>1 DEF Stops, SelfInv, SelfTypeOK, Links, Notes, Installs

LEMMA SelfStep == SelfInv /\ [SelfNext]_selfVars => SelfInv'
<1> SUFFICES ASSUME SelfInv, [SelfNext]_selfVars PROVE SelfInv'
  OBVIOUS
<1>1. ASSUME NEW r \in Requests, NEW v \in Bundles, Clear(r, v) PROVE SelfInv'
  <2>0. v \in Versions
    BY SelfUpdateAssumption
  <2>1. /\ installs' \in [Requests -> Installs]
        /\ \A o \in Requests : installs'[o].at # "none" => installs'[o].version \in Versions
    <3>1. \A o \in Requests : installs[o] \in Installs
      BY DEF SelfInv, SelfTypeOK, Installs
    <3>2. \A o \in Requests :
            \/ installs'[o] = [version |-> v, at |-> "cleared"]
            \/ installs'[o] = installs[o]
            \/ /\ installs[o] = [version |-> v, at |-> "unpacking"]
               /\ installs'[o] = [version |-> v, at |-> "spoilt"]
      BY <1>1 DEF Clear
    <3>3. \A o \in Requests : installs'[o] \in Installs
      BY <2>0, <3>1, <3>2 DEF Installs, Stages
    <3>4. \A o \in Requests : installs'[o].at # "none" => installs'[o].version \in Versions
      BY <2>0, <3>1, <3>2 DEF SelfInv, Installs
    <3>5. installs' = [o \in Requests |-> installs'[o]]
      BY <1>1 DEF Clear
    <3>6. QED
      BY <3>3, <3>4, <3>5
  <2>2. StaysSavable'
    BY <1>1 DEF Clear, SelfInv, SelfTypeOK, StaysSavable, Savable, Sound, InUse
  <2>3. QED
    BY <1>1, <2>1, <2>2 DEF Clear, At, SelfInv, SelfTypeOK, Links, Notes, Installs
<1>2. ASSUME NEW r \in Requests, MakeDir(r) PROVE SelfInv'
  <2>1. installs[r].at # "none" /\ Proceed(r, "unpacking") /\ installs[r].version \in Versions
    BY <1>2 DEF MakeDir, At, SelfInv
  <2>2. StaysSavable'
    BY <1>2 DEF MakeDir, SelfInv, StaysSavable, Savable, Sound
  <2>3. QED
    BY <1>2, <2>1, <2>2, ProceedKeeps
       DEF MakeDir, At, SelfInv, SelfTypeOK, Links, Installs, Stages
<1>3. ASSUME NEW r \in Requests, Unpacked(r) PROVE SelfInv'
  <2>1. installs[r].at # "none" /\ Proceed(r, "note") /\ installs[r].version \in Versions
    BY <1>3 DEF Unpacked, At, SelfInv
  <2>2. StaysSavable'
    BY <1>3 DEF Unpacked, SelfInv, StaysSavable, Savable, Sound
  <2>3. QED
    BY <1>3, <2>1, <2>2, ProceedKeeps
       DEF Unpacked, At, SelfInv, SelfTypeOK, Links, Installs, Stages
<1>4. ASSUME NEW r \in Requests, Note(r) PROVE SelfInv'
  <2>1. PICK note \in {NoteOf(installs[r].version, current), Torn} : Noted(r, note)
    BY <1>4 DEF Note
  <2>2. installs[r].at # "none" /\ Proceed(r, "link") /\ installs[r].version \in Versions
        /\ proc = "up" /\ current \in Versions
    BY <2>1 DEF Noted, At, SelfInv, SelfTypeOK
  <2>3. noted' \in Notes
    BY <2>1, <2>2, SelfConstants DEF Noted
  <2>4. StaysSavable'
    <3>1. CASE note = Torn
      BY <2>1, <3>1 DEF Noted, StaysSavable
    <3>2. CASE note = NoteOf(installs[r].version, current)
      <4>1. noted'.is = "whole" /\ noted'.previous = current
        BY <2>1, <2>2, <3>2, SelfConstants DEF Noted
      <4>2. mishap' \/ (~mishap /\ Sound(current))
        BY <2>1 DEF Noted
      <4>3. UNCHANGED <<present, whole, current, tmp>>
        BY <2>1 DEF Noted
      <4>4. QED
        BY <4>1, <4>2, <4>3 DEF SelfInv, StaysSavable, Savable, Sound
    <3>3. QED
      BY <3>1, <3>2
  <2>5. QED
    BY <2>1, <2>2, <2>3, <2>4, ProceedKeeps
       DEF Noted, SelfInv, SelfTypeOK, Links, Installs, Notes, Stages
<1>5. ASSUME NEW r \in Requests, Link(r) PROVE SelfInv'
  <2>1. installs[r].at # "none" /\ Proceed(r, "flip") /\ installs[r].version \in Versions
    BY <1>5 DEF Link, At, SelfInv
  <2>2. StaysSavable'
    BY <1>5 DEF Link, SelfInv, StaysSavable, Savable, Sound
  <2>3. QED
    BY <1>5, <2>1, <2>2, ProceedKeeps
       DEF Link, At, SelfInv, SelfTypeOK, Links, Installs, Stages
<1>6. ASSUME NEW r \in Requests, Flip(r) PROVE SelfInv'
  <2>1. /\ installs' \in [Requests -> Installs]
        /\ \A o \in Requests : installs'[o].at # "none" => installs'[o].version \in Versions
    BY <1>6, SelfConstants DEF Flip, SelfInv, SelfTypeOK, Installs
  <2>2. StaysSavable'
    BY <1>6 DEF Flip, SelfInv, StaysSavable, Savable, Sound
  <2>3. QED
    BY <1>6, <2>1, <2>2 DEF Flip, At, SelfInv, SelfTypeOK, Links, Installs
<1>7. ASSUME NEW r \in Requests, Raises(r) PROVE SelfInv'
  <2>1. /\ installs' \in [Requests -> Installs]
        /\ \A o \in Requests : installs'[o].at # "none" => installs'[o].version \in Versions
    BY <1>7, SelfConstants DEF Raises, SelfInv, SelfTypeOK, Installs
  <2>2. noted' \in Notes /\ mishap' \in BOOLEAN /\ StaysSavable'
    <3>1. At(r, "note") \in BOOLEAN
      BY DEF At
    <3>2. QED
      BY <1>7, <3>1, TearKeeps DEF Raises
  <2>3. QED
    BY <1>7, <2>1, <2>2 DEF Raises, SelfInv, SelfTypeOK, Links, Installs, Notes
<1>8. CASE Exit
  <2>1. (\E r \in Requests : At(r, "note")) \in BOOLEAN
    OBVIOUS
  <2>2. noted' \in Notes /\ mishap' \in BOOLEAN /\ StaysSavable'
    BY <1>8, <2>1, TearKeeps DEF Exit, Stops
  <2>3. outages' \in 0 .. MaxOutages
    BY <1>8 DEF Exit, SelfInv, SelfTypeOK
  <2>4. QED
    BY <1>8, <2>2, <2>3, StopKeeps DEF Exit
<1>9. CASE Outage
  <2>1. ((\E r \in Requests : At(r, "note")) \/ (proc = "down" /\ Counting(3))) \in BOOLEAN
    OBVIOUS
  <2>2. noted' \in Notes /\ mishap' \in BOOLEAN /\ StaysSavable'
    BY <1>9, <2>1, TearKeeps DEF Outage, Stops
  <2>3. outages' \in 0 .. MaxOutages
    BY <1>9, SelfUpdateAssumption DEF Outage, SelfInv, SelfTypeOK
  <2>4. QED
    BY <1>9, <2>2, <2>3, StopKeeps DEF Outage
<1>10. CASE GuardPasses
  BY <1>10 DEF GuardPasses, Guard, SelfInv, SelfTypeOK, StaysSavable, Savable, Sound, Links
<1>11. CASE GuardCounts
  <2>1. noted' \in Notes /\ noted'.is = "whole" /\ noted.is = "whole"
        /\ noted'.previous = noted.previous
    BY <1>11 DEF GuardCounts, Counts, Counting, SelfInv, SelfTypeOK, Notes
  <2>2. StaysSavable'
    BY <1>11, <2>1 DEF GuardCounts, Counts, Guard, SelfInv, StaysSavable, Savable, Sound
  <2>3. QED
    BY <1>11, <2>1, <2>2 DEF GuardCounts, Counts, Guard, SelfInv, SelfTypeOK, Links, Notes
<1>12. CASE GuardLinks
  <2>1. tmp' \in Versions /\ noted.is = "whole" /\ tmp' = noted.previous /\ tmp' \in present
    BY <1>12 DEF GuardLinks, Reverting, SelfInv, SelfTypeOK
  <2>2. StaysSavable'
    BY <1>12, <2>1 DEF GuardLinks, Guard, SelfInv, StaysSavable, Savable, Sound
  <2>3. QED
    BY <1>12, <2>1, <2>2 DEF GuardLinks, Guard, SelfInv, SelfTypeOK, Links
<1>13. CASE GuardFlips
  <2>1. tmp \in Versions /\ current' = tmp
    BY <1>13 DEF GuardFlips, Guard, SelfInv
  <2>2. StaysSavable'
    BY <1>13 DEF GuardFlips, Guard, SelfInv, StaysSavable, Savable, Sound, Links
  <2>3. QED
    BY <1>13, <2>1, <2>2 DEF GuardFlips, Guard, SelfInv, SelfTypeOK, Links
<1>14. CASE GuardForgets
  <2>1. noted' = NoNote /\ proc' = "guarded" /\ proc \in {"reverted", "down"}
        /\ UNCHANGED <<present, whole, current, tmp, installs, exiting, outages, mishap>>
    BY <1>14 DEF GuardForgets, Guard
  <2>2. ~mishap => Sound(current)
    <3>1. CASE proc = "reverted"
      BY <3>1 DEF SelfInv, StaysSavable, Savable, Links
    <3>2. CASE proc # "reverted"
      <4>1. noted.is = "whole" /\ noted.previous \notin present
        BY <1>14, <3>2 DEF GuardForgets, Guard, Reverting
      <4>2. QED
        BY <4>1 DEF SelfInv, SelfTypeOK, StaysSavable, Savable, Sound
    <3>3. QED
      BY <3>1, <3>2
  <2>3. StaysSavable'
    BY <2>1, <2>2, SelfConstants DEF SelfInv, StaysSavable, Savable, Sound
  <2>4. QED
    BY <2>1, <2>3, SelfConstants DEF SelfInv, SelfTypeOK, Links, Notes
<1>15. CASE Start
  <2>1. noted' \in {noted, NoNote} /\ proc' \in {"up", "down"} /\ mishap' \in BOOLEAN
        /\ UNCHANGED <<present, whole, current, tmp, installs, exiting, outages>>
    BY <1>15 DEF Start, SelfInv, SelfTypeOK
  <2>2. noted' \in Notes
    BY <2>1, SelfConstants DEF SelfInv, SelfTypeOK, Notes
  <2>3. StaysSavable'
    <3>1. CASE noted' = noted
      BY <1>15, <2>1, <3>1 DEF Start, SelfInv, StaysSavable, Savable, Sound
    <3>2. CASE noted' # noted
      <4>1. noted' = NoNote /\ (~mishap' => Sound(current) /\ ~mishap)
        BY <1>15, <3>2 DEF Start, Sound
      <4>2. QED
        BY <2>1, <4>1, SelfConstants DEF SelfInv, StaysSavable, Savable, Sound
    <3>3. QED
      BY <3>1, <3>2
  <2>4. QED
    BY <2>1, <2>2, <2>3 DEF SelfInv, SelfTypeOK, Links, Notes
<1>16. CASE UNCHANGED selfVars
  BY <1>16 DEF selfVars, disk, SelfInv, SelfTypeOK, StaysSavable, Savable, Sound, Links
<1>17. QED
  BY <1>1, <1>2, <1>3, <1>4, <1>5, <1>6, <1>7, <1>8, <1>9, <1>10, <1>11, <1>12, <1>13,
     <1>14, <1>15, <1>16 DEF SelfNext, Boot

(* The symlink always names a version, and the guard never counts a third  *)
(* boot: selfupdate.py, guard.py and __main__.py keep their types.         *)
THEOREM SelfTypeCorrect == SelfSpec => []SelfTypeOK
<1>1. SelfInv => SelfTypeOK
  BY DEF SelfInv
<1>2. QED
  BY SelfStarts, SelfStep, <1>1, PTL DEF SelfSpec

(* For any number of updates at a time, versions and power failures: but   *)
(* for the four cases on mishap, install, the guard and the start never    *)
(* leave the boots that follow without a sound version to start or to go   *)
(* back to, and never a current.tmp the guard cannot replace.              *)
THEOREM StaysSavableHolds == SelfSpec => []StaysSavable
<1>1. SelfInv => StaysSavable
  BY DEF SelfInv
<1>2. QED
  BY SelfStarts, SelfStep, <1>1, PTL DEF SelfSpec

-----------------------------------------------------------------------------
(* The parts that serve the clients and the host.  A behaviour of them all *)
(* is, for each, one of its own in which it may stand still.               *)
LEMMA ClientsParts ==
  Spec => /\ SessionsSpec /\ RelaySpec /\ PhoneSpec /\ HostSpec /\ SelfSpec
          /\ [](part \in Parts)
<1>1. Init => /\ SessionsInit /\ RelayInit /\ PhoneInit /\ HostInit /\ SelfInit
              /\ part \in Parts
  BY DEF Init
<1>2. [Next]_<<part, AloneVars>> =>
        /\ [SessionsNext]_sessionVars /\ [RelayNext]_relayVars /\ [PhoneNext]_phoneVars
        /\ [HostNext]_hostVars /\ [SelfNext]_selfVars /\ part' = part
  BY Zenon DEF Next, AloneVars
<1>3. part \in Parts /\ part' = part => (part \in Parts)'
  OBVIOUS
<1>4. QED
  BY <1>1, <1>2, <1>3, PTL
     DEF Spec, SessionsSpec, RelaySpec, PhoneSpec, HostSpec, SelfSpec

(* Every part that serves the clients and the host keeps its types.        *)
THEOREM ClientsTypeCorrect == Spec => []ClientsTypeOK
<1>1. /\ part \in Parts /\ SessionsTypeOK /\ HelmHeld /\ RelayTypeOK /\ PhoneTypeOK
      /\ HostTypeOK /\ SelfTypeOK
      => ClientsTypeOK
  BY DEF ClientsTypeOK
<1>2. QED
  BY <1>1, ClientsParts, HelmHeldAlways, RelayTypeCorrect, PhoneTypeCorrect,
     HostTypeCorrect, SelfTypeCorrect, PTL

(* What each of them promises, it keeps in the composition that TLC checks *)
(* under its fairness: the parts share no variable.                        *)
THEOREM ClientsKeepPromises ==
    Spec => [](HelmHeld /\ RolesSettle /\ OneRequest /\ OneFeeder /\ JobTellsTruth)
BY ClientsParts, HelmHeldAlways, RolesSettleHolds, OneRequestHolds, OneFeederHolds,
   JobTellsTruthHolds, PTL
=============================================================================
