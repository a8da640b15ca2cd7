---------------------------- MODULE PhoneSensors ----------------------------
(***************************************************************************)
(* A phone as the boat's GPS, hardware/drivers/phone.py: one connected     *)
(* client at a time feeds the slot, and the last fix is published again    *)
(* while its stream is quiet, but not for long.  Time passes in seconds.   *)
(***************************************************************************)
EXTENDS Naturals

CONSTANTS
    Phones,        \* clients that stream
    NoPhone,
    ReissueMax     \* _REISSUE_MAX_S

Gone == "gone"     \* a phone that has disconnected

ASSUME PhoneAssumption ==
    /\ NoPhone \notin Phones /\ Gone \notin Phones
    /\ ReissueMax \in Nat \ {0}

VARIABLES
    built,         \* the phone GPS is built: its sink is registered
    online,        \* the phones whose socket is open
    feeder,        \* _feeder["gps"]
    lastFix,       \* whose fix _last_fix is, or Gone
    quiet          \* seconds since that fix, counted to ReissueMax + 1

phoneVars == <<built, online, feeder, lastFix, quiet>>

PhoneInit ==
    /\ built = TRUE /\ online = {} /\ feeder = NoPhone
    /\ lastFix = NoPhone /\ quiet = 0

PhoneConnects(p) ==
    /\ p \notin online
    /\ online' = online \cup {p}
    /\ UNCHANGED <<built, feeder, lastFix, quiet>>

HolderLast(p) == p     \* mutant: the last to stream takes the slot
(* ingest: the first to stream claims the slot, with a bad sample too.     *)
Holder(p) == IF feeder = NoPhone THEN p ELSE feeder

Sample(p, valid) ==
    /\ built /\ p \in online
    /\ feeder' = Holder(p)
    /\ IF valid /\ feeder' = p
       THEN lastFix' = p /\ quiet' = 0
       ELSE UNCHANGED <<lastFix, quiet>>
    /\ UNCHANGED <<built, online>>

PhoneDisconnects(p) ==
    /\ p \in online
    /\ online' = online \ {p}
    /\ feeder' = IF feeder = p THEN NoPhone ELSE feeder
    /\ lastFix' = IF lastFix = p THEN Gone ELSE lastFix   \* the fix is kept
    /\ UNCHANGED <<built, quiet>>

(* What _reissue_if_quiet puts on the bus, and whether it does.            *)
Reissues == built /\ lastFix # NoPhone /\ quiet \in 2 .. ReissueMax /\ feeder # NoPhone

Second ==
    /\ quiet <= ReissueMax /\ quiet' = quiet + 1
    /\ UNCHANGED <<built, online, feeder, lastFix>>

(* A device reload stops the old sensor, which frees the slot, and starts  *)
(* a new one, which has no fix yet.                                        *)
PhoneStop ==
    /\ built /\ built' = FALSE
    /\ feeder' = NoPhone /\ lastFix' = NoPhone /\ quiet' = 0
    /\ UNCHANGED online
PhoneStart ==
    /\ ~built /\ built' = TRUE
    /\ UNCHANGED <<online, feeder, lastFix, quiet>>

PhoneNext ==
    \/ Second \/ PhoneStop \/ PhoneStart
    \/ \E p \in Phones : PhoneConnects(p) \/ PhoneDisconnects(p)
    \/ \E p \in Phones, valid \in BOOLEAN : Sample(p, valid)

PhoneSpec == PhoneInit /\ [][PhoneNext]_phoneVars
-----------------------------------------------------------------------------
PhoneTypeOK ==
    /\ built \in BOOLEAN /\ online \subseteq Phones
    /\ feeder \in Phones \cup {NoPhone} /\ lastFix \in Phones \cup {NoPhone, Gone}
    /\ quiet \in 0 .. ReissueMax + 1

(* The boat follows one phone: its fixes change hands only when the phone  *)
(* that fed them has left, or the sensor was rebuilt, never because        *)
(* another phone streams too; and the slot is never kept by one that left. *)
OneFeeder ==
    /\ feeder # NoPhone => feeder \in online
    /\ lastFix \in Phones => feeder = lastFix

(* Not kept by the code (README, section 7): "feeder gone -> stay silent", *)
(* so that a fix published again is the fix of the feeder.                 *)
ReissuesTheFeeders == Reissues => lastFix = feeder
=============================================================================
