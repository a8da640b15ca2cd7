--------------------------- MODULE RemoteControl ---------------------------
(***************************************************************************)
(* A remote that drives the boat through a connector: the RF handset of    *)
(* connectors/rf_remote.py and the NMEA 2000 thruster head of nmea2000.py. *)
(* Both latch a deadman while they are the active driver; the app commands *)
(* the boat meanwhile, and the device gate of the controller refuses a     *)
(* hold without saying so.  Time passes in tenths of the expiry.           *)
(***************************************************************************)
EXTENDS Integers

CONSTANTS
    Expiries,     \* deadman timeouts: expiry_s, or those the frames carry
    MinExpiry, MaxExpiry     \* _DEADMAN_MIN_S and _DEADMAN_MAX_S

ASSUME RemoteAssumption ==
    /\ Expiries \subseteq Nat \ {0} /\ Expiries # {}
    /\ {MinExpiry, MaxExpiry} \subseteq Nat \ {0} /\ MinExpiry <= MaxExpiry

VARIABLES
    fitted,      \* the hold's devices are connected
    kind,        \* which connector it is
    running,     \* it is armed and its tasks run
    linked,      \* its transport is open
    latched,     \* _last_stick_nonzero: it is the active driver
    silence,     \* since _last_stick_mono, counted to the expiry
    expiry,      \* _expiry_s, _active_expiry_s
    boat,        \* what the boat does: "still", "driven" or "hold"
    by,          \* whose order that was
    refused      \* history: its last button was refused, or it was stopped

remoteVars == <<fitted, kind, running, linked, latched, silence, expiry, boat, by, refused>>

Clamped(t) == IF t < MinExpiry THEN MinExpiry ELSE IF t > MaxExpiry THEN MaxExpiry ELSE t

RemoteInit ==
    /\ fitted \in BOOLEAN /\ kind \in {"handset", "head"}
    /\ running = TRUE /\ linked = TRUE
    /\ latched = FALSE /\ silence = 0
    /\ expiry \in IF kind = "handset" THEN Expiries ELSE {Clamped(t) : t \in Expiries}
    /\ boat = "still" /\ by = "app" /\ refused = FALSE

Order(does, who) == boat' = does /\ by' = who
Disarm == latched' = FALSE /\ silence' = 0

DriveKeepsLatch(driven) ==     \* mutant: only the first line latches
    /\ Order(IF driven THEN "driven" ELSE "still", "remote")
    /\ latched' = (driven /\ by # "remote") /\ silence' = 0 /\ refused' = FALSE
(* A stick or a thruster frame: submitted, it latches the deadman unless   *)
(* it asks for nothing.                                                    *)
Drive(driven) ==
    /\ Order(IF driven THEN "driven" ELSE "still", "remote")
    /\ latched' = driven /\ silence' = 0 /\ refused' = FALSE

Stick(driven) ==
    /\ running /\ linked /\ kind = "handset"
    /\ Drive(driven)
    /\ UNCHANGED <<fitted, kind, running, linked, expiry>>

(* PGN 128006 for this thruster and not its own: direction Off drives not, *)
(* whatever the speed; the command timeout is clamped.                     *)
Frame(off, speed, timeout) ==
    /\ running /\ linked /\ kind = "head"
    /\ Drive(~off /\ speed)
    /\ expiry' = Clamped(timeout)
    /\ UNCHANGED <<fitted, kind, running, linked>>

(* A mode button hands off: the deadman is disarmed once the command was   *)
(* submitted, whether the controller then took it or not.                  *)
Button(which) ==
    /\ running /\ linked /\ kind = "handset"
    /\ \/ which \in {"STOP", "MANUAL"} /\ Order("still", "remote") /\ UNCHANGED refused
       \/ which = "ANCHOR" /\ fitted /\ Order("hold", "remote") /\ UNCHANGED refused
       \/ which = "ANCHOR" /\ ~fitted /\ refused' = TRUE /\ UNCHANGED <<boat, by>>
    /\ Disarm
    /\ UNCHANGED <<fitted, kind, running, linked, expiry>>
(* The watchdog polls much faster than the expiry.                         *)
RemoteTick ==
    /\ IF running /\ latched /\ silence + 1 >= expiry
       THEN Order("still", "remote") /\ Disarm
       ELSE /\ silence' = IF silence < expiry THEN silence + 1 ELSE silence
            /\ UNCHANGED <<boat, by, latched>>
    /\ UNCHANGED <<fitted, kind, running, linked, expiry, refused>>

(* EOF or a read error: a stop only from the active driver.                *)
LinkLost ==
    /\ running /\ linked /\ linked' = FALSE
    /\ \/ latched /\ Order("still", "remote") /\ Disarm
       \/ ~latched /\ UNCHANGED <<boat, by, latched, silence>>
    /\ UNCHANGED <<fitted, kind, running, expiry, refused>>
LinkBack ==
    /\ running /\ ~linked /\ linked' = TRUE
    /\ UNCHANGED <<fitted, kind, running, latched, silence, expiry, boat, by, refused>>

(* set_connector_armed(False), or the stop half of a settings change: the  *)
(* tasks are cancelled, the deadman with them.                             *)
ConnectorStops ==
    /\ running /\ running' = FALSE /\ linked' = FALSE
    /\ Disarm
    /\ refused' = TRUE
    /\ UNCHANGED <<fitted, kind, expiry, boat, by>>
ConnectorStarts ==
    /\ ~running /\ running' = TRUE /\ linked' \in BOOLEAN
    /\ UNCHANGED <<fitted, kind, latched, silence, expiry, boat, by, refused>>

AppOrders(does) ==
    /\ does = "hold" => fitted
    /\ Order(does, "app")
    /\ UNCHANGED <<fitted, kind, running, linked, latched, silence, expiry, refused>>

RemoteNext ==
    \/ \E driven \in BOOLEAN : Stick(driven)
    \/ \E off, speed \in BOOLEAN, timeout \in Expiries : Frame(off, speed, timeout)
    \/ \E which \in {"STOP", "MANUAL", "ANCHOR"} : Button(which)
    \/ RemoteTick \/ LinkLost \/ LinkBack \/ ConnectorStops \/ ConnectorStarts
    \/ \E does \in {"still", "driven", "hold"} : AppOrders(does)

RemoteSpec == RemoteInit /\ [][RemoteNext]_remoteVars
-----------------------------------------------------------------------------
RemoteTypeOK ==
    /\ {fitted, running, linked, latched, refused} \subseteq BOOLEAN
    /\ kind \in {"handset", "head"} /\ silence \in 0 .. expiry
    /\ expiry \in Expiries \cup (MinExpiry .. MaxExpiry)
    /\ boat \in {"still", "driven", "hold"} /\ by \in {"remote", "app"}

(* While the boat does what the remote last told it, the deadman is armed  *)
(* and young; once the remote has handed off to a hold, its radio may go   *)
(* silent without disturbing the hold.                                     *)
LatchFollowsDriver ==
    by = "remote" /\ ~refused =>
        /\ boat = "driven" => latched /\ silence < expiry
        /\ boat = "hold" => ~latched

(* Not kept by the code (README, section 7): "1 s of stick silence while   *)
(* the remote is the active driver -> one stop (guaranteed path, survives  *)
(* grant revocation)".                                                     *)
RemoteSilenceStops == boat = "driven" /\ by = "remote" => silence < expiry
=============================================================================
