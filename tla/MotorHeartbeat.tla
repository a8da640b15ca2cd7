--------------------------- MODULE MotorHeartbeat ---------------------------
(***************************************************************************)
(* The health of the serial motor driver, hardware/serial_devices.py: the  *)
(* read supervisor that reopens a lost port, and the heartbeat that finds  *)
(* a line broken one way, whose writes land and reach nobody.  Each flush  *)
(* carries a number the board echoes in what it reports; a report is read  *)
(* when it is sent, or lost.  Time passes by control ticks.                *)
(***************************************************************************)
EXTENDS Integers, Sequences

CONSTANTS
    SeqModulo,     \* SEQ_MODULO
    RecentMax,     \* RECENT_SENT_MAX
    AckTimeout     \* ack_timeout_s, in ticks

ASSUME HeartbeatAssumption ==
    {SeqModulo, RecentMax, AckTimeout} \subseteq Nat \ {0} /\ RecentMax < SeqModulo

VARIABLES
    portOpen,      \* the transport is open
    supHealthy,    \* the supervisor's flag, which a failed write clears too
    seqNo,         \* _seq
    recentSent,    \* _recent_sent
    seqSupported,  \* a report carried a number
    ackAge,        \* since _last_ack_monotonic, counted to AckTimeout + 1
    boardSeq,      \* the number the board echoes, or NoSeq
    unheard,       \* history: lines written since the board heard one
    flushed        \* history: numbers used up since then, counted to SeqModulo

beatVars == <<portOpen, supHealthy, seqNo, recentSent, seqSupported, ackAge, boardSeq,
              unheard, flushed>>

NoSeq == -1
Seqs == 0 .. SeqModulo - 1
Longest == RecentMax + AckTimeout     \* as far as unheard is counted
UpTo(n, most) == IF n > most THEN most ELSE n

HeartbeatInit ==
    /\ portOpen = TRUE /\ supHealthy = TRUE
    /\ seqNo = 0 /\ recentSent = <<>> /\ seqSupported = FALSE /\ ackAge = 0
    /\ boardSeq = NoSeq /\ unheard = 0 /\ flushed = 0

Aged(age) == UpTo(age + 1, AckTimeout + 1)
Remembering(s) ==
    LET all == Append(recentSent, s)
    IN IF Len(all) > RecentMax THEN Tail(all) ELSE all

(* flush, once a tick: the line lands on an open port or the write fails;  *)
(* one that lands is heard by the board or not.                            *)
BeatFlush(lands, heard) ==
    /\ lands => portOpen
    /\ heard => lands
    /\ seqNo' = (seqNo + 1) % SeqModulo
    /\ recentSent' = IF lands THEN Remembering(seqNo') ELSE recentSent
    /\ supHealthy' = (supHealthy /\ lands)
    /\ ackAge' = Aged(ackAge)
    /\ boardSeq' = IF heard THEN seqNo' ELSE boardSeq
    /\ unheard' = IF heard THEN 0 ELSE IF lands THEN UpTo(unheard + 1, Longest) ELSE unheard
    /\ flushed' = IF heard THEN 0 ELSE UpTo(flushed + 1, SeqModulo)
    /\ UNCHANGED <<portOpen, seqSupported>>

(* A tick of a loop that hangs before its flush.                           *)
NoFlush ==
    /\ ackAge' = Aged(ackAge)
    /\ UNCHANGED <<portOpen, supHealthy, seqNo, recentSent, seqSupported, boardSeq,
                   unheard, flushed>>

AcksAny(s) == s # NoSeq     \* mutant: any number is taken for an answer
(* The number is one of those sent lately.                                 *)
Acks(s) == \E i \in DOMAIN recentSent : recentSent[i] = s

(* _note_seq: the first numbered report arms the clock.                    *)
Report ==
    /\ portOpen
    /\ seqSupported' = TRUE
    /\ ackAge' = IF ~seqSupported \/ Acks(boardSeq) THEN 0 ELSE ackAge
    /\ unheard' = IF seqSupported THEN unheard ELSE 0
    /\ UNCHANGED <<portOpen, supHealthy, seqNo, recentSent, boardSeq, flushed>>

(* EOF or a read error: the supervisor closes the port and backs off.      *)
PortLost ==
    /\ portOpen /\ portOpen' = FALSE /\ supHealthy' = FALSE
    /\ UNCHANGED <<seqNo, recentSent, seqSupported, ackAge, boardSeq, unheard, flushed>>
(* It is opened again; an attempt that fails changes only the backoff.     *)
Reopened ==
    /\ ~portOpen /\ portOpen' = TRUE /\ supHealthy' = TRUE
    /\ UNCHANGED <<seqNo, recentSent, seqSupported, ackAge, boardSeq, unheard, flushed>>

EchoReset ==     \* the board forgets what it heard
    /\ boardSeq' = NoSeq
    /\ UNCHANGED <<portOpen, supHealthy, seqNo, recentSent, seqSupported, ackAge,
                   unheard, flushed>>

HeartbeatNext ==
    \/ \E lands, heard \in BOOLEAN : BeatFlush(lands, heard)
    \/ NoFlush \/ Report \/ PortLost \/ Reopened \/ EchoReset

HeartbeatSpec == HeartbeatInit /\ [][HeartbeatNext]_beatVars
-----------------------------------------------------------------------------
(* Every variable has its type.                                            *)
HeartbeatTypeOK ==
    /\ {portOpen, supHealthy, seqSupported} \subseteq BOOLEAN
    /\ seqNo \in Seqs /\ boardSeq \in Seqs \cup {NoSeq}
    /\ recentSent \in Seq(Seqs) /\ Len(recentSent) <= RecentMax
    /\ ackAge \in 0 .. AckTimeout + 1
    /\ unheard \in 0 .. Longest /\ flushed \in 0 .. SeqModulo

DriverHealthy == supHealthy /\ (seqSupported => ackAge <= AckTimeout)

(* A board that hears none of our lines is found out, although it goes on  *)
(* reporting the last number it heard and ports come and go: not within    *)
(* the timeout, but once that number has left the ones sent lately too,    *)
(* and until the numbers come round again.                                 *)
DeafBoardNoticed ==
    seqSupported /\ unheard = Longest /\ flushed < SeqModulo => ~DriverHealthy

(* Not kept by the code (README, section 7): "stop being acknowledged      *)
(* within ack_timeout_s", while the last number heard is still recent.     *)
DeafBoardNoticedInTime ==
    seqSupported /\ unheard > AckTimeout /\ flushed < SeqModulo => ~DriverHealthy
=============================================================================
