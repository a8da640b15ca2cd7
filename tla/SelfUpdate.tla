----------------------------- MODULE SelfUpdate -----------------------------
(***************************************************************************)
(* The host supervisor replacing itself: selfupdate.py unpacks a version,  *)
(* notes it in pending.json and flips the symlink; guard.py counts boots   *)
(* before each start and reverts at the third; __main__.py clears the note *)
(* when the noted version starts.  Each request to update runs on a thread *)
(* of its own and nothing keeps two apart.  The power may fail between any *)
(* two steps, and in the middle of a write of pending.json.                *)
(***************************************************************************)
EXTENDS Naturals

CONSTANTS
    Versions,
    First,         \* the version in the image
    FailEarly,     \* versions that end before they clear pending.json
    FailLate,      \* versions that end after it, before they are ready
    NoVersion,
    Bundles,       \* the versions that are uploaded
    Requests,      \* bound: the updates that run at a time
    MaxOutages     \* bound: power failures

ASSUME SelfUpdateAssumption ==
    /\ First \in Versions \ (FailEarly \cup FailLate) /\ NoVersion \notin Versions
    /\ Bundles \subseteq Versions /\ MaxOutages \in Nat

VARIABLES
    present,       \* the directories under versions/
    whole,         \* those that hold all of their version
    current,       \* where the symlink points
    tmp,           \* where current.tmp points, a link about to become current
    noted,         \* pending.json: absent, not readable, or a target, a
                   \* previous version and a count of boots
    proc,          \* how far systemd is in starting the service
    installs,      \* each request: its version and what it does next
    exiting,       \* a flip was done: the process ends within a second
    outages,
    mishap         \* history: a case of README section 7 occurred

disk == <<present, whole, current, tmp, noted>>
selfVars == <<disk, proc, installs, exiting, outages, mishap>>

NoNote == [is |-> "none", target |-> NoVersion, previous |-> NoVersion, boots |-> 0]
Torn == [NoNote EXCEPT !.is = "torn"]
Idle == [version |-> NoVersion, at |-> "none"]
AllIdle == [r \in Requests |-> Idle]

SelfInit ==
    /\ present = {First} /\ whole = {First} /\ current = First /\ tmp = NoVersion
    /\ noted = NoNote /\ proc = "up" /\ installs = AllIdle /\ exiting = FALSE
    /\ outages = 0 /\ mishap = FALSE

(* A version that starts, and stays up, whenever it is started.            *)
Sound(v) == v \in whole \ (FailEarly \cup FailLate)
(* What the next boots rest on.                                            *)
InUse == {tmp, IF noted.is = "whole" THEN noted.previous ELSE current}

-----------------------------------------------------------------------------
(* install, at what request r does next; each step may raise.              *)
At(r, stage) == proc = "up" /\ installs[r].at = stage
Proceed(r, stage) == installs' = [installs EXCEPT ![r].at = stage]

(* An old directory of that version is removed first, also from under      *)
(* another request that unpacks into it.                                   *)
Clear(r, v) ==
    /\ At(r, "none") /\ whole' = whole \ {v}
    /\ installs' = [o \in Requests |->
           IF o = r THEN [version |-> v, at |-> "cleared"]
           ELSE IF installs[o] = [version |-> v, at |-> "unpacking"]
                THEN [installs[o] EXCEPT !.at = "spoilt"] ELSE installs[o]]
    /\ present' \in {present, present \ {v}}      \* rmtree may raise half-way
    /\ mishap' = (mishap \/ v \in InUse)
    /\ UNCHANGED <<current, tmp, noted, proc, exiting, outages>>

MakeDir(r) ==
    /\ At(r, "cleared") /\ installs[r].version \notin present
    /\ present' = present \cup {installs[r].version} /\ Proceed(r, "unpacking")
    /\ UNCHANGED <<whole, current, tmp, noted, proc, exiting, outages, mishap>>

(* The check imports the package, no more: it also passes on files that    *)
(* two requests wrote and removed between them.                            *)
Unpacked(r) ==
    LET v == installs[r].version
    IN /\ At(r, "unpacking") \/ At(r, "spoilt")
       /\ present' = present \cup {v}
       /\ \/ whole' = whole \cup {v}
          \/ /\ \E o \in Requests : installs[o] = [version |-> v, at |-> "spoilt"]
             /\ UNCHANGED whole
       /\ Proceed(r, "note")
       /\ UNCHANGED <<current, tmp, noted, proc, exiting, outages, mishap>>

NoteOf(v, back) == [is |-> "whole", target |-> v, previous |-> back, boots |-> 0]
Noted(r, note) ==
    /\ At(r, "note") /\ Proceed(r, "link")
    /\ noted' = note /\ mishap' = (mishap \/ note = Torn \/ ~Sound(current))
    /\ UNCHANGED <<present, whole, current, tmp, proc, exiting, outages>>
NoteTooLate(r) ==     \* mutant: what to go back to is read after the flip
    Noted(r, NoteOf(installs[r].version, installs[r].version))
(* Two requests that write it at once may leave a mixture of both.         *)
Note(r) ==
    \/ Noted(r, NoteOf(installs[r].version, current))
    \/ (\E o \in Requests \ {r} : At(o, "note")) /\ Noted(r, Torn)

Link(r) ==
    /\ At(r, "link") /\ tmp' = installs[r].version /\ Proceed(r, "flip")
    /\ mishap' = (mishap \/ installs[r].version \notin present)
    /\ UNCHANGED <<present, whole, current, noted, proc, exiting, outages>>

(* It replaces current by current.tmp, whichever request made that.        *)
Flip(r) ==
    /\ At(r, "flip") /\ tmp # NoVersion
    /\ current' = tmp /\ tmp' = NoVersion /\ exiting' = TRUE
    /\ installs' = [installs EXCEPT ![r] = Idle]
    /\ mishap' = (mishap \/ (noted.is # "whole" /\ ~Sound(tmp)))
    /\ UNCHANGED <<present, whole, noted, proc, outages>>

(* A write that is cut short, if there is one, leaves text nobody can read.*)
MayTear(writing) ==
    /\ noted' = noted \/ (writing /\ noted' = Torn)
    /\ mishap' = (mishap \/ (noted' # noted /\ ~Sound(current)))

(* OSError, a request of which nothing is left but what it wrote.          *)
Raises(r) ==
    /\ proc = "up" /\ installs[r].at # "none"
    /\ installs' = [installs EXCEPT ![r] = Idle] /\ MayTear(At(r, "note"))
    /\ UNCHANGED <<present, whole, current, tmp, proc, exiting, outages>>

Stops ==
    /\ proc' = "down" /\ installs' = AllIdle /\ exiting' = FALSE
    /\ UNCHANGED <<present, whole, current, tmp>>

(* os._exit on a thread of its own, a second after the flip.               *)
Exit ==
    /\ exiting /\ Stops /\ MayTear(\E r \in Requests : At(r, "note"))
    /\ UNCHANGED outages

-----------------------------------------------------------------------------
(* guard.main, before each start.  What it does is on proc until the start.*)
Guard(stage, next) ==
    /\ proc = stage /\ proc' = next
    /\ UNCHANGED <<present, whole, installs, exiting, outages, mishap>>

(* Nothing to count, or nothing it can read.                               *)
GuardPasses == noted.is # "whole" /\ Guard("down", "guarded") /\ UNCHANGED <<current, tmp, noted>>

Counting(last) == noted.is = "whole" /\ noted.boots + 1 < last
Counts(last) ==
    /\ Counting(last) /\ noted' = [noted EXCEPT !.boots = @ + 1]
    /\ Guard("down", "guarded") /\ UNCHANGED <<current, tmp>>
GuardCountsLate == Counts(4)     \* mutant: the third failed start is let pass
GuardCounts == Counts(3)

(* The third boot.  current.tmp is removed if what it points to exists.    *)
Reverting == noted.is = "whole" /\ noted.boots + 1 >= 3
GuardLinks ==
    /\ Reverting /\ noted.previous \in present /\ tmp \in present \cup {NoVersion}
    /\ tmp' = noted.previous /\ Guard("down", "linked") /\ UNCHANGED <<current, noted>>
GuardFlips ==
    /\ current' = tmp /\ tmp' = NoVersion
    /\ Guard("linked", "reverted") /\ UNCHANGED noted
GuardForgets ==
    /\ Guard("reverted", "guarded") \/ (Reverting /\ noted.previous \notin present
                                           /\ Guard("down", "guarded"))
    /\ noted' = NoNote /\ UNCHANGED <<current, tmp>>

(* The version the symlink names clears the note if it is the one noted.   *)
Start ==
    LET runs == current \in whole \ FailEarly
        clears == runs /\ noted.is = "whole" /\ noted.target = current
    IN /\ proc = "guarded" /\ proc' = IF Sound(current) THEN "up" ELSE "down"
       /\ noted' = IF clears THEN NoNote ELSE noted
       /\ mishap' = (mishap \/ (clears /\ current \in FailLate))
       /\ UNCHANGED <<present, whole, current, tmp, installs, exiting, outages>>

Boot == GuardPasses \/ GuardCounts \/ GuardLinks \/ GuardFlips \/ GuardForgets \/ Start

Outage ==
    /\ outages < MaxOutages /\ outages' = outages + 1 /\ Stops
    /\ MayTear((\E r \in Requests : At(r, "note")) \/ (proc = "down" /\ Counting(3)))

SelfNext ==
    \/ \E r \in Requests :
           \/ \E v \in Bundles : Clear(r, v)
           \/ MakeDir(r) \/ Unpacked(r) \/ Note(r) \/ Link(r) \/ Flip(r) \/ Raises(r)
    \/ Exit \/ Boot \/ Outage

SelfSpec == SelfInit /\ [][SelfNext]_selfVars
(* systemd restarts a service that ended, Restart=always.                  *)
LiveSelf == SelfSpec /\ WF_selfVars(Boot)
-----------------------------------------------------------------------------
Stages == {"none", "cleared", "unpacking", "spoilt", "note", "link", "flip"}
SelfTypeOK ==
    /\ present \subseteq Versions /\ whole \subseteq present
    /\ current \in Versions /\ tmp \in Versions \cup {NoVersion}
    /\ noted \in [is : {"none", "torn", "whole"}, target : Versions \cup {NoVersion},
                  previous : Versions \cup {NoVersion}, boots : 0 .. 2]
    /\ proc \in {"down", "linked", "reverted", "guarded", "up"}
    /\ installs \in [Requests -> [version : Versions \cup {NoVersion}, at : Stages]]
    /\ {exiting, mishap} \subseteq BOOLEAN /\ outages \in 0 .. MaxOutages

(* Wherever the power failed and however two updates overlapped, short of  *)
(* the cases of README section 7: the guard has a sound version to go back *)
(* to, or the symlink already names one, and nothing keeps it from         *)
(* flipping.                                                               *)
Savable ==
    /\ Sound(IF noted.is = "whole" THEN noted.previous ELSE current)
    /\ tmp \in present \cup {NoVersion}
StaysSavable == ~mishap => Savable

(* A supervisor that goes down comes back, in the new version or the old:  *)
(* three failed starts revert it, wherever the power failed in an install  *)
(* and whatever other install it overlapped, short of those cases.         *)
SupervisorReturns == (proc # "up" /\ ~mishap) ~> (proc = "up" \/ mishap)

(* Not kept by the code (README, section 7): "3 failed starts -> guard     *)
(* reverts", of a version that ends late, of a note that was being written *)
(* as the power failed, and always; guard.py "Always exits 0 (must never   *)
(* block a start)".                                                        *)
LateFailureReverts ==
    (proc = "down" /\ noted.is # "torn" /\ current \in whole \cap FailLate) ~> (proc = "up")
TornNoteReturns == (proc # "up" /\ noted.is = "torn") ~> (proc = "up")
AlwaysReturns == (proc # "up") ~> (proc = "up")
GuardEnds == (proc = "down") ~> (proc # "down")
=============================================================================
