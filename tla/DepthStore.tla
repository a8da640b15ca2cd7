----------------------------- MODULE DepthStore -----------------------------
(***************************************************************************)
(* The depth map in memory and its file, nav/depth.py and runtime: the     *)
(* load behind the boot, the soundings of the broadcaster, the checkpoint  *)
(* of the supervisor and an import, each with a thread of its own, and the *)
(* restore of a backup.  A sounding is the number it was taken under; the  *)
(* thinning by distance and the static chart are left out.                 *)
(***************************************************************************)
EXTENDS Naturals, FiniteSets

CONSTANTS
    MaxPoints,     \* max_points
    Batch,         \* new soundings that are worth a checkpoint
    MaxSoundings,  \* bound: soundings taken or imported
    MaxBoots       \* bound: starts of the runtime

ASSUME DepthAssumption ==
    {MaxPoints, Batch, MaxBoots} \subseteq Nat \ {0} /\ MaxSoundings \in Nat \ {0, 1}

VARIABLES
    points,        \* the points of each DepthMap object
    depthMap,      \* which object rt.depth_map is
    loader,        \* the background load
    savedN,        \* _depth_saved_n
    checkpoint,    \* the save in flight, if any: what it saves, how far it is
    importing,     \* the import under way: which map, how far it is, what it copied when
    file,          \* depthmap.json
    taken,         \* soundings so far
    boots,
    live           \* history: taken at sea since the start or the last replacement

depthVars == <<points, depthMap, loader, savedN, checkpoint, importing,
               file, taken, boots, live>>

Maps == {"boot", "loaded", "restored"}
Idle == [at |-> "idle", map |-> "boot", n |-> 0, copy |-> {}]
Old == {1, 2}      \* what the file holds at first
Backup == {1}      \* what the backup holds

Newer(s, of) == {t \in of : t > s}
Newest(of) == {s \in of : Cardinality(Newer(s, of)) < MaxPoints}

Booted ==
    /\ points' = [m \in Maps |-> {}] /\ depthMap' = "boot" /\ loader' = "reading"
    /\ savedN' = 0 /\ checkpoint' = Idle /\ importing' = Idle /\ live' = {}

DepthInit ==
    /\ points = [m \in Maps |-> {}] /\ depthMap = "boot" /\ loader = "reading"
    /\ savedN = 0 /\ checkpoint = Idle /\ importing = Idle /\ live = {}
    /\ file = Old /\ taken = 2 /\ boots = 1

(* The load: the file is read in a thread, and a file that will not load   *)
(* leaves the boot map in place.                                           *)
LoadReads ==
    /\ loader = "reading"
    /\ \/ loader' = "read" /\ points' = [points EXCEPT !["loaded"] = Newest(file)]
       \/ loader' = "done" /\ UNCHANGED points
    /\ UNCHANGED <<depthMap, savedN, checkpoint, importing, file, taken, boots, live>>

SwappedBare == points["loaded"]     \* mutant: without the replay
(* The swap replays what the map of now holds, whichever map that is.      *)
SwappedIn == Newest(points["loaded"] \cup points[depthMap])

LoadInstalls ==
    /\ loader = "read" /\ loader' = "done"
    /\ points' = [points EXCEPT !["loaded"] = SwappedIn]
    /\ depthMap' = "loaded" /\ savedN' = Cardinality(SwappedIn)
    /\ UNCHANGED <<checkpoint, importing, file, taken, boots, live>>

Record ==
    /\ taken < MaxSoundings /\ taken' = taken + 1
    /\ points' = [points EXCEPT ![depthMap] = Newest(@ \cup {taken'})]
    /\ live' = live \cup {taken'}
    /\ UNCHANGED <<depthMap, loader, savedN, checkpoint, importing, file, boots>>

(* _maybe_persist_depth: one save at a time, and its count is the one      *)
(* before the save.                                                        *)
CheckpointStarts ==
    /\ checkpoint = Idle
    /\ Cardinality(points[depthMap]) >= savedN + Batch
    /\ checkpoint' = [Idle EXCEPT !.at = "saving", !.map = depthMap,
                                  !.n = Cardinality(points[depthMap])]
    /\ UNCHANGED <<points, depthMap, loader, savedN, importing, file, taken, boots, live>>

(* save: nothing is written for an empty map; a failure is logged only.    *)
Save(m) == file' = (IF points[m] = {} THEN file ELSE points[m]) \/ UNCHANGED file

CheckpointWrites ==
    /\ checkpoint.at = "saving" /\ Save(checkpoint.map)
    /\ checkpoint' = [checkpoint EXCEPT !.at = "saved"]
    /\ UNCHANGED <<points, depthMap, loader, savedN, importing, taken, boots, live>>

CheckpointEnds ==
    /\ checkpoint.at = "saved" /\ checkpoint' = Idle
    /\ savedN' = checkpoint.n
    /\ UNCHANGED <<points, depthMap, loader, importing, file, taken, boots, live>>

(* import_depth_map: the map object is fixed when the file is parsed.      *)
ImportTakes ==
    /\ importing = Idle /\ taken < MaxSoundings
    /\ importing' = [Idle EXCEPT !.at = "parsed", !.map = depthMap]
    /\ UNCHANGED <<points, depthMap, loader, savedN, checkpoint, file, taken, boots, live>>

ImportExtends(replace) ==
    /\ importing.at = "parsed" /\ taken < MaxSoundings /\ taken' = taken + 1
    /\ points' = [points EXCEPT ![importing.map] =
                    IF replace THEN {taken'} ELSE @ \cup {taken'}]
    /\ live' = IF replace /\ importing.map = depthMap THEN {} ELSE live
    /\ importing' = [importing EXCEPT !.at = "extended"]
    /\ UNCHANGED <<depthMap, loader, savedN, checkpoint, file, boots>>

(* Of a list that grew too long the newest are copied, and the copy is put *)
(* in its place: a sounding the loop takes in between is lost (README,     *)
(* section 7), and the history forgets it.                                 *)
ImportCopies ==
    /\ importing.at = "extended"
    /\ importing' = IF Cardinality(points[importing.map]) > MaxPoints
                    THEN [importing EXCEPT !.at = "copied", !.n = taken,
                                           !.copy = Newest(points[importing.map])]
                    ELSE [importing EXCEPT !.at = "capped"]
    /\ UNCHANGED <<points, depthMap, loader, savedN, checkpoint, file, taken, boots, live>>

ImportCaps ==
    /\ importing.at = "copied"
    /\ importing' = [Idle EXCEPT !.at = "capped", !.map = importing.map]
    /\ points' = [points EXCEPT ![importing.map] = importing.copy]
    /\ live' = IF importing.map = depthMap THEN {s \in live : s <= importing.n} ELSE live
    /\ UNCHANGED <<depthMap, loader, savedN, checkpoint, file, taken, boots>>

ImportSaves ==
    /\ importing.at = "capped" /\ importing' = Idle
    /\ Save(importing.map) /\ savedN' = Cardinality(points[importing.map])
    /\ UNCHANGED <<points, depthMap, loader, checkpoint, taken, boots, live>>

(* restore_backup, in one step of the loop; a backup need not hold the     *)
(* soundings.                                                              *)
RestoreDepth ==
    /\ "restored" \notin {depthMap, checkpoint.map, importing.map}
    /\ file' \in {file, Backup}
    /\ points' = [points EXCEPT !["restored"] = Newest(file')]
    /\ depthMap' = "restored" /\ savedN' = Cardinality(Newest(file')) /\ live' = {}
    /\ UNCHANGED <<loader, checkpoint, importing, taken, boots>>

(* The runtime stops, which saves, or the power fails.                     *)
Reboot ==
    /\ boots < MaxBoots /\ boots' = boots + 1
    /\ Save(depthMap)
    /\ Booted
    /\ UNCHANGED taken

DepthNext ==
    \/ LoadReads \/ LoadInstalls \/ Record
    \/ CheckpointStarts \/ CheckpointWrites \/ CheckpointEnds
    \/ ImportTakes \/ (\E replace \in BOOLEAN : ImportExtends(replace))
    \/ ImportCopies \/ ImportCaps \/ ImportSaves
    \/ RestoreDepth \/ Reboot

DepthSpec == DepthInit /\ [][DepthNext]_depthVars
-----------------------------------------------------------------------------
(* Every variable has its type, and a map that no import is just making    *)
(* longer has max_points points at most.                                   *)
Growing(m) == importing.map = m /\ importing.at \in {"extended", "copied"}
Jobs == [at : {"idle", "saving", "saved", "parsed", "extended", "copied", "capped"},
         map : Maps, n : Nat, copy : SUBSET (1 .. MaxSoundings)]
DepthTypeOK ==
    /\ points \in [Maps -> SUBSET (1 .. MaxSoundings)] /\ depthMap \in Maps
    /\ \A m \in Maps : Growing(m) \/ Cardinality(points[m]) <= MaxPoints
    /\ loader \in {"reading", "read", "done"}
    /\ savedN \in Nat /\ file \subseteq 1 .. MaxSoundings
    /\ {checkpoint, importing} \subseteq Jobs
    /\ taken \in 2 .. MaxSoundings /\ boots \in 1 .. MaxBoots /\ live \subseteq 1 .. MaxSoundings

(* Whatever loads, saves, imports or restores meanwhile, a sounding taken  *)
(* at sea stays in the map until the owner replaces the map, the runtime   *)
(* stops, or max_points newer ones push it out; but for one that falls     *)
(* between the copy of an import and its use.                              *)
LiveSurvives ==
    \A s \in live : s \in points[depthMap] \/ Cardinality(Newer(s, points[depthMap])) >= MaxPoints

(* Not kept by the code (README, section 7): "If someone REPLACED the map  *)
(* object meanwhile, keep theirs.", and the whole of the promise above.    *)
ReplacedMapKept == [][depthMap = "restored" => depthMap' = "restored" \/ boots' # boots]_depthVars
NoneLost == [][importing.at = "copied" /\ importing'.at = "capped" => live' = live]_depthVars
=============================================================================
