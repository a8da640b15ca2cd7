----------------------------- MODULE HostUpdate -----------------------------
(***************************************************************************)
(* The host supervisor's jobs on the boat's container, vanchor_supervisor/ *)
(* core.py: an update gated on health with its automatic rollback, the     *)
(* manual rollback, the restore of a backup, and the prune that the API    *)
(* runs beside them.  Docker is external: stop fails on an absent          *)
(* container, run fails when the name is taken or the image is missing.    *)
(* The host or the supervisor may restart between any two steps; then      *)
(* ensure_running reconciles.                                              *)
(***************************************************************************)
EXTENDS Naturals

CONSTANTS
    Tags,          \* versions of the application
    Factory,       \* the tag installed at first
    BadTags,       \* versions that never pass the health gate
    NoTag,         \* previous_tag None
    MaxRestarts    \* bound: restarts of the supervisor or of the host

ASSUME HostAssumption ==
    Factory \in Tags \ BadTags /\ NoTag \notin Tags /\ MaxRestarts \in Nat

VARIABLES
    tag, previous,  \* the entry of containers.json
    images,         \* the tags present on the host
    container,      \* "absent", "exited" or "running"
    version,        \* the tag the container was made from
    step,           \* what the worker thread does next, "idle" when free
    target,         \* the tag the job moves to
    origin,         \* the tag it moves from
    job,            \* kind and phase of the last job, as the API shows it
    saved,          \* the same, as last.json holds it
    restarts

entry == <<tag, previous>>
docker == <<images, container, version>>
jobVars == <<step, target, origin, job, saved>>
hostVars == <<entry, docker, jobVars, restarts>>

Kinds == {"none", "update", "rollback", "restore"}
Ends == {"done", "reverted", "failed"}
NoJob == [kind |-> "none", phase |-> "done"]

HostInit ==
    /\ tag = Factory /\ previous = NoTag /\ images = {Factory}
    /\ container = "running" /\ version = Factory
    /\ step = "idle" /\ target = NoTag /\ origin = NoTag
    /\ job = NoJob /\ saved = NoJob /\ restarts = 0

(* _acquire_worker: one job at a time, the others are turned away.         *)
Schedule(kind, from, to, first) ==
    /\ step = "idle" /\ step' = first
    /\ job' = [kind |-> kind, phase |-> "queued"] /\ saved' = job'
    /\ origin' = from /\ target' = to
    /\ UNCHANGED <<entry, docker, restarts>>

ApplyUpdate == \E t \in Tags \ {tag} : Schedule("update", tag, t, "load")
Rollback == previous # NoTag /\ Schedule("rollback", tag, previous, "stop")
Restore == Schedule("restore", tag, tag, "stop")

Goto(s) == step' = s /\ UNCHANGED <<entry, target, origin, job, saved, restarts>>

(* The job ends, on disk first and then for the API, and the worker is     *)
(* released.                                                               *)
Finish(phase) ==
    /\ job' = [job EXCEPT !.phase = phase] /\ saved' = job' /\ step' = "idle"
    /\ UNCHANGED <<entry, target, origin, restarts>>
Raise == Finish("failed")

(* The image arrives from a bundle or the registry, or does not.           *)
Load ==
    /\ step = "load"
    /\ \/ images' = images \cup {target} /\ Goto("stop")
       \/ UNCHANGED images /\ Raise
    /\ UNCHANGED <<container, version>>

StopContainer ==
    /\ step \in {"stop", "back_stop"}
    /\ \/ container = "absent" /\ UNCHANGED container /\ Raise
       \/ /\ container # "absent" /\ container' = "exited"
          /\ Goto(IF step = "stop" THEN "rm" ELSE "back_rm")
    /\ UNCHANGED <<images, version>>

RemoveContainer ==
    /\ step \in {"rm", "back_rm"}
    /\ container' = "absent" /\ version' = NoTag
    /\ Goto(CASE step = "back_rm" -> "back_entry"
              [] job.kind = "restore" -> "run"
              [] OTHER -> "entry")
    /\ UNCHANGED images

(* The entry is persisted before the container is started.                 *)
UpdateEntry ==
    /\ step = "entry" /\ step' = "run"
    /\ previous' = origin /\ tag' = target
    /\ UNCHANGED <<docker, target, origin, job, saved, restarts>>
RevertEntry ==
    /\ step = "back_entry" /\ step' = "back_run"
    /\ previous' = NoTag /\ tag' = origin
    /\ UNCHANGED <<docker, target, origin, job, saved, restarts>>

(* docker run may also fail for a reason of its own.  A restore runs an    *)
(* entry with no image, which docker refuses.                              *)
Runs(t) == container = "absent" /\ t \in images
RunContainer ==
    /\ step \in {"run", "back_run"}
    /\ \/ /\ job.kind # "restore" /\ Runs(tag)
          /\ container' = "running" /\ version' = tag
          /\ Goto(IF step = "run" THEN "gate" ELSE "back_gate")
       \/ UNCHANGED <<container, version>> /\ Raise
    /\ UNCHANGED images

(* Consecutive good answers before the deadline; a good version may also be*)
(* late.                                                                   *)
Healthy == container = "running" /\ version \notin BadTags
HealthGateOpen ==     \* mutant: any answer is good
    step = "gate" /\ Finish("done") /\ UNCHANGED docker
HealthGate ==
    /\ step = "gate"
    /\ \/ Healthy /\ Finish("done")
       \/ job.kind = "update" /\ Goto("back_stop")
       \/ job.kind # "update" /\ Raise
    /\ UNCHANGED docker
RollbackGate ==
    /\ step = "back_gate"
    /\ (Healthy /\ Finish("reverted")) \/ Finish("failed")
    /\ UNCHANGED docker

(* disk.prune keeps the two tags of the entry; docker keeps an image in    *)
(* use.  It runs on a thread of the API, or after the worker is released,  *)
(* whatever the worker does meanwhile.                                     *)
Prune ==
    /\ images' = images \cap {tag, previous, version}
    /\ images' # images
    /\ UNCHANGED <<entry, container, version, jobVars, restarts>>

(* A restart ends the worker; the job stays as last.json has it, and       *)
(* ensure_running starts a container that does not run.                    *)
Restart ==
    /\ restarts < MaxRestarts /\ restarts' = restarts + 1
    /\ step' = "idle" /\ job' = saved
    /\ \/ Runs(tag) /\ container' = "running" /\ version' = tag
       \/ ~Runs(tag) /\ UNCHANGED <<container, version>>
    /\ UNCHANGED <<entry, images, target, origin, saved>>

Work ==
    \/ Load \/ StopContainer \/ RemoveContainer \/ UpdateEntry \/ RunContainer
    \/ HealthGate \/ RevertEntry \/ RollbackGate

HostNext == ApplyUpdate \/ Rollback \/ Restore \/ Work \/ Prune \/ Restart

HostSpec == HostInit /\ [][HostNext]_hostVars
-----------------------------------------------------------------------------
HostTypeOK ==
    /\ tag \in Tags /\ previous \in Tags \cup {NoTag} /\ images \subseteq Tags
    /\ container \in {"absent", "exited", "running"} /\ version \in Tags \cup {NoTag}
    /\ step \in {"idle", "load", "stop", "rm", "entry", "run", "gate", "back_stop",
                 "back_rm", "back_entry", "back_run", "back_gate"}
    /\ {target, origin} \subseteq Tags \cup {NoTag}
    /\ {job, saved} \subseteq [kind : Kinds, phase : Ends \cup {"queued"}]
    /\ restarts \in 0 .. MaxRestarts

(* What a job reports is what the boat runs: "done" means the new version  *)
(* is up and healthy, "reverted" that the old one is, whatever failed,     *)
(* raced or restarted since.                                               *)
JobTellsTruth ==
    step = "idle" /\ job.phase \in {"done", "reverted"} =>
        /\ container = "running" /\ version = tag /\ version \notin BadTags
        /\ job.kind # "none" => tag = IF job.phase = "done" THEN target ELSE origin

(* Not kept by the code (README, section 7): "auto-rollback on failure", so*)
(* that an update that failed leaves a version up.                         *)
FailedUpdateRuns ==
    step = "idle" /\ job = [kind |-> "update", phase |-> "failed"] => container # "absent"
=============================================================================
