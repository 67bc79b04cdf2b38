------------------------------- MODULE Release -------------------------------
(***************************************************************************)
(* The rollout of an image, one at a time (the workflow serialises them),  *)
(* by the pipeline's deploy.ts or by hand with deploy.sh.                  *)
(*                                                                         *)
(*   deploy.sh   scripts/gcp/deploy.ts   packages/db/migrate.ts            *)
(*   apps/server/src/api/health.ts                                         *)
(*                                                                         *)
(* Kubernetes keeps the images a deployment had, newest last; setting the  *)
(* one it has changes nothing, and an undo returns to the one before.      *)
(***************************************************************************)
EXTENDS Naturals, Sequences, SequencesExt

CONSTANTS
  Images,        \* image tags
  FirstImage,    \* the one that is running at the start
  WorkerTypes,   \* a sequence: WORKER_TYPES, in the order they are rolled out
  MaxReleases    \* bound: rollouts

ASSUME ReleaseAssumption ==
  /\ FirstImage \in Images /\ IsFiniteSet(Images) /\ MaxReleases \in Nat
  /\ WorkerTypes \in Seq(STRING)

VARIABLES
  images,      \* of each deployment: its images, newest last
  up,          \* of each deployment: its pods run and answer
  migrated,    \* the images whose migrations the database has
  assets,      \* the image the static site is of; "mixed" after a sync that broke off
  release,     \* the rollout: how it was started, its image, its phase, its outcome
  served,      \* ghost: the images that passed the gate of the app
  releases     \* bound: rollouts so far

releaseVars == <<images, up, migrated, assets, release, served, releases>>

Deployments == {"app"} \cup {WorkerTypes[i] : i \in DOMAIN WorkerTypes}

Running(d) == images[d][Len(images[d])]

\* kubectl set image: an image it had before becomes the newest again.
SetImage(d, i) == [images EXCEPT ![d] = IF Running(d) = i THEN @
                                        ELSE Append(RemoveFirst(@, i), i)]

\* kubectl rollout undo.
Undo(d) == IF Len(images[d]) = 1 THEN images
           ELSE SetImage(d, images[d][Len(images[d]) - 1])

Phase(p) == release.phase = p
Go(p)    == release' = [release EXCEPT !.phase = p]
Die(why) == release' = [release EXCEPT !.phase = "over", !.outcome = why]

\* The deployment of the phase: the app, then each worker.
Current == IF release.worker = 0 THEN "app" ELSE WorkerTypes[release.worker]

\* The path the gate polls: API_URL with /health behind it; deploy.ts sets API_URL to a
\* URL that has it already.
GatePath == IF release.by = "deploy.ts" THEN "/health/health" ELSE "/health"

\* handleHealthRequest: the paths it answers with a status.
HealthPaths == {"/health", "/healthz", "/health/live", "/health/ready", "/health/deep",
                "/healthz/live", "/healthz/ready", "/healthz/startup"}

-----------------------------------------------------------------------------
ReleaseInit ==
  /\ images = [d \in Deployments |-> <<FirstImage>>]
  /\ up = [d \in Deployments |-> TRUE]
  /\ migrated = {FirstImage} /\ served = {FirstImage} /\ assets = FirstImage
  /\ release = [by |-> "deploy.sh", image |-> FirstImage, worker |-> 0, phase |-> "over", outcome |-> "done"]
  /\ releases = 0

\* main of deploy.ts: the running app must be rolled out and healthy first; deploy.sh asks nothing.
StartRelease(by, i) ==
  /\ Phase("over") /\ releases < MaxReleases
  /\ by = "deploy.ts" => up["app"]
  /\ release' = [by |-> by, image |-> i, worker |-> 0, phase |-> "migrate", outcome |-> "none"]
  /\ releases' = releases + 1
  /\ UNCHANGED <<images, up, migrated, assets, served>>

\* As MigrationFails below, had the failure been logged and no more.
MigrationFailsWrong ==
  /\ Phase("migrate") /\ Go("set")
  /\ UNCHANGED <<images, up, migrated, assets, served, releases>>

\* The job failed, or did not complete in time: it is deleted, though the
\* migrations it made stay.
MigrationFails ==
  /\ Phase("migrate") /\ Die("migration")
  /\ UNCHANGED <<images, up, migrated, assets, served, releases>>

Migrate ==
  /\ Phase("migrate") /\ Go("set")
  /\ migrated' = migrated \cup {release.image}
  /\ UNCHANGED <<images, up, assets, served, releases>>

\* kubectl set image, of the app or of a worker.
Rollout ==
  /\ Phase("set") /\ Go("status")
  /\ images' = SetImage(Current, release.image)
  /\ \E u \in BOOLEAN : up' = [up EXCEPT ![Current] = IF Running(Current) = release.image THEN @ ELSE u]
  /\ UNCHANGED <<migrated, assets, served, releases>>

\* As NextPhase below, had the loop gone one past the last worker.
NextPhaseWrong == release' = [release EXCEPT
  !.phase = IF release.worker <= Len(WorkerTypes) THEN "set" ELSE "static",
  !.worker = IF release.worker <= Len(WorkerTypes) THEN @ + 1 ELSE @]

\* After the deployment's own gate: the next worker, or the static assets.
NextPhase == release' = [release EXCEPT
  !.phase = IF release.worker < Len(WorkerTypes) THEN "set" ELSE "static",
  !.worker = IF release.worker < Len(WorkerTypes) THEN @ + 1 ELSE @]

\* kubectl rollout status saw the pods come up; the readiness of a worker's is the same question again.
RolledOut ==
  /\ Phase("status") /\ up[Current]
  /\ IF Current = "app" THEN Go("gate") ELSE NextPhase
  /\ UNCHANGED <<images, up, migrated, assets, served, releases>>

\* The rollback of what failed: the workers before it, and the app, keep the new image.
RollBack(why) ==
  /\ images' = Undo(Current)
  /\ \E u \in BOOLEAN : up' = [up EXCEPT ![Current] = u]
  /\ Die(why)
  /\ UNCHANGED <<migrated, assets, served, releases>>

RolloutTimesOut == Phase("status") /\ ~up[Current] /\ RollBack("rollout")

\* wait_for_healthz.
Healthy ==
  /\ Phase("gate") /\ up["app"] /\ GatePath \in HealthPaths
  /\ served' = served \cup {release.image}
  /\ NextPhase
  /\ UNCHANGED <<images, up, migrated, assets, releases>>

Unhealthy ==
  /\ Phase("gate")
  /\ ~up["app"] \/ GatePath \notin HealthPaths
  /\ RollBack(IF up["app"] THEN "gate of a healthy app" ELSE "gate")

\* aws s3 sync, and after a failure the assets of the version before, if they are at hand.
SyncAssets ==
  /\ Phase("static")
  /\ \/ assets' = release.image /\ Die("done")
     \/ Die("sync") /\ assets' \in {assets, "mixed"}
  /\ UNCHANGED <<images, up, migrated, served, releases>>

\* The script is interrupted: nothing is rolled back.
Interrupt ==
  /\ ~Phase("over") /\ Die("interrupted")
  /\ UNCHANGED <<images, up, migrated, assets, served, releases>>

PodsChange ==
  /\ \E d \in Deployments : up' = [up EXCEPT ![d] = ~@]
  /\ UNCHANGED <<images, migrated, assets, release, served, releases>>

ReleaseNext ==
  \/ \E by \in {"deploy.ts", "deploy.sh"}, i \in Images : StartRelease(by, i)
  \/ Migrate \/ MigrationFails \/ Rollout \/ RolledOut \/ RolloutTimesOut
  \/ Healthy \/ Unhealthy \/ SyncAssets \/ Interrupt \/ PodsChange

ReleaseSpec == ReleaseInit /\ [][ReleaseNext]_releaseVars

-----------------------------------------------------------------------------
ReleaseTypeOK ==
  /\ images \in [Deployments -> BoundedSeq(Images, Cardinality(Images))]
  /\ up \in [Deployments -> BOOLEAN] /\ migrated \subseteq Images /\ served \subseteq Images
  /\ assets \in Images \cup {"mixed"} /\ releases \in 0..MaxReleases
  /\ release.phase \in {"migrate", "set", "status", "gate", "static", "over"}
  /\ release.worker \in 0..Len(WorkerTypes)

\* "each gates on a health check before the next begins": whatever fails, is interrupted,
\* rolled back or redeployed, no deployment ever has an image the database is not migrated
\* for, and no worker one that the app has not served.
GatedOrder ==
  \A d \in Deployments : \A i \in DOMAIN images[d] :
    images[d][i] \in migrated /\ (d # "app" => images[d][i] \in served)
=============================================================================
