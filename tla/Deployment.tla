----------------------------- MODULE Deployment -----------------------------
(***************************************************************************)
(* What is run before the services: the migrations of the database and the *)
(* provisioning of the speech models.  They share nothing; part says which *)
(* of them a behaviour is about, and the other rests where it starts.      *)
(***************************************************************************)
EXTENDS Migrations, Provisioning

VARIABLE part

deploymentVars == <<part, migrationVars, provisionVars>>

\* The part that rests starts from one of its initial states only.
InitDeployment ==
    /\ part \in {"migrations", "provisioning"}
    /\ InitMigrations /\ (part = "provisioning" => db.version = "absent")
    /\ InitProvisioning
    /\ part = "migrations" =>
          /\ pinned = Components /\ disk.manifest = NoManifest
          /\ \A c \in Components : disk.target[c] = "absent"

DeploymentStep ==
    \/ /\ part = "migrations" /\ (MigratorStep \/ Environment)
       /\ UNCHANGED <<part, provisionVars>>
    \/ /\ part = "provisioning" /\ ScriptStep
       /\ UNCHANGED <<part, migrationVars>>

DeploymentSpec == InitDeployment /\ [][DeploymentStep]_deploymentVars
=============================================================================
