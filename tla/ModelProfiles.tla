---------------------------- MODULE ModelProfiles ----------------------------
(***************************************************************************)
(* Which model profile is active: the rows of model_profiles and the       *)
(* marker file behind them (benchmarks/bakeoff/rollback.py,                *)
(* services/api/app.py), the history that rollback decides from, and what  *)
(* the workers read instead (ai_workers/*/host.py, cv_oss_worker/worker.py)*)
(*                                                                         *)
(* A world is [history, active, marker, up]: the activation history, the   *)
(* profiles whose row is active, the marker file, and whether the          *)
(* database answers.                                                       *)
(***************************************************************************)
EXTENDS Integers, SequencesExt

CONSTANTS
    Registered,     \* profiles with a row in model_profiles
    NoProfile

\* ProfileHistory.current and previous
CurrentOf(stack) == IF stack = <<>> THEN NoProfile ELSE Last(stack)
PreviousOf(stack) == IF Len(stack) < 2 THEN NoProfile ELSE stack[Len(stack) - 1]

\* activate: a profile that is active already is not recorded again.
Activated(stack, p) == IF CurrentOf(stack) = p THEN stack ELSE Append(stack, p)

\* rollback appends the previous profile, so that the next one returns; without one it raises.
RolledBack(stack) ==
    IF PreviousOf(stack) = NoProfile THEN stack ELSE Append(stack, PreviousOf(stack))

\* _activate_in_db: one UPDATE over all rows; an unknown profile changes nothing.
ActiveAfter(world, p) ==
    IF world.up /\ p \in Registered THEN {p} ELSE world.active

\* apply_activation: without the row the marker file records the intent.
Applied(world, p) ==
    [world EXCEPT !.active = ActiveAfter(world, p),
                  !.marker = IF world.up /\ p \in Registered THEN @ ELSE p]

\* POST /api/model-registry/activate: the database only, and no history.
ApiActivated(world, p) == [world EXCEPT !.active = ActiveAfter(world, p)]

\* rollback_active: decide, then apply; nothing happens without a previous profile.
RollbackActive(world) ==
    IF PreviousOf(world.history) = NoProfile THEN world
    ELSE LET stack == RolledBack(world.history)
         IN  Applied([world EXCEPT !.history = stack], Last(stack))

-----------------------------------------------------------------------------
(* Workers: the file models.yaml is [active, profiles], profiles a function *)
(* to the plugin of the task or NoProfile.                                  *)

\* host._resolve_task_block, _build_config and load_plugin: the plugin of the file's active
\* profile, the default one if it is missing or not registered.
LoadPlugin(yaml, registry, default) ==
    LET task == IF yaml.active \in DOMAIN yaml.profiles THEN yaml.profiles[yaml.active]
                ELSE NoProfile
    IN  IF task \in registry THEN task ELSE default

\* make_detection_plugin: MODEL_PROFILE in the environment goes before the file.
MakeDetectionPlugin(yaml, env, default) ==
    LET p == IF env # NoProfile THEN env ELSE yaml.active
    IN  IF p \in DOMAIN yaml.profiles /\ yaml.profiles[p] = "nvidia_locate_anything"
        THEN yaml.profiles[p] ELSE default

=============================================================================
