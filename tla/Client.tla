------------------------------- MODULE Client -------------------------------
(***************************************************************************)
(* The Godot client around the bridge: AppShell (scenes/shell/             *)
(* app_shell.gd), whose states lead from connecting to a playable scene,   *)
(* and the command intent of ClientInteractionController                   *)
(* (input/interaction_controller.gd).  Both react to the signals of Bridge *)
(* inside the step that emits them, so most actions here are an action of  *)
(* Bridge together with what the shell and the controller make of it.      *)
(*                                                                         *)
(* Abstracted: interaction modes (only whether an intent is armed), the    *)
(* scene's content, and which of the two tactical scenes is loaded.        *)
(***************************************************************************)
EXTENDS Bridge

VARIABLES
  shell,    \* AppShell._shell_state
  loading,  \* _scene_load_pending: a threaded scene load is under way
  cached,   \* the scene resource has been loaded once
  intent,   \* ClientInteractionController._command_intent
  notice    \* what the HUD last said of a command

shellVars == <<shell, loading, cached>>
inputVars == <<intent, notice>>
allVars == <<vars, shellVars, inputVars>>

ShellStates == {"STARTUP", "BRIDGE_INITIALIZING", "SYNCHRONIZING", "LOADING",
                "READY", "INCOMPATIBLE", "ERROR", "SHUTDOWN"}
Starting == {"BRIDGE_INITIALIZING", "SYNCHRONIZING"}
NoIntent == "none"

(* _on_bridge_request_failed: only a failure while starting is an error.    *)
AfterFailure == IF shell \in Starting THEN "ERROR" ELSE shell

(* _submission_is_pending: a submitted command has not been settled.        *)
Locked == \E r \in pending : r.kind = "command" /\ r.id \in tracked

-----------------------------------------------------------------------------
(* Connecting and loading                                                   *)

(* start_bridge, on startup and by the retry button.                        *)
Start ==
  /\ shell \in {"STARTUP", "ERROR", "INCOMPATIBLE"}
  /\ Open
  /\ shell' = "BRIDGE_INITIALIZING"
  /\ UNCHANGED <<loading, cached, inputVars>>

LinkOpens == Connected /\ UNCHANGED <<shellVars, inputVars>>

LinkFails_Unreported == ConnectFails /\ UNCHANGED <<shellVars, inputVars>>
LinkFails == ConnectFails /\ shell' = AfterFailure /\ UNCHANGED <<loading, cached, inputVars>>

LinkLost == Drop /\ shell' = "ERROR" /\ UNCHANGED <<loading, cached, inputVars>>

EngineRestarts ==
  /\ Restart
  /\ shell' = IF link = "up" THEN "ERROR" ELSE shell
  /\ UNCHANGED <<loading, cached, inputVars>>

HostServes == (Serve \/ ServeOrphan) /\ UNCHANGED <<shellVars, inputVars>>

OthersAct == ForeignCommand /\ UNCHANGED <<shellVars, inputVars>>

(* _on_authoritative_changed while starting: show the scene at once when    *)
(* its resource is there, else load it; a load under way is left alone.     *)
BeginLoad ==
  \/ cached /\ shell' = "READY" /\ UNCHANGED loading
  \/ ~cached /\ loading /\ UNCHANGED <<shell, loading>>
  \/ ~cached /\ ~loading /\ shell' = "LOADING" /\ loading' = TRUE

(* _poll_tactical_scene_load runs whatever the shell's state has become.    *)
LoadDone ==
  /\ loading /\ loading' = FALSE /\ cached' = TRUE /\ shell' = "READY"
  /\ UNCHANGED <<vars, inputVars>>
LoadFails ==
  /\ loading /\ loading' = FALSE /\ shell' = "ERROR"
  /\ UNCHANGED <<vars, cached, inputVars>>

(* shutdown: everything pending is cancelled and the bridge disposed of.    *)
Shutdown ==
  /\ shell # "SHUTDOWN" /\ shell' = "SHUTDOWN"
  /\ \E k \in 0 .. Len(uplink) : Cut(k)
  /\ link' = "down" /\ bridge' = NewBridge /\ pending' = {} /\ issued' = 0 /\ tracked' = {}
  /\ loading' = FALSE /\ intent' = NoIntent
  /\ UNCHANGED <<engine, mirror, expects, acked, cached, notice>>

-----------------------------------------------------------------------------
(* Messages from the host                                                   *)

Stale(m) == IgnoreStale(m) /\ UNCHANGED <<shellVars, inputVars>>

Negotiated(m, r) ==
  TakeHello(m, r) /\ shell' = "SYNCHRONIZING" /\ UNCHANGED <<loading, cached, inputVars>>

Incompatible(m, r) ==
  TakeRefusal(m, r) /\ shell' = "INCOMPATIBLE" /\ UNCHANGED <<loading, cached, inputVars>>

(* The shell hears of new state before the controller hears of the outcome; *)
(* acceptance ends the intent it belongs to.                                *)
Answered(m, r) ==
  /\ TakeAnswer(m, r)
  /\ IF Changes(m) /\ shell \in Starting THEN BeginLoad ELSE UNCHANGED <<shell, loading>>
  /\ intent' = IF r.kind = "command" /\ r.cmd = intent THEN NoIntent ELSE intent
  /\ notice' = IF r.kind = "command" THEN "accepted" ELSE notice
  /\ UNCHANGED cached

(* A refused command keeps its intent, so that it can be confirmed again.   *)
Rejected(m, r) ==
  /\ TakeRejection(m, r)
  /\ IF r.kind = "command" THEN notice' = "rejected" /\ UNCHANGED shell
                           ELSE shell' = AfterFailure /\ UNCHANGED notice
  /\ UNCHANGED <<loading, cached, intent>>

Expired(r) ==
  /\ Expire(r) /\ shell' = AfterFailure
  /\ notice' = IF r.kind = "command" /\ r.id \in tracked THEN "failed" ELSE notice
  /\ UNCHANGED <<loading, cached, intent>>

-----------------------------------------------------------------------------
(* The user, while the shell lets input through                             *)

(* set_command_intent: a new command replaces the armed one, but not while  *)
(* that one is on its way.                                                  *)
Arm(c) == shell = "READY" /\ ~Locked /\ Build(c) /\ intent' = c /\ UNCHANGED <<shellVars, notice>>

(* confirm_current_intent, first time or retry: the command is not rebuilt. *)
Confirm_Twice ==
  /\ shell = "READY" /\ intent # NoIntent
  /\ Submit(intent) /\ UNCHANGED <<shellVars, inputVars>>
Confirm ==
  /\ shell = "READY" /\ intent # NoIntent /\ ~Locked
  /\ Submit(intent) /\ UNCHANGED <<shellVars, inputVars>>

(* cancel_active_mode and clear_command_intent.                             *)
Disarm ==
  /\ shell = "READY" /\ intent # NoIntent /\ ~Locked
  /\ intent' = NoIntent /\ UNCHANGED <<vars, shellVars, notice>>

AskPreview == shell = "READY" /\ Preview /\ UNCHANGED <<shellVars, inputVars>>

(* _cancel_mode_requests: only read-only requests are cancelled.            *)
CancelPreview(r) ==
  /\ shell = "READY" /\ r.kind = "preview" /\ Cancel(r)
  /\ UNCHANGED <<shellVars, inputVars>>

-----------------------------------------------------------------------------
ClientInit ==
  /\ Init
  /\ shell = "STARTUP" /\ loading = FALSE /\ cached = FALSE
  /\ intent = NoIntent /\ notice = "none"

Hear == \E m \in {downlink[i] : i \in DOMAIN downlink} :
          \/ Stale(m)
          \/ \E r \in pending : \/ Negotiated(m, r) \/ Incompatible(m, r)
                                \/ Answered(m, r) \/ Rejected(m, r)

ClientNext ==
  \/ Start \/ LinkOpens \/ LinkFails \/ LinkLost \/ EngineRestarts \/ HostServes \/ OthersAct \/ Hear
  \/ LoadDone \/ LoadFails \/ Shutdown
  \/ \E r \in pending : Expired(r) \/ CancelPreview(r)
  \/ (\E c \in Commands : Arm(c)) \/ Confirm \/ Disarm \/ AskPreview

(* The client's frame loop polls the connection, its deadlines and the      *)
(* scene load for ever; the operating system settles a connection attempt.  *)
(* The user owes nothing, and neither does the host.                        *)
ClientFairness ==
  /\ \A i \in 1 .. MaxRequests : WF_allVars(\E r \in pending : r.id = i /\ Expired(r))
  /\ WF_allVars(Hear)
  /\ WF_allVars(LinkOpens \/ LinkFails)
  /\ WF_allVars(LoadDone \/ LoadFails)

ClientSpec == ClientInit /\ [][ClientNext]_allVars
ClientLiveSpec == ClientSpec /\ ClientFairness

-----------------------------------------------------------------------------
(* Type invariant of the shell and the controller.                          *)
ClientTypeOK ==
  /\ TypeOK
  /\ shell \in ShellStates /\ {loading, cached} \subseteq BOOLEAN
  /\ intent \in Commands \cup {NoIntent}
  /\ notice \in {"none", "accepted", "rejected", "failed"}

(* A confirm that is on its way is the armed intent, and there is only one: *)
(* repeated confirms, cancels, mode changes, losses and retries never make  *)
(* the controller wait for a command it has replaced or dropped.            *)
OneConfirmAtATime ==
  shell # "SHUTDOWN" =>
    /\ \A r \in pending : r.kind = "command" /\ r.id \in tracked => r.cmd = intent
    /\ \A r, s \in pending :
         {r.id, s.id} \subseteq tracked /\ r.kind = "command" /\ s.kind = "command" => r = s

(* The shell does not stay between connecting and a scene: it gets to a     *)
(* scene, or to a state that offers the retry button.                       *)
StartupSettles == shell \in Starting ~> shell \notin Starting

(* It does so whatever fails, is late or is lost, and also if the engine    *)
(* process is replaced, unless the new one is behind what the mirror shows. *)
StartupEnds == [](mirror.seq <= Len(engine.log)) => StartupSettles

(* docs/GODOT_CLIENT_STATE_SHELL.md:146: bridge failures enter an explicit  *)
(* ERROR state "rather than letting tactical scenes run against unknown     *)
(* authority".                                                              *)
PlayableMeansConnected == shell = "READY" => link = "up" /\ bridge.ready
=============================================================================
