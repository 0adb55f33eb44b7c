----------------------------- MODULE SavePanel -----------------------------
(***************************************************************************)
(* WorldSavePanel (scenes/world/world_save_panel.gd) between the store of  *)
(* module SaveStore and the engine.  A save asks the engine for a snapshot *)
(* and then writes it; a load reads the file and then sends it.  Either    *)
(* half can fail, and the connection can be lost between them.             *)
(*                                                                         *)
(* A query's outcome reaches the panel only if the player's focus (hover,  *)
(* selection, target: InteractionState's generation) is what it was when   *)
(* the query was sent; a command's outcome always does.                    *)
(*                                                                         *)
(* Abstracted: the engine's answer (any that the client may be given), the *)
(* wording of the status line, and that a campaign is under way.           *)
(***************************************************************************)
EXTENDS SaveStore

VARIABLES
  linked,     \* the bridge is ready
  query,      \* _save_query_slot is set
  loadFile,   \* _load_file_slot is set
  loadCmd,    \* _load_command_slot is set
  asked,      \* the request that will still be answered, fail or expire
  moved,      \* the focus changed since the query was sent
  job,        \* the operation the store performs, or performed last
  readable,   \* _slots: the slot is known to hold a readable save
  overlooked  \* history: a query's outcome was dropped, and nothing since

flags == <<query, loadFile, loadCmd>>
panel == <<linked, flags, asked, moved, job, readable, overlooked>>
pvars == <<vars, panel>>

(* _operation_in_progress *)
InProgress == step # "idle" \/ query \/ loadFile \/ loadCmd

PanelInit ==
  /\ Init
  /\ linked = FALSE /\ query = FALSE /\ loadFile = FALSE /\ loadCmd = FALSE
  /\ asked = "nothing" /\ moved = FALSE
  /\ job = "list" /\ readable = FALSE /\ overlooked = FALSE

-----------------------------------------------------------------------------
(* Buttons.  They are disabled, and their handlers refuse, while an        *)
(* operation is in progress; a listing does not ask for a load's file.     *)

PressSave ==
  /\ ~InProgress /\ linked
  /\ query' = TRUE /\ asked' = "save" /\ moved' = FALSE
  /\ UNCHANGED <<vars, linked, loadFile, loadCmd, job, readable, overlooked>>

PressLoad ==
  /\ ~InProgress /\ readable
  /\ BeginRead /\ job' = "load" /\ loadFile' = TRUE
  /\ UNCHANGED <<linked, query, loadCmd, asked, moved, readable, overlooked>>

RefreshSlots ==
  /\ ~query /\ ~loadCmd
  /\ BeginRead /\ job' = "list"
  /\ UNCHANGED <<linked, flags, asked, moved, readable, overlooked>>

(* set_hovered_actor and its like: the generation advances.                *)
MoveFocus ==
  /\ asked = "save" /\ ~moved /\ moved' = TRUE
  /\ UNCHANGED <<vars, linked, flags, asked, job, readable, overlooked>>

-----------------------------------------------------------------------------
(* The engine's side of a request: an answer, a refusal or a deadline.     *)

Outcome(what) == asked = what /\ asked' = "nothing"

(* _result_generation_is_current: neither query_completed nor query_failed *)
(* is emitted, and the panel goes on waiting.                              *)
QueryOverlooked ==
  /\ Outcome("save") /\ moved /\ overlooked' = TRUE
  /\ UNCHANGED <<vars, linked, flags, moved, job, readable>>

(* A snapshot is written at once; an answer without one, or a failure, is  *)
(* reported.                                                               *)
SnapshotArrives ==
  /\ Outcome("save") /\ ~moved /\ query' = FALSE
  /\ BeginSave /\ job' = "save"
  /\ UNCHANGED <<linked, loadFile, loadCmd, moved, readable, overlooked>>

QueryFails ==
  /\ Outcome("save") /\ ~moved /\ query' = FALSE
  /\ UNCHANGED <<vars, linked, loadFile, loadCmd, moved, job, readable, overlooked>>

LoadAnswered ==
  /\ Outcome("load") /\ loadCmd' = FALSE
  /\ UNCHANGED <<vars, linked, query, loadFile, moved, job, readable, overlooked>>

(* bridge_disconnected and bridge_unbound; the worker goes on.             *)
Disconnected_QueryKept ==                     \* slip: only the load forgotten
  /\ linked /\ linked' = FALSE
  /\ loadCmd' = FALSE /\ asked' = "nothing" /\ overlooked' = FALSE
  /\ UNCHANGED <<vars, query, loadFile, moved, job, readable>>
Disconnected ==
  /\ linked /\ linked' = FALSE
  /\ query' = FALSE /\ loadCmd' = FALSE /\ asked' = "nothing" /\ overlooked' = FALSE
  /\ UNCHANGED <<vars, loadFile, moved, job, readable>>

Connected == ~linked /\ linked' = TRUE
             /\ UNCHANGED <<vars, flags, asked, moved, job, readable, overlooked>>

-----------------------------------------------------------------------------
(* The store's signals                                                     *)

FileStep == Work /\ step \notin Finished /\ UNCHANGED panel

(* operation_failed, whatever the operation was.                           *)
OperationFails ==
  /\ Finish
  /\ At("failed") \/ (At("was_read") /\ job = "load")
  /\ loadFile' = (loadFile /\ job # "load")
  /\ UNCHANGED <<linked, query, loadCmd, asked, moved, job, readable, overlooked>>

SaveCompleted ==
  /\ At("saved") /\ Finish
  /\ readable' = TRUE
  /\ UNCHANGED <<linked, flags, asked, moved, job, overlooked>>

SlotsListed ==
  /\ At("was_read") /\ job = "list" /\ Finish
  /\ readable' = (Readable # Missing)
  /\ UNCHANGED <<linked, flags, asked, moved, job, overlooked>>

(* load_completed: the text goes to the engine, if there is one.           *)
LoadCompleted ==
  /\ At("was_read") /\ job = "load" /\ Readable # Missing /\ Finish
  /\ loadFile' = FALSE /\ loadCmd' = linked
  /\ asked' = IF linked THEN "load" ELSE asked
  /\ UNCHANGED <<linked, query, moved, job, readable, overlooked>>

(* The game is killed and started again, with a new panel.                 *)
Restarted ==
  /\ Killed
  /\ linked' = FALSE /\ query' = FALSE /\ loadFile' = FALSE /\ loadCmd' = FALSE
  /\ asked' = "nothing" /\ moved' = FALSE
  /\ job' = "list" /\ readable' = FALSE /\ overlooked' = FALSE

-----------------------------------------------------------------------------
Signals == OperationFails \/ SaveCompleted \/ SlotsListed \/ LoadCompleted

Answers == QueryOverlooked \/ SnapshotArrives \/ QueryFails \/ LoadAnswered

PanelNext ==
  \/ PressSave \/ PressLoad \/ RefreshSlots \/ MoveFocus
  \/ Answers \/ Disconnected \/ Connected
  \/ FileStep \/ Signals \/ Restarted

(* The worker runs to its end and its results are delivered; every request *)
(* of a bridge is answered or expires.  Players and connections owe        *)
(* nothing.                                                                *)
PanelSpec ==
  PanelInit /\ [][PanelNext]_pvars /\ WF_pvars(FileStep \/ Signals) /\ WF_pvars(Answers)

-----------------------------------------------------------------------------
(* Whatever fails, expires or is disconnected between the two halves of a  *)
(* save or a load, the panel becomes usable again -- unless a query's      *)
(* outcome came after the focus had moved, which only a disconnect mends.  *)
PanelFreesItself == InProgress ~> ~InProgress \/ overlooked
=============================================================================
