----------------------------- MODULE SaveStore -----------------------------
(***************************************************************************)
(* One slot of WorldSaveStore (scenes/world/world_save_store.gd): the      *)
(* worker thread that replaces a saved game on disk through a temporary    *)
(* file and a backup, one file operation at a time, each of which may      *)
(* fail, in a process that may be killed between any two of them.          *)
(*                                                                         *)
(* A saved game is the number of the save that wrote it.  Slots have files *)
(* of their own and share the worker, so one slot has all there is to see. *)
(* Not modelled: a power failure that undoes file operations.              *)
(***************************************************************************)
EXTENDS Integers

CONSTANT MaxSaves   \* bound: saves begun

ASSUME SaveStoreAssumption == MaxSaves \in Nat

Missing == 0
Torn    == -1

VARIABLES
  final,   \* slot-N.json
  bak,     \* slot-N.json.bak
  tmp,     \* slot-N.json.tmp
  step,    \* where the worker is; "idle" is _busy = false
  had,     \* had_existing of the save under way
  begun,   \* number of the last save begun
  kept,    \* history: the last save reported by save_completed
  faults   \* history: failures and kills met by saves since then

files   == <<final, bak, tmp>>
history == <<begun, kept>>
vars    == <<files, step, had, history, faults>>

Writing  == {"open", "write", "drop", "set_aside", "replace", "put_back", "discard", "tidy"}
Finished == {"saved", "failed", "was_read"}
Steps    == {"idle", "read"} \cup Writing \cup Finished

(* The file _read_envelope opens: the backup only if there is no final one. *)
Readable == IF final = Missing THEN bak ELSE final

Init ==
  /\ final = Missing /\ bak = Missing /\ tmp = Missing
  /\ step = "idle" /\ had = FALSE
  /\ begun = 0 /\ kept = 0 /\ faults = 0

At(s)    == step = s
GoTo(s)  == step' = s
Succeeds == faults' = faults
Fails    == faults' = faults + 1

-----------------------------------------------------------------------------
(* _start_operation refuses everything but the first operation: _busy.     *)
BeginSave ==
  /\ At("idle") /\ begun < MaxSaves
  /\ begun' = begun + 1 /\ GoTo("open")
  /\ UNCHANGED <<files, had, kept, faults>>

(* A load or a listing reads and leaves every file alone.                  *)
BeginRead == At("idle") /\ GoTo("read") /\ UNCHANGED <<files, had, history, faults>>
Read == At("read") /\ GoTo("was_read") /\ UNCHANGED <<files, had, history, faults>>

(* FileAccess.open truncates what an earlier process left behind.          *)
OpenTemporary ==
  /\ At("open")
  /\ \/ tmp' = Torn /\ GoTo("write") /\ Succeeds
     \/ tmp' = tmp /\ GoTo("failed") /\ Fails
  /\ UNCHANGED <<final, bak, had, history>>

(* store_buffer, flush and close; an incomplete file is given up.          *)
WriteTemporary_Unverified ==                      \* slip: write_error not tested
  /\ At("write")
  /\ \/ tmp' = begun /\ GoTo("drop") /\ Succeeds
     \/ tmp' = tmp /\ GoTo("drop") /\ Fails
  /\ UNCHANGED <<final, bak, had, history>>
WriteTemporary ==
  /\ At("write")
  /\ \/ tmp' = begun /\ GoTo("drop") /\ Succeeds
     \/ tmp' = tmp /\ GoTo("discard") /\ Fails
  /\ UNCHANGED <<final, bak, had, history>>

DropOldBackup ==
  /\ At("drop")
  /\ \/ bak' = Missing /\ GoTo("set_aside") /\ Succeeds
     \/ bak # Missing /\ bak' = bak /\ GoTo("discard") /\ Fails
  /\ UNCHANGED <<final, tmp, had, history>>

(* The final file, if there is one, becomes the backup.                    *)
SetAside_Deleted ==                               \* slip: removed, not renamed
  /\ At("set_aside")
  /\ had' = (final # Missing)
  /\ \/ final' = Missing /\ bak' = bak /\ GoTo("replace") /\ Succeeds
     \/ final # Missing /\ UNCHANGED <<final, bak>> /\ GoTo("discard") /\ Fails
  /\ UNCHANGED <<tmp, history>>
SetAside ==
  /\ At("set_aside")
  /\ had' = (final # Missing)
  /\ \/ /\ bak' = IF had' THEN final ELSE bak
        /\ final' = Missing
        /\ GoTo("replace") /\ Succeeds
     \/ final # Missing /\ UNCHANGED <<final, bak>> /\ GoTo("discard") /\ Fails
  /\ UNCHANGED <<tmp, history>>

Replace ==
  /\ At("replace")
  /\ \/ final' = tmp /\ tmp' = Missing /\ GoTo("tidy") /\ Succeeds
     \/ UNCHANGED <<final, tmp>> /\ GoTo("put_back") /\ Fails
  /\ UNCHANGED <<bak, had, history>>

(* The result of this rename is not looked at.                             *)
PutBack ==
  /\ At("put_back")
  /\ \/ /\ had /\ bak # Missing
        /\ final' = bak /\ bak' = Missing /\ Succeeds
     \/ had /\ bak # Missing /\ UNCHANGED <<final, bak>> /\ Fails
     \/ ~(had /\ bak # Missing) /\ UNCHANGED <<final, bak>> /\ Succeeds
  /\ GoTo("discard")
  /\ UNCHANGED <<tmp, had, history>>

(* Nor are the results of these removals.                                  *)
Discard ==
  /\ At("discard")
  /\ \/ tmp' = Missing /\ Succeeds
     \/ tmp' = tmp /\ Fails
  /\ GoTo("failed")
  /\ UNCHANGED <<final, bak, had, history>>

Tidy ==
  /\ At("tidy")
  /\ \/ bak' = Missing /\ Succeeds
     \/ bak # Missing /\ bak' = bak /\ Fails
  /\ GoTo("saved")
  /\ UNCHANGED <<final, tmp, had, history>>

(* _finish_operation, deferred to the main thread.                         *)
Finish ==
  /\ step \in Finished
  /\ GoTo("idle")
  /\ kept' = IF At("saved") THEN begun ELSE kept
  /\ faults' = IF At("saved") THEN 0 ELSE faults
  /\ UNCHANGED <<files, had, begun>>

(* The game is killed and started again; its files stay as they are.       *)
Killed ==
  /\ GoTo("idle")
  /\ faults' = IF step \in Writing THEN faults + 1 ELSE faults
  /\ UNCHANGED <<files, had, history>>

Work ==
  \/ Read \/ OpenTemporary \/ WriteTemporary \/ DropOldBackup \/ SetAside
  \/ Replace \/ PutBack \/ Discard \/ Tidy \/ Finish

Next == BeginSave \/ BeginRead \/ Work \/ Killed

Spec == Init /\ [][Next]_vars

-----------------------------------------------------------------------------
(* Every file holds nothing or a save that was begun, and only the         *)
(* temporary one is ever torn: whatever fails and whenever the game is     *)
(* killed, a load or a listing opens no incomplete text.                   *)
SaveTypeOK ==
  /\ final \in 0 .. begun /\ bak \in 0 .. begun /\ tmp \in -1 .. begun
  /\ step \in Steps /\ had \in BOOLEAN
  /\ begun \in 0 .. MaxSaves /\ kept \in 0 .. begun
  /\ faults \in Nat

(* With at most one failure or kill since the last save that was reported  *)
(* as completed, that save or a newer one can be read back whenever the    *)
(* worker is not writing.  A second one can lose it: the backup that       *)
(* survived the first is removed before the next save has replaced it.     *)
OneFaultLosesNothing == faults <= 1 /\ step \notin Writing => Readable >= kept
=============================================================================
