-------------------------- MODULE SaveStoreProofs --------------------------
(***************************************************************************)
(* Proofs about SaveStore for any number of saves.  Where the save that    *)
(* was reported last can be found depends on how far the worker is, so the *)
(* invariant says it for each stretch of the replacement.  The panel only  *)
(* drives the store, so what holds of the store holds behind the panel.    *)
(***************************************************************************)
EXTENDS SavePanel, TLAPS

(* The stretch in which the final file has not been touched, or is again   *)
(* what it was.                                                            *)
Steady == {"idle", "read", "was_read", "failed", "open", "write", "drop", "discard"}

(* While the final file is away the backup has the reported save, provided *)
(* nothing had gone wrong before; once the new file is in place it is the  *)
(* newest there is.                                                        *)
Whereabouts ==
  /\ step \in {"drop", "set_aside", "replace"} => tmp = begun
  /\ step \in {"tidy", "saved"} => final = begun
  /\ step \in {"replace", "put_back"} => final = Missing
  /\ step \in Steady => /\ faults = 0 => final >= kept
                        /\ faults <= 1 => Readable >= kept
  /\ step = "set_aside" => (faults = 0 => final >= kept)
  /\ step = "replace" => (faults = 0 => bak >= kept /\ (kept > 0 => had))
  /\ step = "put_back" => (faults <= 1 => bak >= kept /\ (kept > 0 => had))

IInv == SaveTypeOK /\ Whereabouts

USE SaveStoreAssumption DEF SaveStoreAssumption, Missing, Torn, Writing, Finished, Steps, At, GoTo, Succeeds, Fails,
                            files, history, vars

(* A fresh installation has no save and has reported none.                 *)
LEMMA SaveInit == Init => IInv
<1> SUFFICES ASSUME Init PROVE IInv
  OBVIOUS
<1>1. SaveTypeOK
  <2>1. final \in 0 .. begun /\ bak \in 0 .. begun /\ tmp \in -1 .. begun
    BY DEF Init
  <2>2. step \in Steps /\ had \in BOOLEAN
    BY DEF Init
  <2>3. begun \in 0 .. MaxSaves /\ kept \in 0 .. begun /\ faults \in Nat
    BY DEF Init
  <2> QED BY ONLY <2>1, <2>2, <2>3 DEF SaveTypeOK
<1>2. Whereabouts
  BY DEF Init, Whereabouts, Readable, Steady
<1> QED BY <1>1, <1>2 DEF IInv

(* No step of the worker, of the player or of the operating system takes   *)
(* a file, or the reported save, out of the places Whereabouts names.      *)
LEMMA SaveStep == IInv /\ [Next]_vars => IInv'
<1> SUFFICES ASSUME IInv, [Next]_vars PROVE IInv'
  OBVIOUS
<1> USE DEF IInv, SaveTypeOK, Whereabouts, Readable, Steady
<1>1. CASE BeginSave
  BY <1>1 DEF BeginSave
<1>2. CASE BeginRead
  BY <1>2 DEF BeginRead
<1>3. CASE Work
  <2>1. CASE Read
    BY <2>1 DEF Read
  <2>2. CASE OpenTemporary
    BY <2>2 DEF OpenTemporary
  <2>3. CASE WriteTemporary
    BY <2>3 DEF WriteTemporary
  <2>4. CASE DropOldBackup
    BY <2>4 DEF DropOldBackup
  <2>5. CASE SetAside
    <3>1. CASE final = Missing
      <4>1. had' = FALSE
        BY <2>5, <3>1 DEF SetAside
      <4>2. bak' = bak /\ final' = Missing /\ step' = "replace" /\ faults' = faults
        BY <2>5, <3>1, <4>1 DEF SetAside
      <4> QED BY <2>5, <3>1, <4>1, <4>2 DEF SetAside
    <3>2. CASE final # Missing
      <4>1. had' = TRUE
        BY <2>5, <3>2 DEF SetAside
      <4>2. CASE bak' = final /\ final' = Missing /\ step' = "replace" /\ faults' = faults
        BY <2>5, <3>2, <4>1, <4>2 DEF SetAside
      <4>3. CASE bak' = bak /\ final' = final /\ step' = "discard" /\ faults' = faults + 1
        BY <2>5, <3>2, <4>1, <4>3 DEF SetAside
      <4> QED BY <2>5, <4>1, <4>2, <4>3 DEF SetAside
    <3> QED BY <3>1, <3>2
  <2>6. CASE Replace
    BY <2>6 DEF Replace
  <2>7. CASE PutBack
    BY <2>7 DEF PutBack
  <2>8. CASE Discard
    BY <2>8 DEF Discard
  <2>9. CASE Tidy
    BY <2>9 DEF Tidy
  <2>10. CASE Finish
    BY <2>10 DEF Finish
  <2> QED BY <1>3, <2>1, <2>2, <2>3, <2>4, <2>5, <2>6, <2>7, <2>8, <2>9, <2>10 DEF Work
<1>4. CASE Killed
  BY <1>4 DEF Killed
<1>5. CASE UNCHANGED vars
  BY <1>5
<1> QED BY <1>1, <1>2, <1>3, <1>4, <1>5 DEF Next

(* The invariant of every run of the store, whatever fails.                *)
THEOREM SaveInvariant == Spec => []IInv
BY SaveInit, SaveStep, PTL DEF Spec

(* Whatever the panel, the engine and the connection do, the store behind  *)
(* the panel takes a step of its own or none: no button, answer or restart *)
(* starts an operation while another one is on.                            *)
THEOREM PanelUsesTheStore == PanelSpec => Spec
<1>1. PanelInit => Init
  BY DEF PanelInit
<1>2. [PanelNext]_pvars => [Next]_vars
  <2> SUFFICES ASSUME [PanelNext]_pvars PROVE [Next]_vars
    OBVIOUS
  <2>1. CASE PressSave \/ MoveFocus \/ Disconnected \/ Connected
    BY <2>1 DEF PressSave, MoveFocus, Disconnected, Connected
  <2>2. CASE PressLoad \/ RefreshSlots
    BY <2>2 DEF PressLoad, RefreshSlots, Next
  <2>3. CASE Answers
    BY <2>3 DEF Answers, QueryOverlooked, SnapshotArrives, QueryFails, LoadAnswered, Next
  <2>4. CASE FileStep
    BY <2>4 DEF FileStep, Next
  <2>5. CASE Signals
    <3>1. Finish
      BY <2>5 DEF Signals, OperationFails, SaveCompleted, SlotsListed, LoadCompleted
    <3> QED BY <3>1 DEF Work, Next
  <2>6. CASE Restarted
    BY <2>6 DEF Restarted, Next
  <2>7. CASE UNCHANGED pvars
    BY <2>7 DEF pvars
  <2> QED BY <2>1, <2>2, <2>3, <2>4, <2>5, <2>6, <2>7 DEF PanelNext
<1> QED BY <1>1, <1>2, PTL DEF PanelSpec, Spec

(* For any number of saves, failures and kills, only the temporary file is *)
(* ever incomplete, with the panel and without it.                         *)
THEOREM SavesAreNeverTorn == (Spec => []SaveTypeOK) /\ (PanelSpec => []SaveTypeOK)
<1>1. IInv => SaveTypeOK
  BY DEF IInv
<1> QED BY <1>1, SaveInvariant, PanelUsesTheStore, PTL

(* For any number of saves, one failure or kill between two reported saves *)
(* never takes the first of them from the player, whatever the panel, the  *)
(* engine and the connection do between the halves of a save or a load.    *)
THEOREM OneFaultIsSurvived == (Spec => []OneFaultLosesNothing) /\ (PanelSpec => []OneFaultLosesNothing)
<1>1. IInv => OneFaultLosesNothing
  BY DEF IInv, Whereabouts, SaveTypeOK, OneFaultLosesNothing, Readable, Steady
<1> QED BY <1>1, SaveInvariant, PanelUsesTheStore, PTL
=============================================================================
