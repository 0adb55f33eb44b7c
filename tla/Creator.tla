------------------------------ MODULE Creator ------------------------------
(***************************************************************************)
(* CharacterCreatorView (scenes/character_creator/character_creator.gd) at  *)
(* work on the character service of the host (character_bridge.py).  The   *)
(* view keeps a draft, asks for a preview of it whenever it changes and on *)
(* entering the review step, and sends creation and level-ups; the host    *)
(* serves requests in order and its answers come back in order.  An answer *)
(* may miss the view: the coordinator drops what a request timed out or    *)
(* what belongs to an older interaction generation.                        *)
(*                                                                         *)
(* Abstracted: the steps before the review are one; the text fields are    *)
(* the identity only; a preview is judged when it is asked for, which is   *)
(* the same, since the catalog never changes.                              *)
(***************************************************************************)
EXTENDS Characters, Sequences

CONSTANT MaxInFlight   \* bound: requests and answers on their way

ASSUME CreatorAssumption == MaxInFlight \in Nat

VARIABLES
  schema,     \* _schema has been received
  reviewing,  \* current_step() is the review
  draft,      \* what build_draft returns
  enabled,    \* _create is not disabled
  created,    \* _created_actor_id
  panel,      \* what _options holds: "step", or the "levels" on offer
  offers,     \* the choices that panel shows
  picked,     \* _level_choice_ids, as far as a button is there to send them
  requests, answers,
  heard       \* history: the last preview was answered, and heard

formVars == <<schema, reviewing, draft, enabled>>
levelVars == <<created, panel, offers, picked>>
wireVars == <<requests, answers>>
vars == <<records, formVars, levelVars, wireVars, heard>>

(* schema(): groups none of whose choices has to be unlocked, and the       *)
(* choices open at creation.                                                *)
ShownGroups == {g \in Groups : \A c \in Members[g] : Unlock[c] <= 1}
Pickable == UNION {Members[g] : g \in ShownGroups}

Send(request) ==
  /\ Len(requests) + Len(answers) < MaxInFlight
  /\ requests' = Append(requests, request) /\ UNCHANGED answers

AskPreview(d) == Send([kind |-> "preview", verdict |-> Preview(d)])

-----------------------------------------------------------------------------
(* The user                                                                 *)

InFlight(kind) == \E q \in {requests, answers} : \E i \in DOMAIN q : q[i].kind = kind

(* show_creator.  Bound: one schema on its way at a time.                   *)
ShowCreator ==
  /\ ~InFlight("schema") /\ Send([kind |-> "schema"])
  /\ UNCHANGED <<records, formVars, levelVars, heard>>

Edit(d) ==
  /\ schema /\ ~reviewing /\ draft' = d /\ AskPreview(d)
  /\ UNCHANGED <<records, schema, reviewing, enabled, levelVars, heard>>

(* _set_choice_selected and the ability selectors, while a step is shown.   *)
Toggle(c) ==
  /\ panel = "step"
  /\ Edit([draft EXCEPT !.choices = IF c \in @ THEN @ \ {c} ELSE @ \cup {c}])
SetScore(a, v) ==
  /\ panel = "step" /\ draft.scores[a] # v
  /\ Edit([draft EXCEPT !.scores[a] = v])

(* The identity fields: nothing is asked when they change.                  *)
SetIdentity(id) ==
  /\ schema /\ ~reviewing /\ draft' = [draft EXCEPT !.actor = id]
  /\ UNCHANGED <<records, schema, reviewing, enabled, levelVars, wireVars, heard>>

(* _clear_options, as the first thing _render_step does.                    *)
ShowStep == panel' = "step" /\ offers' = {} /\ picked' = {}

(* _next_step and _previous_step render the step they come to.              *)
EnterReview_Silent ==
  /\ schema /\ ~reviewing /\ reviewing' = TRUE /\ ShowStep
  /\ UNCHANGED <<records, schema, draft, enabled, created, wireVars, heard>>
EnterReview ==
  /\ schema /\ ~reviewing /\ reviewing' = TRUE /\ ShowStep /\ AskPreview(draft)
  /\ UNCHANGED <<records, schema, draft, enabled, created, heard>>
TurnPage ==
  /\ schema /\ (reviewing \/ panel = "levels") /\ reviewing' = FALSE /\ ShowStep
  /\ UNCHANGED <<records, schema, draft, enabled, created, wireVars, heard>>

(* _submit_create                                                           *)
PressCreate ==
  /\ reviewing /\ enabled /\ Send([kind |-> "create", draft |-> draft])
  /\ UNCHANGED <<records, formVars, levelVars, heard>>

(* _request_level_up_choices.  Bound: as for the schema.                    *)
AskLevels ==
  /\ created # Blank /\ ~InFlight("choices") /\ Send([kind |-> "choices", actor |-> created])
  /\ UNCHANGED <<records, formVars, levelVars, heard>>

Pick(c) ==
  /\ panel = "levels" /\ c \in offers
  /\ picked' = IF c \in picked THEN picked \ {c} ELSE picked \cup {c}
  /\ UNCHANGED <<records, formVars, created, panel, offers, wireVars, heard>>

(* _submit_level_up: the button stays, and says nothing of whose offers     *)
(* these were.                                                              *)
PressLevelUp ==
  /\ panel = "levels" /\ created # Blank
  /\ Send([kind |-> "levelup", actor |-> created, chosen |-> picked])
  /\ UNCHANGED <<records, formVars, levelVars, heard>>

-----------------------------------------------------------------------------
(* The host: _command and _query of CharacterClientBridgeSession            *)

Refused == [kind |-> "refused"]

Reply(answer) == requests' = Tail(requests) /\ answers' = Append(answers, answer)

ServeQuery(r) ==
  /\ r.kind \in {"schema", "preview", "choices"}
  /\ Reply(IF r.kind # "choices" THEN r
           ELSE IF records[r.actor].level >= LastLevel THEN Refused
           ELSE [kind |-> "choices", offers |-> Offered(records[r.actor])])
  /\ UNCHANGED records

ServeCreate(r) ==
  /\ r.kind = "create"
  /\ \/ Create(r.draft) /\ Reply([kind |-> "saved", actor |-> r.draft.actor])
     \/ ~MayCreate(r.draft) /\ Reply(Refused) /\ UNCHANGED records

ServeLevelUp(r) ==
  /\ r.kind = "levelup"
  /\ \/ LevelUp(r.actor, r.chosen) /\ Reply([kind |-> "saved", actor |-> r.actor])
     \/ ~MayLevelUp(r.actor, r.chosen) /\ Reply(Refused) /\ UNCHANGED records

Serve ==
  /\ requests # <<>>
  /\ LET r == Head(requests) IN ServeQuery(r) \/ ServeCreate(r) \/ ServeLevelUp(r)
  /\ UNCHANGED <<formVars, levelVars, heard>>

-----------------------------------------------------------------------------
(* The view: _on_query_completed and _on_command_payload                    *)

(* apply_schema renders the current step anew.                              *)
HearSchema(m) ==
  /\ m.kind = "schema" /\ schema' = TRUE /\ ShowStep
  /\ requests' = IF reviewing THEN Append(requests, [kind |-> "preview", verdict |-> Preview(draft)])
                 ELSE requests
  /\ UNCHANGED <<reviewing, draft, enabled, created, heard>>

(* apply_preview; a refused query has no handler.                           *)
HearPreview(m) ==
  /\ m.kind = "preview"
  /\ enabled' = IF m.verdict = "refused" THEN enabled ELSE m.verdict = "legal" /\ reviewing
  /\ heard' = (m.verdict # "refused")
  /\ UNCHANGED <<schema, reviewing, draft, levelVars, requests>>

(* _render_level_choices, whatever step is shown.                           *)
HearChoices(m) ==
  /\ m.kind = "choices" /\ panel' = "levels" /\ offers' = m.offers /\ picked' = {}
  /\ UNCHANGED <<formVars, created, requests, heard>>

HearSaved(m) ==
  /\ m.kind = "saved" /\ created' = m.actor
  /\ UNCHANGED <<formVars, panel, offers, picked, requests, heard>>

HearRefusal(m) == m.kind = "refused" /\ UNCHANGED <<formVars, levelVars, requests, heard>>

Hear ==
  /\ answers # <<>> /\ answers' = Tail(answers) /\ UNCHANGED records
  /\ LET m == Head(answers) IN \/ HearSchema(m) \/ HearPreview(m) \/ HearChoices(m)
                               \/ HearSaved(m) \/ HearRefusal(m)

(* The answer came too late, or for an older generation.                    *)
Miss ==
  /\ answers # <<>> /\ answers' = Tail(answers)
  /\ heard' = (heard /\ Head(answers).kind # "preview")
  /\ UNCHANGED <<records, formVars, levelVars, requests>>

-----------------------------------------------------------------------------
CreatorInit ==
  /\ RecordsInit
  /\ schema = FALSE /\ reviewing = FALSE /\ enabled = FALSE
  /\ draft = [actor |-> Blank, choices |-> {}, scores |-> Policy]
  /\ created = Blank
  /\ panel = "step" /\ offers = {} /\ picked = {}
  /\ requests = <<>> /\ answers = <<>> /\ heard = FALSE

CreatorNext ==
  \/ ShowCreator \/ EnterReview \/ TurnPage \/ PressCreate \/ AskLevels \/ PressLevelUp
  \/ \E c \in Pickable : Toggle(c)
  \/ \E a \in Abilities, b \in Abilities : SetScore(a, Policy[b])
  \/ \E id \in Actors \cup {Blank} : SetIdentity(id)
  \/ \E c \in Catalog : Pick(c)
  \/ Serve \/ Hear \/ Miss

CreatorSpec == CreatorInit /\ [][CreatorNext]_vars

-----------------------------------------------------------------------------
(* Type invariant of the view.                                              *)
CreatorTypeOK ==
  /\ RecordsTypeOK
  /\ {schema, reviewing, enabled, heard} \subseteq BOOLEAN
  /\ draft \in [actor : Actors \cup {Blank}, choices : SUBSET Catalog,
                scores : [Abilities -> {Policy[a] : a \in Abilities}]]
  /\ created \in DOMAIN records \cup {Blank}
  /\ panel \in {"step", "levels"} /\ picked \subseteq offers /\ offers \subseteq Catalog
  /\ Len(requests) + Len(answers) <= MaxInFlight

(* Edits, page turns, repeated requests and answers that come when the view *)
(* has moved on: once every preview is in and the last of them was heard,   *)
(* Create is enabled in the review exactly if the draft is legal.           *)
ReviewIsCurrent ==
  reviewing /\ heard /\ ~InFlight("preview") => enabled = (Preview(draft) = "legal")
=============================================================================
