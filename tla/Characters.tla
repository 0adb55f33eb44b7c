---------------------------- MODULE Characters ----------------------------
(***************************************************************************)
(* The character creator of the engine: CharacterCreatorRuntime            *)
(* (character_creator/runtime.py) over an immutable catalog                *)
(* (character_creator/model.py), and the records the service keeps by      *)
(* actor id (character_creator/service.py).                                *)
(*                                                                         *)
(* Abstracted: names, profile texts and appearance; what a choice gives is *)
(* split by what a level-up does with it, into Grants (tags, spells and    *)
(* features) and Trains (skills, saves, training, inventory); of the       *)
(* ability policies, the one a client uses.                                *)
(***************************************************************************)
EXTENDS Integers, FiniteSets, FiniteSetsExt

CONSTANTS
  Actors, Blank,       \* actor ids, and an identity with an empty field
  Catalog,             \* CreationChoice ids
  Step,                \* [Catalog -> step names]
  Requires, Conflicts, \* [Catalog -> SUBSET Catalog]
  Unlock,              \* [Catalog -> level at which a choice can be taken]
  Grants, Trains,      \* [Catalog -> what a choice gives]
  Bonus,               \* [Catalog -> [Abilities -> Int]]
  BaseHP, GainHP,      \* [Catalog -> Nat], 0 where the catalog has none
  Groups, Members, Least, Most, \* CreationGroup: its choices and how many of them
  Abilities, Policy,   \* [Abilities -> score]: the policy's values in order
  LastLevel            \* 20 in the code

VARIABLES records      \* CharacterCreatorService.records: [actor -> record]

Primaries == {"species", "background", "class"}

-----------------------------------------------------------------------------
(* What the catalog's constructors insist on                                *)

WellFormedChoice(c) ==
  /\ c \notin Conflicts[c]
  /\ Unlock[c] \in 1 .. LastLevel
  /\ BaseHP[c] \in Nat /\ GainHP[c] \in Nat
  /\ \A a \in Abilities : Bonus[c][a] \in Int

WellFormedGroup(g) ==
  /\ Members[g] # {}
  /\ {Least[g], Most[g]} \subseteq Nat
  /\ Least[g] <= Most[g] /\ Most[g] <= Cardinality(Members[g])

WellFormedPolicy == Policy \in [Abilities -> 1 .. 30]

WellFormedCatalog ==
  /\ \A g \in Groups : WellFormedGroup(g) /\ Members[g] \subseteq Catalog
  /\ \A c \in Catalog : WellFormedChoice(c) /\ Requires[c] \cup Conflicts[c] \subseteq Catalog
  /\ WellFormedPolicy

ASSUME CatalogAssumption ==
  /\ WellFormedCatalog
  /\ LastLevel \in 1 .. 20 /\ IsFiniteSet(Catalog) /\ Blank \notin Actors

-----------------------------------------------------------------------------
(* Creation                                                                 *)

GroupMet(g, chosen) ==
  LET creation == {c \in Members[g] : Unlock[c] = 1} IN
  creation # {} => Cardinality(chosen \cap creation) \in Least[g] .. Most[g]

(* The requirements and conflicts a choice declares, against what is held.  *)
Fits(c, held) == Requires[c] \subseteq held /\ Conflicts[c] \cap held = {}

(* _validate_creation_choices                                               *)
ChoicesAllowed(chosen) ==
  /\ \A c \in chosen : Unlock[c] = 1 /\ Fits(c, chosen)
  /\ \A g \in Groups : GroupMet(g, chosen)

(* The same scores, each as often, in whatever order.                       *)
ScoresMatch(scores) ==
  \A v \in {scores[a] : a \in Abilities} \cup {Policy[a] : a \in Abilities} :
    Cardinality({a \in Abilities : scores[a] = v}) =
    Cardinality({a \in Abilities : Policy[a] = v})

FinalScores(scores, chosen) ==
  [a \in Abilities |-> scores[a] + MapThenSumSet(LAMBDA c : Bonus[c][a], chosen)]

OfStep(chosen, step) == {c \in chosen : Step[c] = step}

(* _one: the single choice of a primary step.                               *)
One(chosen, step) == CHOOSE c \in OfStep(chosen, step) : TRUE

Creatable(draft) ==
  /\ ChoicesAllowed(draft.choices)
  /\ ScoresMatch(draft.scores)
  /\ \A a \in Abilities : FinalScores(draft.scores, draft.choices)[a] \in 1 .. 30
  /\ \A p \in Primaries : Cardinality(OfStep(draft.choices, p)) = 1

(* characters.creator.preview; a draft with an empty identity field is      *)
(* refused before the runtime sees it, and is no preview at all.            *)
Preview(draft) == IF draft.actor = Blank THEN "refused"
                  ELSE IF Creatable(draft) THEN "legal" ELSE "illegal"

OrOne(hp) == IF hp = 0 THEN 1 ELSE hp

Created(draft) ==
  LET class == One(draft.choices, "class")
      hp == OrOne(BaseHP[class])
  IN [level |-> 1, options |-> draft.choices,
      species |-> One(draft.choices, "species"),
      background |-> One(draft.choices, "background"), class |-> class,
      scores |-> FinalScores(draft.scores, draft.choices),
      current |-> hp, maximum |-> hp,
      grants |-> UNION {Grants[c] : c \in draft.choices},
      trained |-> UNION {Trains[c] : c \in draft.choices}]

Store(actor, record) ==
  records' = [a \in DOMAIN records \cup {actor} |-> IF a = actor THEN record ELSE records[a]]

MayCreate_Again(draft) == Preview(draft) = "legal" /\ draft.actor \in Actors
MayCreate(draft) ==
  Preview(draft) = "legal" /\ draft.actor \in Actors /\ draft.actor \notin DOMAIN records
Create(draft) == MayCreate(draft) /\ Store(draft.actor, Created(draft))

-----------------------------------------------------------------------------
(* Advancement                                                              *)

(* level_up_choices; the client is told of no conflicts.                    *)
Offered(record) == {c \in Catalog : /\ Unlock[c] = record.level + 1
                                    /\ Requires[c] \subseteq record.options}

MayAdvance_NoCap(record, chosen) ==
  \A c \in chosen : Unlock[c] = record.level + 1 /\ Fits(c, record.options \cup chosen)
MayAdvance_NoConflicts(record, chosen) ==
  /\ record.level < LastLevel
  /\ \A c \in chosen : Unlock[c] = record.level + 1 /\ Requires[c] \subseteq record.options \cup chosen
MayAdvance(record, chosen) ==
  /\ record.level < LastLevel
  /\ \A c \in chosen : Unlock[c] = record.level + 1 /\ Fits(c, record.options \cup chosen)

Advanced_Forgets(record, chosen) ==
  LET gain == OrOne(GainHP[record.class])
  IN [record EXCEPT !.level = @ + 1, !.options = @ \cup chosen, !.current = @ + gain,
                    !.maximum = @ + gain, !.grants = UNION {Grants[c] : c \in chosen}]
Advanced(record, chosen) ==
  LET gain == OrOne(GainHP[record.class])
      maximum == record.maximum + gain
  IN [level |-> record.level + 1, options |-> record.options \cup chosen,
      species |-> record.species, background |-> record.background, class |-> record.class,
      scores |-> record.scores,
      current |-> Min({record.current + gain, maximum}), maximum |-> maximum,
      grants |-> record.grants \cup UNION {Grants[c] : c \in chosen},
      trained |-> record.trained]

MayLevelUp(actor, chosen) == actor \in DOMAIN records /\ MayAdvance(records[actor], chosen)
LevelUp(actor, chosen) ==
  MayLevelUp(actor, chosen) /\ Store(actor, Advanced(records[actor], chosen))

-----------------------------------------------------------------------------
(* The service on its own, for whatever a client may send                   *)

Drafts == [actor : Actors \cup {Blank}, choices : SUBSET Catalog,
           scores : [Abilities -> 1 .. 30]]

RecordsInit == records = [a \in {} |-> {}]
RecordsNext == \/ \E d \in Drafts : Create(d)
               \/ \E a \in Actors, chosen \in SUBSET Catalog : LevelUp(a, chosen)
RecordsSpec == RecordsInit /\ [][RecordsNext]_records

-----------------------------------------------------------------------------
Records == [level : 1 .. LastLevel, options : SUBSET Catalog,
            species : Catalog, background : Catalog, class : Catalog,
            scores : [Abilities -> 1 .. 30], current : Nat, maximum : Nat,
            grants : SUBSET UNION {Grants[c] : c \in Catalog},
            trained : SUBSET UNION {Trains[c] : c \in Catalog}]

(* Type invariant: the stored records.                                      *)
RecordsTypeOK == DOMAIN records \subseteq Actors /\ \A a \in DOMAIN records : records[a] \in Records

(* What a record holds from a level on down.                                *)
HeldAt(record, level) == {c \in record.options : Unlock[c] <= level}

(* However a character was created and advanced, by whatever requests in    *)
(* whatever order: every option was open at the level it unlocks at, had    *)
(* its requirements met by then and contradicted nothing held by then, and  *)
(* the creation choices still satisfy every group and primary step.         *)
LegalRecord(record) ==
  /\ \A c \in record.options :
       Unlock[c] <= record.level /\ Fits(c, HeldAt(record, Unlock[c]))
  /\ \A g \in Groups : GroupMet(g, record.options)
  /\ \A p \in Primaries : OfStep(HeldAt(record, 1), p) = {record[p]}
RecordsAreLegal == \A a \in DOMAIN records : LegalRecord(records[a])

(* A record's running totals are those of its options: hit points of the    *)
(* class and the level, everything granted by every option, the training of *)
(* the creation choices only.                                               *)
BalancedRecord(record) ==
  /\ record.maximum = OrOne(BaseHP[record.class]) + (record.level - 1) * OrOne(GainHP[record.class])
  /\ record.current = record.maximum
  /\ record.grants = UNION {Grants[c] : c \in record.options}
  /\ record.trained = UNION {Trains[c] : c \in HeldAt(record, 1)}
BooksAgree == \A a \in DOMAIN records : BalancedRecord(records[a])

(* A character is never lost or made anew: a step leaves it alone or adds   *)
(* one level and options of that level to it.                               *)
CharactersOnlyGrow ==
  [][\A a \in DOMAIN records :
       /\ a \in DOMAIN records'
       /\ LET old == records[a]  new == records'[a] IN
          new = old \/ /\ new.level = old.level + 1 /\ old.options \subseteq new.options
                       /\ \A p \in Primaries : new[p] = old[p]
                       /\ \A c \in new.options \ old.options : Unlock[c] = new.level]_records
=============================================================================
