--------------------------- MODULE CreatorProofs ---------------------------
(***************************************************************************)
(* Proofs about Characters and Creator, for any catalog the assumptions    *)
(* admit, any actors and any number of requests on their way.              *)
(*                                                                         *)
(* The service is proved on its own, for whatever a client may send; that  *)
(* the view over its connection sends nothing else is a refinement, from   *)
(* the types of what is on the wire.                                       *)
(***************************************************************************)
EXTENDS Creator, FiniteSetTheorems, SequenceTheorems, TLAPS

USE DEF Primaries

-----------------------------------------------------------------------------
(* Records                                                                 *)

(* A primary step with a single choice has the choice One finds.           *)
LEMMA OneIsTheOnly ==
  ASSUME NEW chosen \in SUBSET Catalog, NEW step, Cardinality(OfStep(chosen, step)) = 1
  PROVE  OfStep(chosen, step) = {One(chosen, step)} /\ One(chosen, step) \in chosen
<1>1. OfStep(chosen, step) \subseteq chosen
  BY DEF OfStep
<1>2. IsFiniteSet(OfStep(chosen, step))
  BY <1>1, CatalogAssumption, FS_Subset
<1>3. PICK c : OfStep(chosen, step) = {c}
  BY <1>2, FS_Singleton
<1>4. One(chosen, step) = c
  BY <1>3 DEF One
<1> QED BY <1>1, <1>3, <1>4

(* Hit points are a positive number.                                       *)
LEMMA OrOneType == ASSUME NEW hp \in Nat PROVE OrOne(hp) \in Nat \ {0}
BY DEF OrOne

LEMMA CatalogTypes ==
  /\ \A c \in Catalog : Unlock[c] \in 1 .. LastLevel /\ BaseHP[c] \in Nat /\ GainHP[c] \in Nat
  /\ LastLevel \in Nat /\ LastLevel >= 1
BY CatalogAssumption DEF WellFormedCatalog, WellFormedChoice

(* The smaller of two equal numbers.                                       *)
LEMMA MinOfEqual == ASSUME NEW n \in Nat PROVE Min({n, n}) = n
BY DEF Min

(* A draft that passes every check becomes a legal record whose totals are *)
(* those of its choices.                                                   *)
LEMMA CreatedIsSound ==
  ASSUME NEW d, d.choices \in SUBSET Catalog, Creatable(d)
  PROVE  Created(d) \in Records /\ LegalRecord(Created(d)) /\ BalancedRecord(Created(d))
<1> DEFINE r == Created(d)
           class == One(d.choices, "class")
<1>1. /\ r.level = 1 /\ r.options = d.choices
      /\ r.species = One(d.choices, "species") /\ r.background = One(d.choices, "background")
      /\ r.class = class /\ r.scores = FinalScores(d.scores, d.choices)
      /\ r.current = OrOne(BaseHP[class]) /\ r.maximum = OrOne(BaseHP[class])
      /\ r.grants = UNION {Grants[c] : c \in d.choices}
      /\ r.trained = UNION {Trains[c] : c \in d.choices}
  BY DEF Created
<1>2. \A p \in Primaries : /\ OfStep(d.choices, p) = {One(d.choices, p)}
                           /\ One(d.choices, p) \in d.choices
  BY OneIsTheOnly DEF Creatable
<1>3. class \in Catalog /\ OrOne(BaseHP[class]) \in Nat \ {0}
  BY <1>2, CatalogTypes, OrOneType
<1>4. FinalScores(d.scores, d.choices) \in [Abilities -> 1 .. 30]
  <2>1. FinalScores(d.scores, d.choices) =
          [a \in Abilities |-> FinalScores(d.scores, d.choices)[a]]
    BY DEF FinalScores
  <2>2. \A a \in Abilities : FinalScores(d.scores, d.choices)[a] \in 1 .. 30
    BY DEF Creatable
  <2> QED BY ONLY <2>1, <2>2
<1>5. \A c \in d.choices : c \in Catalog /\ Unlock[c] = 1 /\ Fits(c, d.choices)
  BY DEF Creatable, ChoicesAllowed
<1>6. HeldAt(r, 1) = d.choices
  BY <1>1, <1>5 DEF HeldAt
<1>7. r \in Records
  <2>1. UNION {Grants[c] : c \in d.choices} \in SUBSET UNION {Grants[c] : c \in Catalog}
    OBVIOUS
  <2>2. UNION {Trains[c] : c \in d.choices} \in SUBSET UNION {Trains[c] : c \in Catalog}
    OBVIOUS
  <2>3. 1 \in 1 .. LastLevel
    BY CatalogTypes
  <2>4. One(d.choices, "species") \in Catalog /\ One(d.choices, "background") \in Catalog
    BY <1>2
  <2> QED BY <1>3, <1>4, <2>1, <2>2, <2>3, <2>4 DEF Created, Records
<1>8. LegalRecord(r)
  <2>1. \A c \in r.options : Unlock[c] <= r.level /\ Fits(c, HeldAt(r, Unlock[c]))
    BY <1>1, <1>5, <1>6
  <2>2. \A g \in Groups : GroupMet(g, r.options)
    BY <1>1 DEF Creatable, ChoicesAllowed
  <2>3. \A p \in Primaries : OfStep(HeldAt(r, 1), p) = {r[p]}
    BY <1>1, <1>2, <1>6
  <2> QED BY <2>1, <2>2, <2>3 DEF LegalRecord
<1>9. BalancedRecord(r)
  <2>1. OrOne(GainHP[class]) \in Nat
    BY <1>3, CatalogTypes, OrOneType
  <2>2. OrOne(BaseHP[class]) = OrOne(BaseHP[class]) + (1 - 1) * OrOne(GainHP[class])
    BY <1>3, <2>1
  <2> QED BY <1>1, <1>6, <2>2 DEF BalancedRecord
<1> QED BY <1>7, <1>8, <1>9

(* A level-up that passes the checks keeps a record legal and its totals   *)
(* those of its options.                                                   *)
LEMMA AdvancedIsSound ==
  ASSUME NEW old \in Records, LegalRecord(old), BalancedRecord(old),
         NEW chosen \in SUBSET Catalog, MayAdvance(old, chosen)
  PROVE  /\ Advanced(old, chosen) \in Records
         /\ LegalRecord(Advanced(old, chosen)) /\ BalancedRecord(Advanced(old, chosen))
<1> DEFINE r == Advanced(old, chosen)
           gain == OrOne(GainHP[old.class])
<1>1. /\ old.level \in 1 .. LastLevel /\ old.options \in SUBSET Catalog
      /\ old.species \in Catalog /\ old.background \in Catalog /\ old.class \in Catalog
      /\ old.scores \in [Abilities -> 1 .. 30] /\ old.current \in Nat /\ old.maximum \in Nat
      /\ old.grants \in SUBSET UNION {Grants[c] : c \in Catalog}
      /\ old.trained \in SUBSET UNION {Trains[c] : c \in Catalog}
  BY DEF Records
<1>2. gain \in Nat \ {0}
  BY <1>1, CatalogTypes, OrOneType
<1>3. old.level < LastLevel /\ \A c \in chosen : Unlock[c] = old.level + 1 /\ Fits(c, old.options \cup chosen)
  BY DEF MayAdvance
<1>4. old.current = old.maximum
  BY DEF BalancedRecord
<1>5. Min({old.current + gain, old.maximum + gain}) = old.maximum + gain
  BY <1>1, <1>2, <1>4, MinOfEqual
<1>6. /\ r.level = old.level + 1 /\ r.options = old.options \cup chosen
      /\ r.species = old.species /\ r.background = old.background /\ r.class = old.class
      /\ r.current = old.maximum + gain /\ r.maximum = old.maximum + gain
      /\ r.grants = old.grants \cup UNION {Grants[c] : c \in chosen} /\ r.trained = old.trained
  BY <1>5 DEF Advanced
<1>7. r \in Records
  <2>1. old.level + 1 \in 1 .. LastLevel /\ old.maximum + gain \in Nat
    BY <1>1, <1>2, <1>3, CatalogTypes
  <2>2. old.grants \cup UNION {Grants[c] : c \in chosen} \in SUBSET UNION {Grants[c] : c \in Catalog}
    BY <1>1
  <2> QED BY <1>1, <1>5, <2>1, <2>2 DEF Advanced, Records
<1>8. \A c \in old.options : Unlock[c] \in Nat /\ Unlock[c] <= old.level
  BY <1>1, CatalogTypes DEF LegalRecord
<1>9. \A n \in Nat : n <= old.level => HeldAt(r, n) = HeldAt(old, n)
  BY <1>1, <1>3, <1>6 DEF HeldAt
<1>10. HeldAt(r, old.level + 1) = old.options \cup chosen
  BY <1>1, <1>3, <1>6, <1>8 DEF HeldAt
<1>11. LegalRecord(r)
  <2>1. ASSUME NEW c \in r.options
        PROVE  Unlock[c] <= r.level /\ Fits(c, HeldAt(r, Unlock[c]))
    <3>1. CASE c \in old.options
      BY <1>1, <1>6, <1>8, <1>9, <3>1 DEF LegalRecord
    <3>2. CASE c \in chosen
      BY <1>1, <1>3, <1>6, <1>10, <3>2
    <3> QED BY <1>6, <2>1, <3>1, <3>2
  <2>2. ASSUME NEW g \in Groups PROVE GroupMet(g, r.options)
    <3> DEFINE creation == {c \in Members[g] : Unlock[c] = 1}
    <3>1. r.options \cap creation = old.options \cap creation
      BY <1>1, <1>3, <1>6
    <3>2. GroupMet(g, old.options)
      BY DEF LegalRecord
    <3> QED BY <3>1, <3>2 DEF GroupMet
  <2>3. ASSUME NEW p \in Primaries PROVE OfStep(HeldAt(r, 1), p) = {r[p]}
    <3>1. HeldAt(r, 1) = HeldAt(old, 1)
      BY <1>1, <1>9
    <3>2. r[p] = old[p]
      BY <1>6
    <3> QED BY <3>1, <3>2 DEF LegalRecord
  <2> QED BY <2>1, <2>2, <2>3 DEF LegalRecord
<1>12. BalancedRecord(r)
  <2>1. old.maximum = OrOne(BaseHP[old.class]) + (old.level - 1) * gain
    BY DEF BalancedRecord
  <2>2. OrOne(BaseHP[old.class]) \in Nat
    BY <1>1, CatalogTypes, OrOneType
  <2>3. old.maximum + gain = OrOne(BaseHP[old.class]) + ((old.level + 1) - 1) * gain
    <3> DEFINE n == old.level - 1
    <3>1. n \in Nat /\ (old.level + 1) - 1 = n + 1
      BY <1>1
    <3>2. (n + 1) * gain = n * gain + gain
      BY <1>2, <3>1
    <3> QED BY <1>1, <1>2, <2>1, <2>2, <3>1, <3>2
  <2>4. old.grants \cup UNION {Grants[c] : c \in chosen} = UNION {Grants[c] : c \in old.options \cup chosen}
    BY DEF BalancedRecord
  <2>5. HeldAt(r, 1) = HeldAt(old, 1)
    BY <1>1, <1>9
  <2> QED BY <1>6, <2>3, <2>4, <2>5 DEF BalancedRecord
<1> QED BY <1>7, <1>11, <1>12

-----------------------------------------------------------------------------
(* The service                                                             *)

SoundRecord(r) == r \in Records /\ LegalRecord(r) /\ BalancedRecord(r)
SoundRecords == DOMAIN records \subseteq Actors /\ \A a \in DOMAIN records : SoundRecord(records[a])

(* The record a step may leave where another was.                          *)
Grown(old, new) ==
  new = old \/ /\ new.level = old.level + 1 /\ old.options \subseteq new.options
               /\ \A p \in Primaries : new[p] = old[p]
               /\ \A c \in new.options \ old.options : Unlock[c] = new.level
AllGrown == \A a \in DOMAIN records : a \in DOMAIN records' /\ Grown(records[a], records'[a])

(* Storing a record changes that actor's only.                             *)
LEMMA StoreEffect ==
  ASSUME NEW actor, NEW r, Store(actor, r)
  PROVE  /\ DOMAIN records' = DOMAIN records \cup {actor} /\ records'[actor] = r
         /\ \A a \in DOMAIN records \ {actor} : records'[a] = records[a]
BY DEF Store

LEMMA CreateSafe ==
  ASSUME SoundRecords, NEW d, d.choices \in SUBSET Catalog, Create(d)
  PROVE  SoundRecords' /\ AllGrown
<1>1. Creatable(d) /\ d.actor \in Actors /\ d.actor \notin DOMAIN records
  BY DEF Create, MayCreate, Preview
<1>2. SoundRecord(Created(d))
  BY <1>1, CreatedIsSound DEF SoundRecord
<1>3. /\ DOMAIN records' = DOMAIN records \cup {d.actor} /\ records'[d.actor] = Created(d)
      /\ \A a \in DOMAIN records \ {d.actor} : records'[a] = records[a]
  BY StoreEffect DEF Create
<1>4. ASSUME NEW a \in DOMAIN records' PROVE SoundRecord(records'[a])
  <2>1. CASE a = d.actor
    BY <1>2, <1>3, <2>1
  <2>2. CASE a # d.actor
    BY <1>3, <2>2 DEF SoundRecords
  <2> QED BY <2>1, <2>2
<1>5. AllGrown
  BY <1>1, <1>3 DEF AllGrown, Grown
<1>6. DOMAIN records' \subseteq Actors
  BY <1>1, <1>3 DEF SoundRecords
<1> QED BY <1>4, <1>5, <1>6 DEF SoundRecords

LEMMA LevelUpSafe ==
  ASSUME SoundRecords, NEW actor, NEW chosen \in SUBSET Catalog, LevelUp(actor, chosen)
  PROVE  SoundRecords' /\ AllGrown
<1> DEFINE old == records[actor]
           new == Advanced(old, chosen)
<1>1. actor \in DOMAIN records /\ MayAdvance(old, chosen) /\ SoundRecord(old)
  BY DEF LevelUp, MayLevelUp, SoundRecords
<1>2. SoundRecord(new)
  BY <1>1, AdvancedIsSound DEF SoundRecord
<1>3. /\ DOMAIN records' = DOMAIN records \cup {actor} /\ records'[actor] = new
      /\ \A a \in DOMAIN records \ {actor} : records'[a] = records[a]
  BY StoreEffect DEF LevelUp
<1>4. Grown(old, new)
  <2>1. /\ new.level = old.level + 1 /\ new.options = old.options \cup chosen
        /\ new.species = old.species /\ new.background = old.background /\ new.class = old.class
    BY DEF Advanced
  <2>2. \A c \in chosen : Unlock[c] = old.level + 1
    BY <1>1 DEF MayAdvance
  <2> QED BY <2>1, <2>2 DEF Grown
<1>5. ASSUME NEW a \in DOMAIN records' PROVE SoundRecord(records'[a])
  <2>1. CASE a = actor
    BY <1>2, <1>3, <2>1
  <2>2. CASE a # actor
    BY <1>3, <2>2 DEF SoundRecords
  <2> QED BY <2>1, <2>2
<1>6. AllGrown
  <2> HIDE DEF old, new
  <2>1. ASSUME NEW a \in DOMAIN records PROVE Grown(records[a], records'[a])
    <3>1. CASE a = actor
      BY <1>3, <1>4, <3>1 DEF old
    <3>2. CASE a # actor
      BY <1>3, <3>2 DEF Grown
    <3> QED BY <3>1, <3>2
  <2> QED BY <1>3, <2>1 DEF AllGrown
<1>7. DOMAIN records' \subseteq Actors
  BY <1>1, <1>3 DEF SoundRecords
<1> QED BY <1>5, <1>6, <1>7 DEF SoundRecords

LEMMA RecordsStart == RecordsInit => SoundRecords
BY DEF RecordsInit, SoundRecords

LEMMA RecordsStep == SoundRecords /\ [RecordsNext]_records => SoundRecords' /\ AllGrown
<1> SUFFICES ASSUME SoundRecords, [RecordsNext]_records PROVE SoundRecords' /\ AllGrown
  OBVIOUS
<1>1. ASSUME NEW d \in Drafts, Create(d) PROVE SoundRecords' /\ AllGrown
  <2>1. d.choices \in SUBSET Catalog
    BY DEF Drafts
  <2> QED BY <1>1, <2>1, CreateSafe
<1>2. ASSUME NEW a \in Actors, NEW chosen \in SUBSET Catalog, LevelUp(a, chosen)
      PROVE  SoundRecords' /\ AllGrown
  BY <1>2, LevelUpSafe
<1>3. CASE UNCHANGED records
  BY <1>3 DEF SoundRecords, SoundRecord, LegalRecord, BalancedRecord, AllGrown, Grown
<1> QED BY <1>1, <1>2, <1>3 DEF RecordsNext

(* The service keeps sound records, whatever drafts and level-ups it is    *)
(* sent in whatever order.                                                 *)
THEOREM RecordsInvariant == RecordsSpec => []SoundRecords
BY RecordsStart, RecordsStep, PTL DEF RecordsSpec

-----------------------------------------------------------------------------
(* What is on the wire                                                     *)

Verdicts == {"refused", "legal", "illegal"}
FormDrafts == [actor : Actors \cup {Blank}, choices : SUBSET Catalog,
               scores : [Abilities -> {Policy[a] : a \in Abilities}]]

Asks == [kind : {"schema"}] \cup [kind : {"preview"}, verdict : Verdicts]
        \cup [kind : {"create"}, draft : FormDrafts]
        \cup [kind : {"choices"}, actor : Actors]
        \cup [kind : {"levelup"}, actor : Actors, chosen : SUBSET Catalog]
Says == [kind : {"schema"}] \cup [kind : {"preview"}, verdict : Verdicts]
        \cup [kind : {"choices"}, offers : SUBSET Catalog]
        \cup [kind : {"saved"}, actor : Actors] \cup {Refused}

(* A preview is on its way in q; the last one there has the verdict v.     *)
Asked(q) == \E i \in DOMAIN q : q[i].kind = "preview"
Latest(q, v) ==
  \A i \in DOMAIN q :
    q[i].kind = "preview" /\ (\A j \in DOMAIN q : j > i => q[j].kind # "preview") => q[i].verdict = v

LEMMA AppendOther ==
  ASSUME NEW S, NEW q \in Seq(S), NEW e \in S, e.kind # "preview", NEW v
  PROVE  /\ Append(q, e) \in Seq(S) /\ Len(Append(q, e)) = Len(q) + 1
         /\ Asked(Append(q, e)) <=> Asked(q)
         /\ Latest(q, v) => Latest(Append(q, e), v)
BY DEF Asked, Latest

LEMMA AppendPreview ==
  ASSUME NEW S, NEW q \in Seq(S), NEW e \in S, e.kind = "preview"
  PROVE  /\ Append(q, e) \in Seq(S) /\ Len(Append(q, e)) = Len(q) + 1
         /\ Asked(Append(q, e)) /\ Latest(Append(q, e), e.verdict)
BY DEF Asked, Latest

LEMMA TakeFirst ==
  ASSUME NEW S, NEW q \in Seq(S), q # <<>>, NEW v
  PROVE  /\ Head(q) \in S /\ Tail(q) \in Seq(S) /\ Len(Tail(q)) = Len(q) - 1
         /\ Asked(q) <=> Head(q).kind = "preview" \/ Asked(Tail(q))
         /\ Latest(q, v) => Latest(Tail(q), v)
         /\ Latest(q, v) /\ Head(q).kind = "preview" /\ ~Asked(Tail(q)) => Head(q).verdict = v
<1>1. /\ Head(q) = q[1] /\ Head(q) \in S /\ Tail(q) \in Seq(S) /\ Len(q) \in Nat \ {0}
      /\ Len(Tail(q)) = Len(q) - 1 /\ \A i \in 1 .. Len(q) - 1 : Tail(q)[i] = q[i + 1]
  BY HeadTailProperties
<1>2. DOMAIN q = 1 .. Len(q) /\ DOMAIN Tail(q) = 1 .. Len(q) - 1
  BY <1>1
<1>3. Asked(q) <=> Head(q).kind = "preview" \/ Asked(Tail(q))
  <2>1. ASSUME NEW i \in DOMAIN q, q[i].kind = "preview" PROVE Head(q).kind = "preview" \/ Asked(Tail(q))
    <3>1. CASE i = 1
      BY <1>1, <2>1, <3>1
    <3>2. CASE i # 1
      <4>1. i - 1 \in DOMAIN Tail(q) /\ Tail(q)[i - 1] = q[i]
        BY <1>1, <1>2, <3>2
      <4> QED BY <2>1, <4>1 DEF Asked
    <3> QED BY <3>1, <3>2
  <2>2. Head(q).kind = "preview" => Asked(q)
    BY <1>1, <1>2 DEF Asked
  <2>3. ASSUME NEW i \in DOMAIN Tail(q), Tail(q)[i].kind = "preview" PROVE Asked(q)
    <3>1. i + 1 \in DOMAIN q /\ q[i + 1] = Tail(q)[i]
      BY <1>1, <1>2
    <3> QED BY <2>3, <3>1 DEF Asked
  <2> QED BY <2>1, <2>2, <2>3 DEF Asked
<1>4. ASSUME Latest(q, v) PROVE Latest(Tail(q), v)
  <2> SUFFICES ASSUME NEW i \in DOMAIN Tail(q), Tail(q)[i].kind = "preview",
                      \A j \in DOMAIN Tail(q) : j > i => Tail(q)[j].kind # "preview"
               PROVE  Tail(q)[i].verdict = v
    BY DEF Latest
  <2>1. i + 1 \in DOMAIN q /\ q[i + 1] = Tail(q)[i]
    BY <1>1, <1>2
  <2>2. ASSUME NEW j \in DOMAIN q, j > i + 1 PROVE q[j].kind # "preview"
    <3>1. j - 1 \in DOMAIN Tail(q) /\ Tail(q)[j - 1] = q[j] /\ j - 1 > i
      BY <1>1, <1>2, <2>2
    <3> QED BY <3>1
  <2> QED BY <1>4, <2>1, <2>2 DEF Latest
<1>5. ASSUME Latest(q, v), Head(q).kind = "preview", ~Asked(Tail(q)) PROVE Head(q).verdict = v
  <2>1. ASSUME NEW j \in DOMAIN q, j > 1 PROVE q[j].kind # "preview"
    <3>1. j - 1 \in DOMAIN Tail(q) /\ Tail(q)[j - 1] = q[j]
      BY <1>1, <1>2, <2>1
    <3> QED BY <1>5, <3>1 DEF Asked
  <2> QED BY <1>1, <1>2, <1>5, <2>1 DEF Latest
<1> QED BY <1>1, <1>3, <1>4, <1>5

-----------------------------------------------------------------------------
(* The view's invariant: what it shows, what is on the wire, and that the  *)
(* last preview on its way in the review, or else the last one heard, is   *)
(* for the draft as it is.                                                 *)
FormOK ==
  /\ schema \in BOOLEAN /\ reviewing \in BOOLEAN /\ enabled \in BOOLEAN /\ heard \in BOOLEAN
  /\ draft \in FormDrafts
LevelOK ==
  /\ created \in DOMAIN records \cup {Blank} /\ panel \in {"step", "levels"}
  /\ picked \subseteq offers /\ offers \subseteq Catalog
WireOK ==
  /\ requests \in Seq(Asks) /\ answers \in Seq(Says)
  /\ Len(requests) + Len(answers) <= MaxInFlight
  /\ \A i \in DOMAIN answers : answers[i].kind = "saved" => answers[i].actor \in DOMAIN records
Awaited ==
  reviewing => /\ Latest(requests, Preview(draft))
               /\ ~Asked(requests) => Latest(answers, Preview(draft))
Settled ==
  reviewing /\ heard /\ ~Asked(requests) /\ ~Asked(answers) => (enabled <=> Preview(draft) = "legal")

CInv == SoundRecords /\ FormOK /\ LevelOK /\ WireOK /\ Awaited /\ Settled

LEMMA PreviewType == \A d : Preview(d) \in Verdicts
BY DEF Preview, Verdicts

(* The form's drafts are drafts of the service.                            *)
LEMMA FormDraftsAreDrafts == FormDrafts \subseteq Drafts
<1>1. \A a \in Abilities : Policy[a] \in 1 .. 30
  BY CatalogAssumption DEF WellFormedCatalog, WellFormedPolicy
<1> QED BY <1>1 DEF FormDrafts, Drafts

(* Sending a request that is no preview, and sending a preview.            *)
LEMMA SendOther ==
  ASSUME WireOK, NEW m \in Asks, m.kind # "preview", Send(m), UNCHANGED records
  PROVE  /\ WireOK' /\ answers' = answers /\ (Asked(requests)' <=> Asked(requests))
         /\ \A v : Latest(requests, v) => Latest(requests', v)
<1>1. requests' = Append(requests, m) /\ answers' = answers /\ Len(requests) + Len(answers) < MaxInFlight
  BY DEF Send
<1>2. requests' \in Seq(Asks) /\ Len(requests') = Len(requests) + 1 /\ (Asked(requests)' <=> Asked(requests))
  BY <1>1, AppendOther DEF WireOK
<1>3. \A v : Latest(requests, v) => Latest(requests', v)
  BY <1>1, AppendOther DEF WireOK
<1>4. Len(requests) \in Nat /\ Len(answers) \in Nat
  BY DEF WireOK
<1>5. WireOK'
  BY <1>1, <1>2, <1>4, CreatorAssumption DEF WireOK
<1> QED BY <1>1, <1>2, <1>3, <1>5

LEMMA SendPreview ==
  ASSUME WireOK, NEW d, AskPreview(d), UNCHANGED records
  PROVE  WireOK' /\ answers' = answers /\ Asked(requests)' /\ Latest(requests', Preview(d))
<1> DEFINE m == [kind |-> "preview", verdict |-> Preview(d)]
<1>1. m \in Asks /\ m.kind = "preview" /\ m.verdict = Preview(d)
  BY PreviewType DEF Asks
<1>2. requests' = Append(requests, m) /\ answers' = answers /\ Len(requests) + Len(answers) < MaxInFlight
  BY DEF Send, AskPreview
<1> HIDE DEF m
<1>3. /\ requests' \in Seq(Asks) /\ Len(requests') = Len(requests) + 1
      /\ Asked(requests)' /\ Latest(requests', Preview(d))
  BY <1>1, <1>2, AppendPreview DEF WireOK
<1>4. Len(requests) \in Nat /\ Len(answers) \in Nat
  BY DEF WireOK
<1>5. WireOK'
  BY <1>2, <1>3, <1>4, CreatorAssumption DEF WireOK
<1> QED BY <1>2, <1>3, <1>5

(* A step that moves nothing a preview depends on, and one after which a   *)
(* preview of the draft as it is then is the last request.                 *)
LEMMA Undisturbed ==
  ASSUME Awaited, Settled, UNCHANGED <<reviewing, draft, enabled, heard, answers>>,
         Asked(requests)' <=> Asked(requests), \A v : Latest(requests, v) => Latest(requests', v)
  PROVE  Awaited' /\ Settled'
BY DEF Awaited, Settled

LEMMA JustAsked ==
  ASSUME Asked(requests)', Latest(requests', Preview(draft'))
  PROVE  Awaited' /\ Settled'
BY DEF Awaited, Settled

LEMMA NotReviewing == reviewing' = FALSE => Awaited' /\ Settled'
BY DEF Awaited, Settled

-----------------------------------------------------------------------------
(* The user's steps                                                        *)

ViewOK == FormOK /\ LevelOK /\ WireOK /\ Awaited /\ Settled
UserActs ==
  \/ ShowCreator \/ EnterReview \/ TurnPage \/ PressCreate \/ AskLevels \/ PressLevelUp
  \/ \E c \in Pickable : Toggle(c)
  \/ \E a \in Abilities, b \in Abilities : SetScore(a, Policy[b])
  \/ \E id \in Actors \cup {Blank} : SetIdentity(id)
  \/ \E c \in Catalog : Pick(c)

(* Asking something that is no preview, with the form as it is.            *)
LEMMA AskSafe ==
  ASSUME ViewOK, NEW m \in Asks, m.kind # "preview", Send(m),
         UNCHANGED <<records, formVars, levelVars, heard>>
  PROVE  ViewOK'
<1> USE DEF ViewOK, formVars, levelVars
<1>1. /\ WireOK' /\ answers' = answers /\ (Asked(requests)' <=> Asked(requests))
      /\ \A v : Latest(requests, v) => Latest(requests', v)
  BY SendOther
<1>2. Awaited' /\ Settled'
  BY <1>1, Undisturbed
<1>3. FormOK' /\ LevelOK'
  BY DEF FormOK, LevelOK
<1> QED BY <1>1, <1>2, <1>3

(* Editing the draft to another typed draft.                               *)
LEMMA EditSafe ==
  ASSUME ViewOK, NEW d \in FormDrafts, Edit(d)
  PROVE  ViewOK'
<1> USE DEF ViewOK, levelVars
<1>1. draft' = d /\ AskPreview(d) /\ UNCHANGED <<records, schema, reviewing, enabled, levelVars, heard>>
  BY DEF Edit
<1>2. WireOK' /\ answers' = answers /\ Asked(requests)' /\ Latest(requests', Preview(d))
  BY <1>1, SendPreview
<1>3. Awaited' /\ Settled'
  BY <1>1, <1>2, JustAsked
<1>4. FormOK' /\ LevelOK'
  BY <1>1 DEF FormOK, LevelOK
<1> QED BY <1>2, <1>3, <1>4

LEMMA ToggleSafe ==
  ASSUME ViewOK, NEW c \in Pickable, Toggle(c)
  PROVE  ViewOK'
<1>1. c \in Catalog
  BY CatalogAssumption DEF Pickable, ShownGroups, WellFormedCatalog
<1> DEFINE d == [draft EXCEPT !.choices = IF c \in @ THEN @ \ {c} ELSE @ \cup {c}]
<1>2. draft \in FormDrafts
  BY DEF ViewOK, FormOK
<1>3. d \in FormDrafts
  BY <1>1, <1>2 DEF FormDrafts
<1>4. Edit(d)
  BY DEF Toggle
<1> HIDE DEF d
<1> QED BY <1>3, <1>4, EditSafe

LEMMA SetScoreSafe ==
  ASSUME ViewOK, NEW a \in Abilities, NEW b \in Abilities, SetScore(a, Policy[b])
  PROVE  ViewOK'
<1> DEFINE d == [draft EXCEPT !.scores[a] = Policy[b]]
<1>2. draft \in FormDrafts
  BY DEF ViewOK, FormOK
<1>3. d \in FormDrafts
  BY <1>2 DEF FormDrafts
<1>4. Edit(d)
  BY DEF SetScore
<1> HIDE DEF d
<1> QED BY <1>3, <1>4, EditSafe

(* The identity can be changed outside the review only.                    *)
LEMMA SetIdentitySafe ==
  ASSUME ViewOK, NEW id \in Actors \cup {Blank}, SetIdentity(id)
  PROVE  ViewOK'
<1> USE DEF ViewOK, wireVars, levelVars
<1>1. /\ reviewing = FALSE /\ draft' = [draft EXCEPT !.actor = id]
      /\ UNCHANGED <<records, schema, reviewing, enabled, levelVars, wireVars, heard>>
  BY DEF SetIdentity, FormOK
<1>2. FormOK' /\ LevelOK'
  BY <1>1 DEF FormOK, LevelOK, FormDrafts
<1>3. WireOK'
  BY <1>1 DEF WireOK
<1> QED BY <1>1, <1>2, <1>3, NotReviewing

LEMMA EnterReviewSafe == ViewOK /\ EnterReview => ViewOK'
<1> SUFFICES ASSUME ViewOK, EnterReview PROVE ViewOK'
  OBVIOUS
<1> USE DEF ViewOK
<1>1. /\ reviewing' = TRUE /\ panel' = "step" /\ offers' = {} /\ picked' = {} /\ AskPreview(draft)
      /\ UNCHANGED <<records, schema, draft, enabled, created, heard>>
  BY DEF EnterReview, ShowStep
<1>2. WireOK' /\ Asked(requests)' /\ Latest(requests', Preview(draft))
  BY <1>1, SendPreview
<1>3. FormOK' /\ LevelOK'
  BY <1>1 DEF FormOK, LevelOK
<1> QED BY <1>1, <1>2, <1>3, JustAsked

LEMMA TurnPageSafe == ViewOK /\ TurnPage => ViewOK'
<1> SUFFICES ASSUME ViewOK, TurnPage PROVE ViewOK'
  OBVIOUS
<1> USE DEF ViewOK
<1>1. /\ reviewing' = FALSE /\ panel' = "step" /\ offers' = {} /\ picked' = {}
      /\ UNCHANGED <<records, schema, draft, enabled, created, requests, answers, heard>>
  BY DEF TurnPage, ShowStep, wireVars
<1>2. FormOK' /\ LevelOK'
  BY <1>1 DEF FormOK, LevelOK
<1>3. WireOK'
  BY <1>1 DEF WireOK
<1> QED BY <1>1, <1>2, <1>3, NotReviewing

LEMMA PickSafe ==
  ASSUME ViewOK, NEW c \in Catalog, Pick(c)
  PROVE  ViewOK'
<1> USE DEF ViewOK
<1>1. /\ c \in offers /\ picked' = IF c \in picked THEN picked \ {c} ELSE picked \cup {c}
      /\ UNCHANGED <<records, schema, reviewing, draft, enabled, created, panel, offers, requests, answers, heard>>
  BY DEF Pick, formVars, wireVars
<1>2. FormOK' /\ LevelOK'
  BY <1>1 DEF FormOK, LevelOK
<1>3. WireOK'
  BY <1>1 DEF WireOK
<1>4. Awaited' /\ Settled'
  BY <1>1, Undisturbed
<1> QED BY <1>2, <1>3, <1>4

LEMMA UserSafe ==
  ASSUME SoundRecords, ViewOK, UserActs
  PROVE  ViewOK' /\ records' = records
<1>1. CASE ShowCreator
  <2> DEFINE m == [kind |-> "schema"]
  <2>1. m \in Asks /\ m.kind # "preview"
    BY DEF Asks
  <2>2. Send(m) /\ UNCHANGED <<records, formVars, levelVars, heard>>
    BY <1>1 DEF ShowCreator
  <2> HIDE DEF m
  <2> QED BY <2>1, <2>2, AskSafe
<1>2. CASE EnterReview
  BY <1>2, EnterReviewSafe DEF EnterReview
<1>3. CASE TurnPage
  BY <1>3, TurnPageSafe DEF TurnPage
<1>4. CASE PressCreate
  <2> DEFINE m == [kind |-> "create", draft |-> draft]
  <2>1. m \in Asks /\ m.kind # "preview"
    BY DEF Asks, ViewOK, FormOK
  <2>2. Send(m) /\ UNCHANGED <<records, formVars, levelVars, heard>>
    BY <1>4 DEF PressCreate
  <2> HIDE DEF m
  <2> QED BY <2>1, <2>2, AskSafe
<1>5. CASE AskLevels
  <2> DEFINE m == [kind |-> "choices", actor |-> created]
  <2>1. created \in Actors
    BY <1>5 DEF AskLevels, ViewOK, LevelOK, SoundRecords
  <2>2. m \in Asks /\ m.kind # "preview"
    BY <2>1 DEF Asks
  <2>3. Send(m) /\ UNCHANGED <<records, formVars, levelVars, heard>>
    BY <1>5 DEF AskLevels
  <2> HIDE DEF m
  <2> QED BY <2>2, <2>3, AskSafe
<1>6. CASE PressLevelUp
  <2> DEFINE m == [kind |-> "levelup", actor |-> created, chosen |-> picked]
  <2>1. created \in Actors /\ picked \in SUBSET Catalog
    BY <1>6 DEF PressLevelUp, ViewOK, LevelOK, SoundRecords
  <2>2. m \in Asks /\ m.kind # "preview"
    BY <2>1 DEF Asks
  <2>3. Send(m) /\ UNCHANGED <<records, formVars, levelVars, heard>>
    BY <1>6 DEF PressLevelUp
  <2> HIDE DEF m
  <2> QED BY <2>2, <2>3, AskSafe
<1>7. ASSUME NEW c \in Pickable, Toggle(c) PROVE ViewOK' /\ records' = records
  BY <1>7, ToggleSafe DEF Toggle, Edit
<1>8. ASSUME NEW a \in Abilities, NEW b \in Abilities, SetScore(a, Policy[b])
      PROVE  ViewOK' /\ records' = records
  BY <1>8, SetScoreSafe DEF SetScore, Edit
<1>9. ASSUME NEW id \in Actors \cup {Blank}, SetIdentity(id) PROVE ViewOK' /\ records' = records
  BY <1>9, SetIdentitySafe DEF SetIdentity
<1>10. ASSUME NEW c \in Catalog, Pick(c) PROVE ViewOK' /\ records' = records
  BY <1>10, PickSafe DEF Pick
<1> QED BY <1>1, <1>2, <1>3, <1>4, <1>5, <1>6, <1>7, <1>8, <1>9, <1>10 DEF UserActs

-----------------------------------------------------------------------------
(* The host                                                                *)

(* What each kind of request carries.                                      *)
LEMMA AskFields ==
  ASSUME NEW r \in Asks
  PROVE  /\ r.kind \in {"schema", "preview", "create", "choices", "levelup"}
         /\ r.kind \in {"schema", "preview"} => r \in Says
         /\ r.kind = "create" => r.draft \in FormDrafts
         /\ r.kind = "levelup" => r.actor \in Actors /\ r.chosen \in SUBSET Catalog
BY DEF Asks, Says

(* A request that is no preview is answered with no preview.               *)
LEMMA AnswerSafe ==
  ASSUME ViewOK, requests # <<>>, Head(requests).kind # "preview",
         NEW m \in Says, m.kind # "preview", m.kind = "saved" => m.actor \in DOMAIN records',
         DOMAIN records \subseteq DOMAIN records', Reply(m),
         UNCHANGED <<formVars, levelVars, heard>>
  PROVE  ViewOK'
<1> USE DEF ViewOK, formVars, levelVars
<1>1. requests' = Tail(requests) /\ answers' = Append(answers, m)
  BY DEF Reply
<1>2. /\ requests' \in Seq(Asks) /\ Len(requests') = Len(requests) - 1
      /\ Asked(requests) <=> Asked(requests')
      /\ \A v : Latest(requests, v) => Latest(requests', v)
  BY <1>1, TakeFirst DEF WireOK
<1>3. /\ answers' \in Seq(Says) /\ Len(answers') = Len(answers) + 1
      /\ Asked(answers') <=> Asked(answers)
      /\ \A v : Latest(answers, v) => Latest(answers', v)
  BY <1>1, AppendOther DEF WireOK
<1>4. \A i \in DOMAIN answers' : answers'[i].kind = "saved" => answers'[i].actor \in DOMAIN records'
  <2>1. answers \in Seq(Says)
    BY DEF WireOK
  <2> SUFFICES ASSUME NEW i \in DOMAIN answers', answers'[i].kind = "saved"
               PROVE  answers'[i].actor \in DOMAIN records'
    OBVIOUS
  <2>2. CASE i = Len(answers) + 1
    BY <1>1, <2>1, <2>2
  <2>3. CASE i # Len(answers) + 1
    <3>1. i \in DOMAIN answers /\ answers'[i] = answers[i]
      BY <1>1, <1>3, <2>1, <2>3
    <3> QED BY <3>1 DEF WireOK
  <2> QED BY <2>2, <2>3
<1>5. WireOK'
  <2>1. Len(requests) \in Nat /\ Len(answers) \in Nat
    BY DEF WireOK
  <2> QED BY <1>2, <1>3, <1>4, <2>1, CreatorAssumption DEF WireOK
<1>6. Awaited' /\ Settled'
  BY <1>2, <1>3 DEF Awaited, Settled
<1>7. FormOK' /\ LevelOK'
  BY DEF FormOK, LevelOK
<1> QED BY <1>5, <1>6, <1>7

(* A preview goes from the requests to the answers as it is, and stays the *)
(* last one there is if it was.                                            *)
LEMMA PreviewAnswerSafe ==
  ASSUME ViewOK, requests # <<>>, Head(requests).kind = "preview", Reply(Head(requests)),
         UNCHANGED <<records, formVars, levelVars, heard>>
  PROVE  ViewOK'
<1> USE DEF ViewOK, formVars, levelVars
<1> DEFINE r == Head(requests)
<1>1. requests' = Tail(requests) /\ answers' = Append(answers, r)
  BY DEF Reply
<1>2. /\ r \in Asks /\ requests' \in Seq(Asks) /\ Len(requests') = Len(requests) - 1 /\ Asked(requests)
      /\ \A v : Latest(requests, v) => Latest(requests', v) /\ (~Asked(requests') => r.verdict = v)
  BY <1>1, TakeFirst DEF WireOK
<1>3. r \in Says /\ r.kind = "preview"
  BY <1>2, AskFields
<1> HIDE DEF r
<1>4. /\ answers' \in Seq(Says) /\ Len(answers') = Len(answers) + 1
      /\ Asked(answers') /\ Latest(answers', r.verdict)
  BY <1>1, <1>3, AppendPreview DEF WireOK
<1>5. \A i \in DOMAIN answers' : answers'[i].kind = "saved" => answers'[i].actor \in DOMAIN records'
  <2>1. answers \in Seq(Says)
    BY DEF WireOK
  <2> SUFFICES ASSUME NEW i \in DOMAIN answers', answers'[i].kind = "saved"
               PROVE  answers'[i].actor \in DOMAIN records'
    OBVIOUS
  <2>2. CASE i = Len(answers) + 1
    BY <1>1, <1>3, <2>1, <2>2
  <2>3. CASE i # Len(answers) + 1
    <3>1. i \in DOMAIN answers /\ answers'[i] = answers[i]
      BY <1>1, <1>3, <1>4, <2>1, <2>3
    <3> QED BY <3>1 DEF WireOK
  <2> QED BY <2>2, <2>3
<1>6. WireOK'
  <2>1. Len(requests) \in Nat /\ Len(answers) \in Nat
    BY DEF WireOK
  <2> QED BY <1>2, <1>4, <1>5, <2>1, CreatorAssumption DEF WireOK
<1>7. Settled'
  BY <1>4 DEF Settled
<1>8. Awaited'
  <2> SUFFICES ASSUME reviewing
               PROVE  /\ Latest(requests', Preview(draft))
                      /\ ~Asked(requests') => Latest(answers', Preview(draft))
    BY DEF Awaited
  <2>1. Latest(requests, Preview(draft))
    BY DEF Awaited
  <2> QED BY <1>2, <1>4, <2>1
<1>9. FormOK' /\ LevelOK'
  BY DEF FormOK, LevelOK
<1> QED BY <1>6, <1>7, <1>8, <1>9

(* The host calls the service only with what the service's own             *)
(* specification allows.                                                   *)
LEMMA ServeRefines == ViewOK /\ Serve => [RecordsNext]_records
<1> SUFFICES ASSUME ViewOK, Serve PROVE [RecordsNext]_records
  OBVIOUS
<1> DEFINE r == Head(requests)
<1>1. r \in Asks
  BY HeadTailProperties DEF Serve, ViewOK, WireOK
<1>2. CASE ServeQuery(r)
  BY <1>2 DEF ServeQuery
<1>3. CASE ServeCreate(r)
  <2>1. r.draft \in Drafts
    BY <1>1, <1>3, AskFields, FormDraftsAreDrafts DEF ServeCreate
  <2> QED BY <1>3, <2>1 DEF ServeCreate, RecordsNext
<1>4. CASE ServeLevelUp(r)
  <2>1. r.actor \in Actors /\ r.chosen \in SUBSET Catalog
    BY <1>1, <1>4, AskFields DEF ServeLevelUp
  <2> QED BY <1>4, <2>1 DEF ServeLevelUp, RecordsNext
<1> QED BY <1>2, <1>3, <1>4 DEF Serve

LEMMA ServeSafe == SoundRecords /\ ViewOK /\ Serve => ViewOK'
<1> SUFFICES ASSUME SoundRecords, ViewOK, Serve PROVE ViewOK'
  OBVIOUS
<1> DEFINE r == Head(requests)
<1>1. r \in Asks /\ requests # <<>> /\ UNCHANGED <<formVars, levelVars, heard>>
  BY HeadTailProperties DEF Serve, ViewOK, WireOK
<1>2. DOMAIN records \subseteq DOMAIN records'
  BY ServeRefines, RecordsStep DEF AllGrown
<1>3. Refused \in Says /\ Refused.kind = "refused"
  BY DEF Refused, Says
<1>4. CASE ServeQuery(r)
  <2>1. CASE r.kind = "preview"
    BY <1>1, <1>4, <2>1, PreviewAnswerSafe DEF ServeQuery
  <2>2. CASE r.kind = "schema"
    <3>1. r \in Says /\ Reply(r)
      BY <1>1, <1>4, <2>2, AskFields DEF ServeQuery
    <3> QED BY <1>1, <1>2, <2>2, <3>1, AnswerSafe
  <2>3. CASE r.kind = "choices"
    <3> DEFINE m == [kind |-> "choices", offers |-> Offered(records[r.actor])]
    <3>1. m \in Says /\ m.kind = "choices"
      BY DEF Says, Offered
    <3>2. Reply(Refused) \/ Reply(m)
      BY <1>4, <2>3 DEF ServeQuery
    <3> HIDE DEF m
    <3> QED BY <1>1, <1>2, <1>3, <2>3, <3>1, <3>2, AnswerSafe
  <2> QED BY <1>4, <2>1, <2>2, <2>3 DEF ServeQuery
<1>5. CASE ServeCreate(r)
  <2> DEFINE m == [kind |-> "saved", actor |-> r.draft.actor]
  <2>1. CASE Create(r.draft) /\ Reply(m)
    <3>1. r.draft.actor \in Actors /\ r.draft.actor \in DOMAIN records'
      <4>1. r.draft.actor \in Actors /\ Store(r.draft.actor, Created(r.draft))
        BY <2>1 DEF Create, MayCreate
      <4> QED BY <4>1 DEF Store
    <3>2. m \in Says /\ m.kind = "saved" /\ m.actor \in DOMAIN records'
      BY <3>1 DEF Says
    <3>3. r.kind # "preview" /\ Reply(m)
      BY <1>5, <2>1 DEF ServeCreate
    <3> HIDE DEF m
    <3> QED BY <1>1, <1>2, <3>2, <3>3, AnswerSafe
  <2>2. CASE Reply(Refused)
    BY <1>1, <1>2, <1>3, <1>5, <2>2, AnswerSafe DEF ServeCreate
  <2> QED BY <1>5, <2>1, <2>2 DEF ServeCreate
<1>6. CASE ServeLevelUp(r)
  <2> DEFINE m == [kind |-> "saved", actor |-> r.actor]
  <2>1. CASE LevelUp(r.actor, r.chosen) /\ Reply(m)
    <3>1. r.actor \in Actors /\ r.actor \in DOMAIN records'
      BY <1>2, <2>1 DEF LevelUp, MayLevelUp, SoundRecords
    <3>2. m \in Says /\ m.kind = "saved" /\ m.actor \in DOMAIN records'
      BY <3>1 DEF Says
    <3>3. r.kind # "preview" /\ Reply(m)
      BY <1>6, <2>1 DEF ServeLevelUp
    <3> HIDE DEF m
    <3> QED BY <1>1, <1>2, <3>2, <3>3, AnswerSafe
  <2>2. CASE Reply(Refused)
    BY <1>1, <1>2, <1>3, <1>6, <2>2, AnswerSafe DEF ServeLevelUp
  <2> QED BY <1>6, <2>1, <2>2 DEF ServeLevelUp
<1> QED BY <1>4, <1>5, <1>6 DEF Serve

-----------------------------------------------------------------------------
(* The view hears, or misses, an answer                                    *)

LEMMA SayFields ==
  ASSUME NEW m \in Says
  PROVE  /\ m.kind = "preview" => m.verdict \in Verdicts
         /\ m.kind = "choices" => m.offers \in SUBSET Catalog
         /\ m.kind = "saved" => m.actor \in Actors
BY DEF Says, Refused

(* What is left on the wire when the first answer is taken off it.         *)
LEMMA TakenOff ==
  ASSUME WireOK, answers # <<>>, answers' = Tail(answers), requests' = requests, UNCHANGED records
  PROVE  /\ WireOK' /\ Head(answers) \in Says
         /\ Head(answers).kind = "saved" => Head(answers).actor \in DOMAIN records
<1>1. /\ Head(answers) = answers[1] /\ Head(answers) \in Says /\ Tail(answers) \in Seq(Says)
      /\ Len(answers) \in Nat \ {0} /\ Len(requests) \in Nat
      /\ Len(Tail(answers)) = Len(answers) - 1
      /\ \A i \in 1 .. Len(answers) - 1 : Tail(answers)[i] = answers[i + 1]
  BY HeadTailProperties DEF WireOK
<1>2. DOMAIN answers = 1 .. Len(answers) /\ DOMAIN Tail(answers) = 1 .. Len(answers) - 1
  BY <1>1 DEF WireOK
<1>3. ASSUME NEW i \in DOMAIN Tail(answers), Tail(answers)[i].kind = "saved"
      PROVE  Tail(answers)[i].actor \in DOMAIN records
  <2>1. i + 1 \in DOMAIN answers /\ Tail(answers)[i] = answers[i + 1]
    BY <1>1, <1>2
  <2> QED BY <1>3, <2>1 DEF WireOK
<1>4. WireOK'
  BY <1>1, <1>3, CreatorAssumption DEF WireOK
<1> QED BY <1>1, <1>2, <1>4 DEF WireOK

(* Hearing something that is no preview, with the form as it is.           *)
LEMMA HearOther ==
  ASSUME ViewOK, answers # <<>>, answers' = Tail(answers), requests' = requests,
         Head(answers).kind # "preview", UNCHANGED <<records, schema, reviewing, draft, enabled, heard>>, LevelOK'
  PROVE  ViewOK'
<1> USE DEF ViewOK
<1>1. WireOK'
  BY TakenOff
<1>2. /\ Asked(answers) <=> Asked(answers')
      /\ \A v : Latest(answers, v) => Latest(answers', v)
  BY TakeFirst DEF WireOK
<1>3. Awaited' /\ Settled'
  BY <1>2 DEF Awaited, Settled
<1>4. FormOK'
  BY DEF FormOK
<1> QED BY <1>1, <1>3, <1>4

LEMMA HearSchemaSafe ==
  ASSUME ViewOK, answers # <<>>, answers' = Tail(answers), UNCHANGED records, HearSchema(Head(answers))
  PROVE  ViewOK'
<1> USE DEF ViewOK
<1>1. /\ schema' = TRUE /\ panel' = "step" /\ offers' = {} /\ picked' = {}
      /\ UNCHANGED <<reviewing, draft, enabled, created, heard>> /\ Head(answers).kind = "schema"
  BY DEF HearSchema, ShowStep
<1>2. FormOK' /\ LevelOK'
  BY <1>1 DEF FormOK, LevelOK
<1>3. /\ Head(answers) \in Says /\ Tail(answers) \in Seq(Says)
      /\ Len(Tail(answers)) = Len(answers) - 1
      /\ \A v : Latest(answers, v) => Latest(answers', v)
      /\ Asked(answers) <=> Asked(answers')
  BY <1>1, TakeFirst DEF WireOK
<1>4. CASE reviewing
  <2> DEFINE m == [kind |-> "preview", verdict |-> Preview(draft)]
  <2>1. m \in Asks /\ m.kind = "preview" /\ m.verdict = Preview(draft)
    BY PreviewType DEF Asks
  <2>2. requests' = Append(requests, m)
    BY <1>4 DEF HearSchema
  <2> HIDE DEF m
  <2>3. /\ requests' \in Seq(Asks) /\ Len(requests') = Len(requests) + 1
        /\ Asked(requests') /\ Latest(requests', Preview(draft))
    BY <2>1, <2>2, AppendPreview DEF WireOK
  <2>4. \A i \in DOMAIN answers' : answers'[i].kind = "saved" => answers'[i].actor \in DOMAIN records'
    <3>1. DOMAIN answers = 1 .. Len(answers) /\ DOMAIN answers' = 1 .. Len(answers) - 1 /\ Len(answers) \in Nat
      BY <1>3 DEF WireOK
    <3> SUFFICES ASSUME NEW i \in DOMAIN answers', answers'[i].kind = "saved"
                 PROVE  answers'[i].actor \in DOMAIN records
      OBVIOUS
    <3>2. i + 1 \in DOMAIN answers /\ answers'[i] = answers[i + 1]
      BY <3>1, HeadTailProperties DEF WireOK
    <3> QED BY <3>2 DEF WireOK
  <2>5. WireOK'
    <3>1. Len(requests) \in Nat /\ Len(answers) \in Nat
      BY DEF WireOK
    <3> QED BY <1>3, <2>3, <2>4, <3>1, CreatorAssumption DEF WireOK
  <2>6. Awaited' /\ Settled'
    BY <1>1, <2>3, JustAsked
  <2> QED BY <1>2, <2>5, <2>6
<1>5. CASE ~reviewing
  <2>1. requests' = requests
    BY <1>5 DEF HearSchema
  <2>2. WireOK'
    BY <2>1, TakenOff
  <2>3. reviewing' = FALSE
    BY <1>1, <1>5 DEF FormOK
  <2> QED BY <1>2, <2>2, <2>3, NotReviewing
<1> QED BY <1>4, <1>5

(* The last preview on its way decides the button, in the review; one that *)
(* was refused decides nothing, and counts as not heard.                   *)
LEMMA HearPreviewSafe ==
  ASSUME ViewOK, answers # <<>>, answers' = Tail(answers), UNCHANGED records, HearPreview(Head(answers))
  PROVE  ViewOK'
<1> USE DEF ViewOK
<1> DEFINE m == Head(answers)
<1>1. /\ UNCHANGED <<schema, reviewing, draft, created, panel, offers, picked, requests>>
      /\ m.kind = "preview" /\ (heard' <=> m.verdict # "refused")
  BY DEF HearPreview, levelVars
<1>2. WireOK' /\ LevelOK'
  BY <1>1, TakenOff DEF LevelOK
<1>3. heard' \in BOOLEAN
  BY DEF HearPreview
<1>4. enabled' \in BOOLEAN /\ (m.verdict # "refused" => (enabled' <=> (m.verdict = "legal" /\ reviewing)))
  <2>1. CASE m.verdict = "refused"
    <3>1. enabled' = enabled
      BY <2>1 DEF HearPreview
    <3> QED BY <2>1, <3>1 DEF FormOK
  <2>2. CASE m.verdict # "refused"
    <3>1. enabled' = (m.verdict = "legal" /\ reviewing)
      BY <2>2 DEF HearPreview
    <3>2. CASE m.verdict = "legal" /\ reviewing
      BY <3>1, <3>2
    <3>3. CASE ~(m.verdict = "legal" /\ reviewing)
      BY <3>1, <3>3
    <3> QED BY <3>2, <3>3
  <2> QED BY <2>1, <2>2
<1>5. FormOK'
  BY <1>1, <1>3, <1>4 DEF FormOK
<1>6. /\ \A v : Latest(answers, v) => Latest(answers', v) /\ (~Asked(answers') => m.verdict = v)
  BY <1>1, TakeFirst DEF WireOK
<1>7. Awaited'
  BY <1>1, <1>6 DEF Awaited
<1>8. Settled'
  <2> HIDE DEF m
  <2> SUFFICES ASSUME reviewing, heard', ~Asked(requests), ~Asked(answers')
               PROVE  enabled' <=> Preview(draft) = "legal"
    BY <1>1 DEF Settled
  <2>1. m.verdict = Preview(draft)
    BY <1>6 DEF Awaited
  <2> QED BY <1>1, <1>4, <2>1
<1> QED BY <1>2, <1>5, <1>7, <1>8

LEMMA MissSafe == ViewOK /\ Miss => ViewOK'
<1> SUFFICES ASSUME ViewOK, Miss PROVE ViewOK'
  OBVIOUS
<1> USE DEF ViewOK
<1>1. /\ answers # <<>> /\ answers' = Tail(answers)
      /\ UNCHANGED <<records, schema, reviewing, draft, enabled, created, panel, offers, picked, requests>>
  BY DEF Miss, formVars, levelVars
<1>2. WireOK' /\ LevelOK'
  BY <1>1, TakenOff DEF LevelOK
<1>3. CASE Head(answers).kind = "preview"
  <2>1. heard' = FALSE
    BY <1>3 DEF Miss
  <2>2. \A v : Latest(answers, v) => Latest(answers', v)
    BY <1>1, TakeFirst DEF WireOK
  <2>3. Awaited' /\ Settled'
    BY <1>1, <2>1, <2>2 DEF Awaited, Settled
  <2>4. FormOK'
    BY <1>1, <2>1 DEF FormOK
  <2> QED BY <1>2, <2>3, <2>4
<1>4. CASE Head(answers).kind # "preview"
  <2>1. heard' = heard
    <3>1. heard' = (heard /\ TRUE)
      BY <1>4 DEF Miss
    <3>2. CASE heard
      BY <3>1, <3>2 DEF FormOK
    <3>3. CASE ~heard
      BY <3>1, <3>3 DEF FormOK
    <3> QED BY <3>2, <3>3
  <2> QED BY <1>1, <1>2, <1>4, <2>1, HearOther
<1> QED BY <1>3, <1>4

LEMMA HearSafe == SoundRecords /\ ViewOK /\ Hear => ViewOK'
<1> SUFFICES ASSUME SoundRecords, ViewOK, Hear PROVE ViewOK'
  OBVIOUS
<1> DEFINE m == Head(answers)
<1>1. answers # <<>> /\ answers' = Tail(answers) /\ UNCHANGED records
  BY DEF Hear
<1>2. CASE HearSchema(m)
  BY <1>1, <1>2, HearSchemaSafe
<1>3. CASE HearPreview(m)
  BY <1>1, <1>3, HearPreviewSafe
<1>4. CASE HearChoices(m)
  <2>1. /\ panel' = "levels" /\ offers' = m.offers /\ picked' = {} /\ m.kind = "choices"
        /\ UNCHANGED <<schema, reviewing, draft, enabled, created, requests, heard>>
    BY <1>4 DEF HearChoices, formVars
  <2>2. m \in Says
    BY <1>1, <2>1, TakenOff DEF ViewOK
  <2>3. LevelOK'
    BY <1>1, <2>1, <2>2, SayFields DEF ViewOK, LevelOK
  <2> QED BY <1>1, <2>1, <2>3, HearOther
<1>5. CASE HearSaved(m)
  <2>1. /\ created' = m.actor /\ m.kind = "saved"
        /\ UNCHANGED <<schema, reviewing, draft, enabled, panel, offers, picked, requests, heard>>
    BY <1>5 DEF HearSaved, formVars
  <2>2. m.actor \in DOMAIN records
    BY <1>1, <2>1, TakenOff DEF ViewOK
  <2>3. LevelOK'
    BY <1>1, <2>1, <2>2 DEF ViewOK, LevelOK
  <2> QED BY <1>1, <2>1, <2>3, HearOther
<1>6. CASE HearRefusal(m)
  <2>1. /\ m.kind = "refused"
        /\ UNCHANGED <<schema, reviewing, draft, enabled, created, panel, offers, picked, requests, heard>>
    BY <1>6 DEF HearRefusal, formVars, levelVars
  <2>2. LevelOK'
    BY <1>1, <2>1 DEF ViewOK, LevelOK
  <2> QED BY <1>1, <2>1, <2>2, HearOther
<1> QED BY <1>2, <1>3, <1>4, <1>5, <1>6 DEF Hear

-----------------------------------------------------------------------------
(* The invariant and what follows from it                                  *)

LEMMA CreatorStart == CreatorInit => CInv
<1> SUFFICES ASSUME CreatorInit PROVE CInv
  OBVIOUS
<1>1. SoundRecords
  BY RecordsStart DEF CreatorInit
<1>2. FormOK
  <2>1. Policy \in [Abilities -> {Policy[a] : a \in Abilities}]
    BY CatalogAssumption DEF WellFormedCatalog, WellFormedPolicy
  <2> QED BY <2>1 DEF CreatorInit, FormOK, FormDrafts
<1>3. LevelOK
  BY DEF CreatorInit, LevelOK
<1>4. WireOK
  BY CreatorAssumption DEF CreatorInit, WireOK
<1>5. Awaited /\ Settled
  BY DEF CreatorInit, Awaited, Settled
<1> QED BY <1>1, <1>2, <1>3, <1>4, <1>5 DEF CInv

(* Every step of the view, the wire and the host is a step of the service  *)
(* on its own, or none.                                                    *)
LEMMA CreatorRefinesStep == CInv /\ [CreatorNext]_vars => [RecordsNext]_records
<1> SUFFICES ASSUME CInv, [CreatorNext]_vars PROVE [RecordsNext]_records
  OBVIOUS
<1>1. SoundRecords /\ ViewOK
  BY DEF CInv, ViewOK
<1>2. CASE UserActs
  BY <1>1, <1>2, UserSafe
<1>3. CASE Serve
  BY <1>1, <1>3, ServeRefines
<1>4. CASE Hear \/ Miss
  BY <1>4 DEF Hear, Miss
<1>5. CASE UNCHANGED vars
  BY <1>5 DEF vars
<1> QED BY <1>2, <1>3, <1>4, <1>5 DEF CreatorNext, UserActs

LEMMA CreatorStep == CInv /\ [CreatorNext]_vars => CInv'
<1> SUFFICES ASSUME CInv, [CreatorNext]_vars PROVE CInv'
  OBVIOUS
<1>1. SoundRecords /\ ViewOK
  BY DEF CInv, ViewOK
<1>2. SoundRecords'
  BY <1>1, CreatorRefinesStep, RecordsStep
<1>3. CASE UserActs
  BY <1>1, <1>2, <1>3, UserSafe DEF CInv, ViewOK
<1>4. CASE Serve
  BY <1>1, <1>2, <1>4, ServeSafe DEF CInv, ViewOK
<1>5. CASE Hear
  BY <1>1, <1>2, <1>5, HearSafe DEF CInv, ViewOK
<1>6. CASE Miss
  BY <1>1, <1>2, <1>6, MissSafe DEF CInv, ViewOK
<1>7. CASE UNCHANGED vars
  <2>1. UNCHANGED <<records, schema, reviewing, draft, enabled, created, panel, offers, picked, requests, answers, heard>>
    BY <1>7 DEF vars, formVars, levelVars, wireVars
  <2> QED BY <1>1, <1>2, <2>1 DEF CInv, ViewOK, FormOK, LevelOK, WireOK, Awaited, Settled
<1> QED BY <1>3, <1>4, <1>5, <1>6, <1>7 DEF CreatorNext, UserActs

(* The invariant of every run of the view over the service.                *)
THEOREM CreatorInvariant == CreatorSpec => []CInv
BY CreatorStart, CreatorStep, PTL DEF CreatorSpec

(* Whatever is edited, pressed, delayed, missed or repeated in the view,   *)
(* the service does only what it may do on its own.                        *)
THEOREM CreatorUsesTheService == CreatorSpec => RecordsSpec
<1>1. CreatorInit => RecordsInit
  BY DEF CreatorInit
<1> QED BY <1>1, CreatorInvariant, CreatorRefinesStep, PTL DEF CreatorSpec, RecordsSpec

(* The form, the level panel and the wire keep their shape, and the level  *)
(* panel belongs to a character there is.                                  *)
THEOREM CreatorIsTyped == CreatorSpec => []CreatorTypeOK
<1>1. CInv => CreatorTypeOK
  BY DEF CInv, SoundRecords, SoundRecord, FormOK, FormDrafts, LevelOK, WireOK, CreatorTypeOK, RecordsTypeOK
<1> QED BY <1>1, CreatorInvariant, PTL

(* Every option of every character was open, had its requirements met and  *)
(* contradicted nothing when it was taken, for any catalog.                *)
THEOREM CharactersAreLegal == CreatorSpec => []RecordsAreLegal
<1>1. SoundRecords => RecordsAreLegal
  BY DEF SoundRecords, SoundRecord, RecordsAreLegal
<1> QED BY <1>1, CreatorUsesTheService, RecordsInvariant, PTL

(* The totals of every character are those of its options, for any catalog.*)
THEOREM CharactersBalance == CreatorSpec => []BooksAgree
<1>1. SoundRecords => BooksAgree
  BY DEF SoundRecords, SoundRecord, BooksAgree
<1> QED BY <1>1, CreatorUsesTheService, RecordsInvariant, PTL

(* No character is lost, made anew, or changed but by one level.           *)
THEOREM CharactersAreKept == CreatorSpec => CharactersOnlyGrow
<1>1. SoundRecords /\ [RecordsNext]_records =>
        [\A a \in DOMAIN records :
           /\ a \in DOMAIN records'
           /\ LET old == records[a]  new == records'[a] IN
              new = old \/ /\ new.level = old.level + 1 /\ old.options \subseteq new.options
                           /\ \A p \in Primaries : new[p] = old[p]
                           /\ \A c \in new.options \ old.options : Unlock[c] = new.level]_records
  BY RecordsStep DEF AllGrown, Grown
<1>2. RecordsSpec => CharactersOnlyGrow
  BY <1>1, RecordsInvariant, PTL DEF RecordsSpec, CharactersOnlyGrow
<1> QED BY <1>2, CreatorUsesTheService, PTL

(* Once every preview is in and the last was heard, Create is enabled in   *)
(* the review exactly if the draft is legal.                               *)
THEOREM ReviewsAreCurrent == CreatorSpec => []ReviewIsCurrent
<1>1. CInv => ReviewIsCurrent
  <2> SUFFICES ASSUME CInv, reviewing, heard, ~InFlight("preview")
               PROVE  enabled = (Preview(draft) = "legal")
    BY DEF ReviewIsCurrent
  <2>1. ~Asked(requests) /\ ~Asked(answers)
    BY DEF InFlight, Asked
  <2>2. enabled \in BOOLEAN /\ (enabled <=> Preview(draft) = "legal")
    BY <2>1 DEF CInv, Settled, FormOK
  <2> QED BY <2>2
<1> QED BY <1>1, CreatorInvariant, PTL
=============================================================================
