------------------------- MODULE KnowledgeClaimsProofs -------------------------
(***************************************************************************)
(* KnowledgeClaims for every number of processes, names, values and        *)
(* entities: the graph that the write-backs leave can be traced, wherever  *)
(* they break off and however they overlap.                                *)
(***************************************************************************)
EXTENDS KnowledgeClaims, TLAPS

\* What a writer has put on record before the stage it is in.
Cited == {"again", "mark", "record", "claim", "relate", "written"}

\* An alias leads to an entity of its name.
AliasesLead == \A n \in Names : alias[n] # 0 => entity[alias[n]] = n

\* Past the resolution a writer holds an entity of the name it heard.
EntitiesResolved ==
    \A w \in Processes : writer[w].at \notin {"idle", "insert"} =>
        writer[w].ent \in Entities /\ entity[writer[w].ent] = writer[w].said.name

MessagesCited ==
    \A w \in Processes : writer[w].at \in Cited => writer[w].said \in evidence

\* What a writer marks or has marked is on record, and a lasting claim it has
\* marked is disputed from then on.
MarksOnRecord ==
    \A w \in Processes :
        /\ writer[w].at # "idle" => writer[w].todo \subseteq Recorded
        /\ writer[w].at = "record" =>
              /\ writer[w].old \in Claims
              /\ writer[w].old.pred \notin Temporal => claim[writer[w].old] = "disputed"

ClaimsWritten ==
    \A w \in Processes :
        writer[w].at \in {"relate", "written"} \/ (writer[w].at = "claim" /\ writer[w].known)
            => Said(w) \in Recorded

\* A conflict stays open only over what lasts.
ConflictsLast ==
    \A c \in conflict : c.pred \notin Temporal /\ claim[c] = "disputed"

\* GraphIsTraceable is not inductive by itself: a claim is backed because its
\* writer has cited the message before, with the entity of the message's name.
KnowledgeInv ==
    /\ KnowledgeTypeOK
    /\ AliasesLead
    /\ EntitiesResolved
    /\ MessagesCited
    /\ MarksOnRecord
    /\ ClaimsWritten
    /\ KnowledgeIsBacked
    /\ ConflictsLast

\* The tables are empty at first.
LEMMA KnowledgeStarts == KnowledgeInit => KnowledgeInv
<1> SUFFICES ASSUME KnowledgeInit PROVE KnowledgeInv
    OBVIOUS
<1> USE KnowledgeAssumption DEF KnowledgeInit, Idle, NoName
<1>1. KnowledgeTypeOK
  <2>1. entity \in [Entities -> Names \cup {NoName}]
    OBVIOUS
  <2>2. alias \in [Names -> Entities \cup {0}]
    OBVIOUS
  <2>3. claim \in [Claims -> {"none", "proposed", "disputed", "superseded"}]
    OBVIOUS
  <2>4. writer \in [Processes -> {Idle} \cup Busy]
    OBVIOUS
  <2>5. turns \in 0 .. Statements
    OBVIOUS
  <2>6. overlapped \in BOOLEAN
    OBVIOUS
  <2> QED
    BY <2>1, <2>2, <2>3, <2>4, <2>5, <2>6 DEF KnowledgeTypeOK
<1>2. \A w \in Processes : writer[w].at = "idle"
    OBVIOUS
<1>3. AliasesLead /\ EntitiesResolved /\ MessagesCited /\ MarksOnRecord /\ ClaimsWritten
    BY <1>2 DEF AliasesLead, EntitiesResolved, MessagesCited, MarksOnRecord,
                ClaimsWritten, Cited
<1>4. KnowledgeIsBacked /\ ConflictsLast
    BY DEF KnowledgeIsBacked, ConflictsLast, Recorded
<1> QED
    BY <1>1, <1>3, <1>4 DEF KnowledgeInv

\* A writer that has looked something up is still one that is busy.
LEMMA BusyKnows ==
    ASSUME NEW u \in Busy, NEW stage \in {"cite", "claim"}, NEW b \in BOOLEAN
    PROVE  [u EXCEPT !.at = stage, !.known = b] \in Busy
BY DEF Busy

\* Every statement of a write-back, and its end anywhere, keeps the invariant.
LEMMA KnowledgeInductive == KnowledgeInv /\ [KnowledgeNext]_knowVars => KnowledgeInv'
<1> SUFFICES ASSUME KnowledgeInv, [KnowledgeNext]_knowVars PROVE KnowledgeInv'
    OBVIOUS
<1> USE KnowledgeAssumption DEF KnowledgeInv
<1>0. \A w \in Processes : writer[w].at # "idle" => writer[w] \in Busy
    BY DEF KnowledgeTypeOK, Idle
<1>1. ASSUME NEW w \in Processes, NEW m \in Messages, Hear(w, m) PROVE KnowledgeInv'
  <2> USE <1>1 DEF Hear
  <2>a. PICK e \in Found(m.name) \cup (IF Found(m.name) = {} THEN {0} ELSE {}) :
           writer' = [writer EXCEPT ![w] =
               [at |-> IF e = 0 THEN "insert" ELSE "list", said |-> m, ent |-> e,
                known |-> FALSE, todo |-> {}, old |-> Idle]]
    OBVIOUS
  <2>b. m.name \in Names
    BY DEF Messages
  <2>c. e \in Entities \cup {0} /\ (e # 0 => entity[e] = m.name)
    BY <2>b DEF Found, AliasesLead, KnowledgeTypeOK
  <2>d. writer'[w] \in Busy
    BY <2>a, <2>c DEF KnowledgeTypeOK, Busy
  <2>e. turns' \in 0 .. Statements
    BY DEF KnowledgeTypeOK
  <2>f. overlapped' \in BOOLEAN
    BY Zenon DEF KnowledgeTypeOK
  <2>g. writer' \in [Processes -> {Idle} \cup Busy]
    BY <2>a, <2>d DEF KnowledgeTypeOK
  <2>1. KnowledgeTypeOK'
    BY <2>e, <2>f, <2>g DEF KnowledgeTypeOK
  <2>2. AliasesLead'
    BY DEF KnowledgeTypeOK, Busy, Idle, NoName, AliasesLead
  <2>3. EntitiesResolved'
    BY <2>a, <2>c DEF KnowledgeTypeOK, EntitiesResolved
  <2>4. MessagesCited'
    BY DEF KnowledgeTypeOK, Busy, Idle, NoName, MessagesCited, Cited
  <2>5. MarksOnRecord'
    BY DEF KnowledgeTypeOK, Busy, Idle, NoName, MarksOnRecord, Recorded
  <2>6. ClaimsWritten'
    BY DEF KnowledgeTypeOK, Busy, Idle, NoName, ClaimsWritten, Said, Recorded
  <2>7. KnowledgeIsBacked'
    BY DEF KnowledgeTypeOK, Busy, Idle, NoName, KnowledgeIsBacked, Recorded
  <2>8. ConflictsLast'
    BY DEF KnowledgeTypeOK, Busy, Idle, NoName, ConflictsLast
  <2> QED  BY <2>1, <2>2, <2>3, <2>4, <2>5, <2>6, <2>7, <2>8
<1>2. ASSUME NEW w \in Processes, InsertEntity(w) PROVE KnowledgeInv'
  <2> USE <1>2 DEF InsertEntity
  <2>a. writer[w] \in Busy
    BY <1>0
  <2>b. writer[w].said.name \in Names
    BY <2>a DEF Busy, Messages
  <2>c. PICK e \in Entities :
           /\ entity[e] = NoName
           /\ entity' = [entity EXCEPT ![e] = writer[w].said.name]
           /\ writer' = [writer EXCEPT ![w].at = "bind", ![w].ent = e]
    OBVIOUS
  <2>d. writer'[w] \in Busy /\ writer'[w] = [writer[w] EXCEPT !.at = "bind", !.ent = e]
    BY <2>a, <2>c DEF KnowledgeTypeOK, Busy
  <2>e. writer' \in [Processes -> {Idle} \cup Busy]
    BY <2>c, <2>d DEF KnowledgeTypeOK
  <2>1. KnowledgeTypeOK'
    BY <2>b, <2>c, <2>e DEF KnowledgeTypeOK
  <2>2. AliasesLead'
    BY DEF KnowledgeTypeOK, Busy, Idle, NoName, AliasesLead
  <2>3. EntitiesResolved'
    <3> SUFFICES ASSUME NEW v \in Processes, writer'[v].at \notin {"idle", "insert"}
                 PROVE  writer'[v].ent \in Entities
                        /\ entity'[writer'[v].ent] = writer'[v].said.name
        BY DEF EntitiesResolved
    <3>1. CASE v = w
        BY <3>1, <2>a, <2>c, <2>d DEF KnowledgeTypeOK, Busy
    <3>2. CASE v # w
      <4>1. writer'[v] = writer[v]
        BY <3>2, <2>c DEF KnowledgeTypeOK
      <4>2. writer[v] \in Busy
        BY <4>1, <1>0 DEF Idle
      <4>3. writer[v].said.name \in Names
        BY <4>2 DEF Busy, Messages
      <4> QED
        BY <4>1, <4>3, <2>c DEF EntitiesResolved, KnowledgeTypeOK, NoName
    <3> QED
        BY <3>1, <3>2
  <2>4. MessagesCited'
    BY DEF KnowledgeTypeOK, Busy, Idle, NoName, MessagesCited, Cited
  <2>5. MarksOnRecord'
    BY DEF KnowledgeTypeOK, Busy, Idle, NoName, MarksOnRecord, Recorded
  <2>6. ClaimsWritten'
    BY DEF KnowledgeTypeOK, Busy, Idle, NoName, ClaimsWritten, Said, Recorded
  <2>7. KnowledgeIsBacked'
    <3>1. ASSUME NEW c \in Recorded PROVE entity'[c.entity] = entity[c.entity]
      <4>1. c.entity \in Entities
        BY DEF Recorded, Claims
      <4>2. [name |-> entity[c.entity], pred |-> c.pred, value |-> c.value] \in Messages
        BY DEF KnowledgeIsBacked, KnowledgeTypeOK
      <4>3. entity[c.entity] \in Names
        BY <4>2 DEF Messages
      <4> QED
        BY <4>1, <4>3, <2>c DEF KnowledgeTypeOK, NoName
    <3> QED
        BY <3>1 DEF KnowledgeIsBacked, Recorded
  <2>8. ConflictsLast'
    BY DEF KnowledgeTypeOK, Busy, Idle, NoName, ConflictsLast
  <2> QED  BY <2>1, <2>2, <2>3, <2>4, <2>5, <2>6, <2>7, <2>8
<1>3. ASSUME NEW w \in Processes, BindAlias(w) PROVE KnowledgeInv'
  <2> USE <1>3 DEF BindAlias, BindName, WriterAt
  <2>a. writer[w] \in Busy
    BY <1>0
  <2>b. writer'[w] \in Busy
    BY <2>a DEF KnowledgeTypeOK, Busy
  <2>c. writer' \in [Processes -> {Idle} \cup Busy]
    BY <2>b DEF KnowledgeTypeOK
  <2>d. writer[w].said.name \in Names /\ writer[w].ent \in Entities
        /\ entity[writer[w].ent] = writer[w].said.name
    BY <2>a DEF Busy, Messages, EntitiesResolved
  <2>e. alias' \in [Names -> Entities \cup {0}]
    BY <2>d DEF KnowledgeTypeOK
  <2>1. KnowledgeTypeOK'
    BY <2>c, <2>e DEF KnowledgeTypeOK
  <2>2. AliasesLead'
    BY <2>d DEF KnowledgeTypeOK, AliasesLead
  <2>3. EntitiesResolved'
    BY DEF KnowledgeTypeOK, Busy, Idle, NoName, EntitiesResolved
  <2>4. MessagesCited'
    BY DEF KnowledgeTypeOK, Busy, Idle, NoName, MessagesCited, Cited
  <2>5. MarksOnRecord'
    BY DEF KnowledgeTypeOK, Busy, Idle, NoName, MarksOnRecord, Recorded
  <2>6. ClaimsWritten'
    BY DEF KnowledgeTypeOK, Busy, Idle, NoName, ClaimsWritten, Said, Recorded
  <2>7. KnowledgeIsBacked'
    BY DEF KnowledgeTypeOK, Busy, Idle, NoName, KnowledgeIsBacked, Recorded
  <2>8. ConflictsLast'
    BY DEF KnowledgeTypeOK, Busy, Idle, NoName, ConflictsLast
  <2> QED  BY <2>1, <2>2, <2>3, <2>4, <2>5, <2>6, <2>7, <2>8
<1>4. ASSUME NEW w \in Processes, ListClaims(w) PROVE KnowledgeInv'
  <2> USE <1>4 DEF ListClaims, Rivals
  <2>a. writer[w] \in Busy
    BY <1>0
  <2>b. PICK todo \in SUBSET Claims :
           writer' = [writer EXCEPT ![w].at = "look", ![w].todo = todo]
    BY DEF kSubset, Active
  <2>c. writer'[w] \in Busy
    BY <2>a, <2>b DEF KnowledgeTypeOK, Busy
  <2>d. writer' \in [Processes -> {Idle} \cup Busy]
    BY <2>c, <2>b DEF KnowledgeTypeOK
  <2>1. KnowledgeTypeOK'
    BY <2>d DEF KnowledgeTypeOK
  <2>2. AliasesLead'
    BY DEF KnowledgeTypeOK, Busy, Idle, NoName, AliasesLead
  <2>3. EntitiesResolved'
    BY DEF KnowledgeTypeOK, Busy, Idle, NoName, EntitiesResolved
  <2>4. MessagesCited'
    BY DEF KnowledgeTypeOK, Busy, Idle, NoName, MessagesCited, Cited
  <2>5. MarksOnRecord'
    BY DEF KnowledgeTypeOK, Busy, Idle, NoName, MarksOnRecord, Recorded
  <2>6. ClaimsWritten'
    BY DEF KnowledgeTypeOK, Busy, Idle, NoName, ClaimsWritten, Said, Recorded
  <2>7. KnowledgeIsBacked'
    BY DEF KnowledgeTypeOK, Busy, Idle, NoName, KnowledgeIsBacked, Recorded
  <2>8. ConflictsLast'
    BY DEF KnowledgeTypeOK, Busy, Idle, NoName, ConflictsLast
  <2> QED  BY <2>1, <2>2, <2>3, <2>4, <2>5, <2>6, <2>7, <2>8
<1>5. ASSUME NEW w \in Processes, LookForEvidence(w) PROVE KnowledgeInv'
  <2> USE <1>5 DEF LookForEvidence
  <2>a. writer[w] \in Busy
    BY <1>0
  <2>b. PICK b \in BOOLEAN : writer' = [writer EXCEPT ![w].at = "cite", ![w].known = b]
    <3>1. (writer[w].said \in evidence) \in BOOLEAN
        OBVIOUS
    <3> QED
        BY <3>1
  <2>c. writer'[w] \in Busy
    <3>1. writer'[w] = [writer[w] EXCEPT !.at = "cite", !.known = b]
        BY <2>b DEF KnowledgeTypeOK
    <3> QED
        BY ZenonT(40), <2>a, <3>1, BusyKnows
  <2>d. writer' \in [Processes -> {Idle} \cup Busy]
    BY <2>b, <2>c DEF KnowledgeTypeOK
  <2>1. KnowledgeTypeOK'
    BY <2>d DEF KnowledgeTypeOK
  <2>2. AliasesLead'
    BY DEF KnowledgeTypeOK, Busy, Idle, NoName, AliasesLead
  <2>3. EntitiesResolved'
    BY DEF KnowledgeTypeOK, Busy, Idle, NoName, EntitiesResolved
  <2>4. MessagesCited'
    BY DEF KnowledgeTypeOK, Busy, Idle, NoName, MessagesCited, Cited
  <2>5. MarksOnRecord'
    BY DEF KnowledgeTypeOK, Busy, Idle, NoName, MarksOnRecord, Recorded
  <2>6. ClaimsWritten'
    BY DEF KnowledgeTypeOK, Busy, Idle, NoName, ClaimsWritten, Said, Recorded
  <2>7. KnowledgeIsBacked'
    BY DEF KnowledgeTypeOK, Busy, Idle, NoName, KnowledgeIsBacked, Recorded
  <2>8. ConflictsLast'
    BY DEF KnowledgeTypeOK, Busy, Idle, NoName, ConflictsLast
  <2> QED  BY <2>1, <2>2, <2>3, <2>4, <2>5, <2>6, <2>7, <2>8
<1>6. ASSUME NEW w \in Processes, InsertEvidence(w) PROVE KnowledgeInv'
  <2> USE <1>6 DEF InsertEvidence, Cite, Degrade, WriterAt
  <2>a. writer[w] \in Busy
    BY <1>0
  <2>b. writer'[w] \in {Idle} \cup Busy
    BY <2>a DEF KnowledgeTypeOK, Busy
  <2>c. writer' \in [Processes -> {Idle} \cup Busy]
    BY <2>b DEF KnowledgeTypeOK
  <2>d. writer[w].said \in Messages
    BY <2>a DEF Busy
  <2>1. KnowledgeTypeOK'
    BY <2>c, <2>d DEF KnowledgeTypeOK
  <2>2. AliasesLead'
    BY DEF KnowledgeTypeOK, Busy, Idle, NoName, AliasesLead
  <2>3. EntitiesResolved'
    BY DEF KnowledgeTypeOK, Busy, Idle, NoName, EntitiesResolved
  <2>4. MessagesCited'
    BY DEF KnowledgeTypeOK, Busy, Idle, NoName, MessagesCited, Cited
  <2>5. MarksOnRecord'
    BY DEF KnowledgeTypeOK, Busy, Idle, NoName, MarksOnRecord, Recorded
  <2>6. ClaimsWritten'
    BY DEF KnowledgeTypeOK, Busy, Idle, NoName, ClaimsWritten, Said, Recorded
  <2>7. KnowledgeIsBacked'
    BY DEF KnowledgeTypeOK, Busy, Idle, NoName, KnowledgeIsBacked, Recorded
  <2>8. ConflictsLast'
    BY DEF KnowledgeTypeOK, Busy, Idle, NoName, ConflictsLast
  <2> QED  BY <2>1, <2>2, <2>3, <2>4, <2>5, <2>6, <2>7, <2>8
<1>7. ASSUME NEW w \in Processes, UpsertAgain(w) PROVE KnowledgeInv'
  <2> USE <1>7 DEF UpsertAgain, BindName, WriterAt
  <2>a. writer[w] \in Busy
    BY <1>0
  <2>b. writer'[w] \in Busy
    BY <2>a DEF KnowledgeTypeOK, Busy
  <2>c. writer' \in [Processes -> {Idle} \cup Busy]
    BY <2>b DEF KnowledgeTypeOK
  <2>d. writer[w].said.name \in Names /\ writer[w].ent \in Entities
        /\ entity[writer[w].ent] = writer[w].said.name
    BY <2>a DEF Busy, Messages, EntitiesResolved
  <2>e. alias' \in [Names -> Entities \cup {0}]
    BY <2>d DEF KnowledgeTypeOK
  <2>1. KnowledgeTypeOK'
    BY <2>c, <2>e DEF KnowledgeTypeOK
  <2>2. AliasesLead'
    BY <2>d DEF KnowledgeTypeOK, AliasesLead
  <2>3. EntitiesResolved'
    BY DEF KnowledgeTypeOK, Busy, Idle, NoName, EntitiesResolved
  <2>4. MessagesCited'
    BY DEF KnowledgeTypeOK, Busy, Idle, NoName, MessagesCited, Cited
  <2>5. MarksOnRecord'
    BY DEF KnowledgeTypeOK, Busy, Idle, NoName, MarksOnRecord, Recorded
  <2>6. ClaimsWritten'
    BY DEF KnowledgeTypeOK, Busy, Idle, NoName, ClaimsWritten, Said, Recorded
  <2>7. KnowledgeIsBacked'
    BY DEF KnowledgeTypeOK, Busy, Idle, NoName, KnowledgeIsBacked, Recorded
  <2>8. ConflictsLast'
    BY DEF KnowledgeTypeOK, Busy, Idle, NoName, ConflictsLast
  <2> QED  BY <2>1, <2>2, <2>3, <2>4, <2>5, <2>6, <2>7, <2>8
<1>8. ASSUME NEW w \in Processes, MarkOlder(w) PROVE KnowledgeInv'
  <2> USE <1>8 DEF MarkOlder, Mark
  <2>a. writer[w] \in Busy
    BY <1>0
  <2>b. writer'[w] \in {Idle} \cup Busy
    BY <2>a DEF KnowledgeTypeOK, Busy
  <2>1. KnowledgeTypeOK'
    BY <2>a, <2>b DEF KnowledgeTypeOK
  <2>2. AliasesLead'
    BY DEF KnowledgeTypeOK, Busy, Idle, NoName, AliasesLead
  <2>3. EntitiesResolved'
    BY DEF KnowledgeTypeOK, Busy, Idle, NoName, EntitiesResolved
  <2>4. MessagesCited'
    BY DEF KnowledgeTypeOK, Busy, Idle, NoName, MessagesCited, Cited
  <2>5. MarksOnRecord'
    BY DEF KnowledgeTypeOK, Busy, Idle, NoName, MarksOnRecord, Recorded
  <2>6. ClaimsWritten'
    BY DEF KnowledgeTypeOK, Busy, Idle, NoName, ClaimsWritten, Said, Recorded
  <2>7. KnowledgeIsBacked'
    BY DEF KnowledgeTypeOK, Busy, Idle, NoName, KnowledgeIsBacked, Recorded
  <2>8. ConflictsLast'
    BY DEF KnowledgeTypeOK, Busy, Idle, NoName, ConflictsLast
  <2> QED  BY <2>1, <2>2, <2>3, <2>4, <2>5, <2>6, <2>7, <2>8
<1>9. ASSUME NEW w \in Processes, RecordConflict(w) PROVE KnowledgeInv'
  <2> USE <1>9 DEF RecordConflict, WriterAt
  <2>a. writer[w] \in Busy
    BY <1>0
  <2>b. writer'[w] \in {Idle} \cup Busy
    BY <2>a DEF KnowledgeTypeOK, Busy
  <2>c. writer' \in [Processes -> {Idle} \cup Busy]
    BY <2>b DEF KnowledgeTypeOK
  <2>1. KnowledgeTypeOK'
    BY <2>c DEF KnowledgeTypeOK, MarksOnRecord
  <2>2. AliasesLead'
    BY DEF KnowledgeTypeOK, Busy, Idle, NoName, AliasesLead
  <2>3. EntitiesResolved'
    BY DEF KnowledgeTypeOK, Busy, Idle, NoName, EntitiesResolved
  <2>4. MessagesCited'
    BY DEF KnowledgeTypeOK, Busy, Idle, NoName, MessagesCited, Cited
  <2>5. MarksOnRecord'
    BY DEF KnowledgeTypeOK, Busy, Idle, NoName, MarksOnRecord, Recorded
  <2>6. ClaimsWritten'
    BY DEF KnowledgeTypeOK, Busy, Idle, NoName, ClaimsWritten, Said, Recorded
  <2>7. KnowledgeIsBacked'
    BY DEF KnowledgeTypeOK, Busy, Idle, NoName, KnowledgeIsBacked, Recorded
  <2>8. ConflictsLast'
    BY DEF ConflictsLast, MarksOnRecord
  <2> QED  BY <2>1, <2>2, <2>3, <2>4, <2>5, <2>6, <2>7, <2>8
<1>10. ASSUME NEW w \in Processes, LookForClaim(w) PROVE KnowledgeInv'
  <2> USE <1>10 DEF LookForClaim
  <2>a. writer[w] \in Busy
    BY <1>0
  <2>b. PICK b \in BOOLEAN : writer' = [writer EXCEPT ![w].at = "claim", ![w].known = b]
    <3>1. (Said(w) \in Recorded) \in BOOLEAN
        OBVIOUS
    <3> QED
        BY <3>1
  <2>c. writer'[w] \in Busy
    <3>1. writer'[w] = [writer[w] EXCEPT !.at = "claim", !.known = b]
        BY <2>b DEF KnowledgeTypeOK
    <3> QED
        BY ZenonT(40), <2>a, <3>1, BusyKnows
  <2>d. writer' \in [Processes -> {Idle} \cup Busy]
    BY <2>b, <2>c DEF KnowledgeTypeOK
  <2>1. KnowledgeTypeOK'
    BY <2>d DEF KnowledgeTypeOK
  <2>2. AliasesLead'
    BY DEF KnowledgeTypeOK, Busy, Idle, NoName, AliasesLead
  <2>3. EntitiesResolved'
    BY DEF KnowledgeTypeOK, Busy, Idle, NoName, EntitiesResolved
  <2>4. MessagesCited'
    BY DEF KnowledgeTypeOK, Busy, Idle, NoName, MessagesCited, Cited
  <2>5. MarksOnRecord'
    BY DEF KnowledgeTypeOK, Busy, Idle, NoName, MarksOnRecord, Recorded
  <2>6. ClaimsWritten'
    BY DEF KnowledgeTypeOK, Busy, Idle, NoName, ClaimsWritten, Said, Recorded
  <2>7. KnowledgeIsBacked'
    BY DEF KnowledgeTypeOK, Busy, Idle, NoName, KnowledgeIsBacked, Recorded
  <2>8. ConflictsLast'
    BY DEF KnowledgeTypeOK, Busy, Idle, NoName, ConflictsLast
  <2> QED  BY <2>1, <2>2, <2>3, <2>4, <2>5, <2>6, <2>7, <2>8
<1>11. ASSUME NEW w \in Processes, WriteClaim(w) PROVE KnowledgeInv'
  <2> USE <1>11 DEF WriteClaim, WriterAt, Degrade
  <2>a. writer[w] \in Busy
    BY <1>0
  <2>b. writer'[w] \in {Idle} \cup Busy
    BY <2>a DEF KnowledgeTypeOK, Busy
  <2>c. writer' \in [Processes -> {Idle} \cup Busy]
    BY <2>b DEF KnowledgeTypeOK
  <2>d. Said(w) \in Claims /\ entity[Said(w).entity] = writer[w].said.name
    BY <2>a DEF Said, Claims, Busy, Messages, EntitiesResolved
  <2>e. [name |-> entity[Said(w).entity], pred |-> Said(w).pred, value |-> Said(w).value]
        = writer[w].said
    BY <2>a, <2>d DEF Said, Busy, Messages
  <2>1. KnowledgeTypeOK'
    BY <2>c, <2>d DEF KnowledgeTypeOK
  <2>2. AliasesLead'
    BY DEF KnowledgeTypeOK, Busy, Idle, NoName, AliasesLead
  <2>3. EntitiesResolved'
    BY DEF KnowledgeTypeOK, Busy, Idle, NoName, EntitiesResolved
  <2>4. MessagesCited'
    BY DEF KnowledgeTypeOK, Busy, Idle, NoName, MessagesCited, Cited
  <2>5. MarksOnRecord'
    BY DEF KnowledgeTypeOK, Busy, Idle, NoName, MarksOnRecord, Recorded
  <2>6. ClaimsWritten'
    <3> SUFFICES ASSUME NEW v \in Processes,
                        writer'[v].at \in {"relate", "written"}
                        \/ (writer'[v].at = "claim" /\ writer'[v].known)
                 PROVE  Said(v)' \in Recorded'
        BY DEF ClaimsWritten
    <3>1. CASE v = w
      <4>1. Said(v)' = Said(w) /\ writer'[w].at = "relate"
        BY <3>1, <2>a DEF Said, KnowledgeTypeOK, Busy, Idle
      <4> QED
        BY <4>1, <2>d DEF Recorded, KnowledgeTypeOK, ClaimsWritten
    <3>2. CASE v # w
      <4>1. Said(v)' = Said(v) /\ writer'[v] = writer[v]
        BY <3>2 DEF Said, KnowledgeTypeOK
      <4> QED
        BY <4>1, <2>d DEF ClaimsWritten, Recorded, KnowledgeTypeOK
    <3> QED
        BY <3>1, <3>2
  <2>7. KnowledgeIsBacked'
    BY <2>d, <2>e DEF KnowledgeIsBacked, Recorded, KnowledgeTypeOK, MessagesCited, Cited
  <2>8. ConflictsLast'
    BY <2>d DEF ConflictsLast, Recorded, KnowledgeTypeOK
  <2> QED  BY <2>1, <2>2, <2>3, <2>4, <2>5, <2>6, <2>7, <2>8
<1>12. ASSUME NEW w \in Processes, Relate(w) PROVE KnowledgeInv'
  <2> USE <1>12 DEF Relate, WriterAt
  <2>a. writer[w] \in Busy
    BY <1>0
  <2>b. writer'[w] \in {Idle} \cup Busy
    BY <2>a DEF KnowledgeTypeOK, Busy
  <2>c. writer' \in [Processes -> {Idle} \cup Busy]
    BY <2>b DEF KnowledgeTypeOK
  <2>d. Said(w) \in Recorded
    BY DEF ClaimsWritten
  <2>1. KnowledgeTypeOK'
    BY <2>c, <2>d DEF KnowledgeTypeOK, Recorded
  <2>2. AliasesLead'
    BY DEF KnowledgeTypeOK, Busy, Idle, NoName, AliasesLead
  <2>3. EntitiesResolved'
    BY DEF KnowledgeTypeOK, Busy, Idle, NoName, EntitiesResolved
  <2>4. MessagesCited'
    BY DEF KnowledgeTypeOK, Busy, Idle, NoName, MessagesCited, Cited
  <2>5. MarksOnRecord'
    BY DEF KnowledgeTypeOK, Busy, Idle, NoName, MarksOnRecord, Recorded
  <2>6. ClaimsWritten'
    BY DEF KnowledgeTypeOK, Busy, Idle, NoName, ClaimsWritten, Said, Recorded
  <2>7. KnowledgeIsBacked'
    BY <2>d DEF KnowledgeIsBacked, Recorded
  <2>8. ConflictsLast'
    BY DEF KnowledgeTypeOK, Busy, Idle, NoName, ConflictsLast
  <2> QED  BY <2>1, <2>2, <2>3, <2>4, <2>5, <2>6, <2>7, <2>8
<1>13. ASSUME NEW w \in Processes, EndWriteBack(w) PROVE KnowledgeInv'
  <2> USE <1>13 DEF EndWriteBack
  <2>1. KnowledgeTypeOK'
    BY DEF KnowledgeTypeOK
  <2>2. AliasesLead'
    BY DEF KnowledgeTypeOK, Busy, Idle, NoName, AliasesLead
  <2>3. EntitiesResolved'
    BY DEF KnowledgeTypeOK, Busy, Idle, NoName, EntitiesResolved
  <2>4. MessagesCited'
    BY DEF KnowledgeTypeOK, Busy, Idle, NoName, MessagesCited, Cited
  <2>5. MarksOnRecord'
    BY DEF KnowledgeTypeOK, Busy, Idle, NoName, MarksOnRecord, Recorded
  <2>6. ClaimsWritten'
    BY DEF KnowledgeTypeOK, Busy, Idle, NoName, ClaimsWritten, Said, Recorded
  <2>7. KnowledgeIsBacked'
    BY DEF KnowledgeTypeOK, Busy, Idle, NoName, KnowledgeIsBacked, Recorded
  <2>8. ConflictsLast'
    BY DEF KnowledgeTypeOK, Busy, Idle, NoName, ConflictsLast
  <2> QED  BY <2>1, <2>2, <2>3, <2>4, <2>5, <2>6, <2>7, <2>8
<1>14. ASSUME NEW w \in Processes, WriteBackEnds(w) PROVE KnowledgeInv'
  <2> USE <1>14 DEF WriteBackEnds
  <2>1. KnowledgeTypeOK'
    BY DEF KnowledgeTypeOK
  <2>2. AliasesLead'
    BY DEF KnowledgeTypeOK, Busy, Idle, NoName, AliasesLead
  <2>3. EntitiesResolved'
    BY DEF KnowledgeTypeOK, Busy, Idle, NoName, EntitiesResolved
  <2>4. MessagesCited'
    BY DEF KnowledgeTypeOK, Busy, Idle, NoName, MessagesCited, Cited
  <2>5. MarksOnRecord'
    BY DEF KnowledgeTypeOK, Busy, Idle, NoName, MarksOnRecord, Recorded
  <2>6. ClaimsWritten'
    BY DEF KnowledgeTypeOK, Busy, Idle, NoName, ClaimsWritten, Said, Recorded
  <2>7. KnowledgeIsBacked'
    BY DEF KnowledgeTypeOK, Busy, Idle, NoName, KnowledgeIsBacked, Recorded
  <2>8. ConflictsLast'
    BY DEF KnowledgeTypeOK, Busy, Idle, NoName, ConflictsLast
  <2> QED  BY <2>1, <2>2, <2>3, <2>4, <2>5, <2>6, <2>7, <2>8
<1>15. CASE UNCHANGED knowVars
    BY <1>15 DEF knowVars, KnowledgeTypeOK, AliasesLead, EntitiesResolved, MessagesCited,
                 MarksOnRecord, ClaimsWritten, KnowledgeIsBacked, ConflictsLast, Recorded,
                 Said
<1> QED
    BY <1>1, <1>2, <1>3, <1>4, <1>5, <1>6, <1>7, <1>8, <1>9, <1>10, <1>11, <1>12,
       <1>13, <1>14, <1>15 DEF KnowledgeNext

\* The graph can be traced: each claim to evidence of its own entity's name, each
\* open conflict to the claim it disputes, whatever breaks off or overlaps.
THEOREM GraphIsTraceableHolds == KnowledgeSpec => []GraphIsTraceable
<1>1. KnowledgeInv => GraphIsTraceable
    BY DEF KnowledgeInv, GraphIsTraceable, ConflictsLast, ConflictIsMarked
<1> QED
    BY KnowledgeStarts, KnowledgeInductive, <1>1, PTL DEF KnowledgeSpec

---------------------------------------------------------------------------
\* As long as no turn has been written back beside another: who is about to
\* insert an entity has seen that there is none of its name, and of the claims
\* that contradict what a writer is about to claim it still has to mark every
\* one that is undisputed.
OneWriter == \A v, w \in Processes : writer[v].at # "idle" /\ writer[w].at # "idle" => v = w
Undisputed == \A c, d \in Claims :
    claim[c] = "proposed" /\ claim[d] = "proposed" => ~Contradict(c, d)
NamesApart == \A e, f \in Entities : entity[e] # NoName /\ entity[e] = entity[f] => e = f
NewName(w) == writer[w].at = "insert" => \A e \in Entities : entity[e] # writer[w].said.name
RivalsKnown(w) ==
    /\ writer[w].at \in {"look", "cite", "again", "mark", "record", "claim"} =>
         \A c \in Claims : claim[c] = "proposed" /\ Contradict(c, Said(w)) => c \in writer[w].todo
    /\ writer[w].at = "claim" => writer[w].todo = {}
OneVoice ==
    ~overlapped => /\ OneWriter /\ Undisputed /\ NamesApart
                   /\ \A w \in Processes : NewName(w) /\ RivalsKnown(w)

\* A writer that only moves on, with what it has read, keeps the one voice.
LEMMA MovingOn ==
    ASSUME KnowledgeTypeOK, OneVoice, ~overlapped, NEW w \in Processes, writer[w].at # "idle",
           NEW u \in {Idle} \cup Busy, writer' = [writer EXCEPT ![w] = u],
           UNCHANGED <<entity, claim, overlapped>>,
           NewName(w)', RivalsKnown(w)'
    PROVE  OneVoice'
<1>1. \A v \in Processes : v # w => writer[v].at = "idle" /\ writer'[v].at = "idle"
    BY DEF OneVoice, OneWriter, KnowledgeTypeOK
<1>2. OneWriter'
    BY <1>1 DEF OneWriter
<1>3. Undisputed' /\ NamesApart'
    BY DEF OneVoice, Undisputed, NamesApart
<1>4. \A v \in Processes : NewName(v)' /\ RivalsKnown(v)'
    BY <1>1 DEF NewName, RivalsKnown
<1> QED
    BY <1>2, <1>3, <1>4 DEF OneVoice

\* Every statement of a write-back keeps it, while no claim escapes the list
\* that a turn looks at.
LEMMA OneVoiceInductive ==
    ASSUME \A S \in SUBSET Claims : ~(Cardinality(S) > Limit),
           KnowledgeInv, OneVoice, [KnowledgeNext]_knowVars
    PROVE  OneVoice'
<1> SUFFICES ASSUME ~overlapped' PROVE OneVoice'
    BY DEF OneVoice
<1> USE KnowledgeAssumption
<1>0. KnowledgeTypeOK /\ AliasesLead /\ EntitiesResolved
    BY DEF KnowledgeInv
<1>1. ~overlapped
    BY DEF KnowledgeNext, Hear, InsertEntity, BindAlias, ListClaims, LookForEvidence,
           InsertEvidence, UpsertAgain, MarkOlder, RecordConflict, LookForClaim, WriteClaim,
           Relate, EndWriteBack, WriteBackEnds, knowVars
<1>2. \A w \in Processes : writer[w].at # "idle" => writer[w] \in Busy
    BY <1>0 DEF KnowledgeTypeOK, Idle
<1>3. /\ OneWriter /\ Undisputed /\ NamesApart
      /\ \A w \in Processes : NewName(w) /\ RivalsKnown(w)
    BY <1>1 DEF OneVoice
<1>4. ASSUME NEW w \in Processes, NEW m \in Messages, Hear(w, m) PROVE OneVoice'
  <2>1. /\ writer[w] = Idle /\ \A v \in Processes \ {w} : writer[v] = Idle
        /\ UNCHANGED <<entity, alias, claim>>
    BY <1>4 DEF Hear
  <2>2. PICK e \in Found(m.name) \cup (IF Found(m.name) = {} THEN {0} ELSE {}) :
           writer' = [writer EXCEPT ![w] =
               [at |-> IF e = 0 THEN "insert" ELSE "list", said |-> m, ent |-> e,
                known |-> FALSE, todo |-> {}, old |-> Idle]]
    BY <1>4 DEF Hear
  <2>3. writer'[w] = [at |-> IF e = 0 THEN "insert" ELSE "list", said |-> m, ent |-> e,
                      known |-> FALSE, todo |-> {}, old |-> Idle]
    BY <1>0, <2>2 DEF KnowledgeTypeOK
  <2>4. \A v \in Processes \ {w} : writer'[v].at = "idle"
    BY <1>0, <2>1, <2>2 DEF KnowledgeTypeOK, Idle
  <2>5. e = 0 => \A f \in Entities : entity[f] # m.name
    <3>1. m.name \in Names
      BY DEF Messages
    <3>2. e = 0 => Found(m.name) = {}
      BY <1>0, <3>1 DEF Found, KnowledgeTypeOK
    <3>3. Found(m.name) = {} => \A f \in Entities : entity[f] # m.name
      BY <1>0, <3>1 DEF Found, KnowledgeTypeOK
    <3> QED
      BY <3>2, <3>3
  <2>6. NewName(w)' /\ RivalsKnown(w)'
    BY <2>1, <2>3, <2>5 DEF NewName, RivalsKnown
  <2>7. \A v \in Processes \ {w} : NewName(v)' /\ RivalsKnown(v)'
    BY <2>4 DEF NewName, RivalsKnown
  <2>8. OneWriter'
    BY <2>4 DEF OneWriter
  <2> QED
    BY <1>3, <2>1, <2>6, <2>7, <2>8 DEF OneVoice, Undisputed, NamesApart
<1>5. ASSUME NEW w \in Processes, InsertEntity(w) PROVE OneVoice'
  <2>1. PICK e \in Entities :
           /\ entity[e] = NoName
           /\ entity' = [entity EXCEPT ![e] = writer[w].said.name]
           /\ writer' = [writer EXCEPT ![w].at = "bind", ![w].ent = e]
    BY <1>5 DEF InsertEntity
  <2>2. writer[w].at = "insert" /\ writer[w] \in Busy /\ claim' = claim
    BY <1>2, <1>5 DEF InsertEntity
  <2>3. writer'[w].at = "bind" /\ \A v \in Processes : v # w => writer'[v].at = "idle"
    <3>1. \A v \in Processes : v # w => writer[v].at = "idle"
      BY <1>3, <2>2 DEF OneWriter
    <3> QED
      BY <1>0, <2>1, <2>2, <3>1 DEF KnowledgeTypeOK, Busy
  <2>4. \A f \in Entities : entity[f] # writer[w].said.name
    BY <1>3, <2>2 DEF NewName
  <2>5. NamesApart'
    BY <1>0, <1>3, <2>1, <2>4 DEF NamesApart, KnowledgeTypeOK
  <2>6. \A v \in Processes : NewName(v)' /\ RivalsKnown(v)'
    BY <2>3 DEF NewName, RivalsKnown
  <2> QED
    BY <1>3, <2>2, <2>3, <2>5, <2>6 DEF OneVoice, OneWriter, Undisputed
<1>6. ASSUME NEW w \in Processes, NEW at \in {"list", "bind", "relate", "written"},
             writer[w] \in Busy, WriterAt(w, at), at # "insert",
             UNCHANGED <<entity, claim, overlapped>>
      PROVE  OneVoice'
  <2> DEFINE u == [writer[w] EXCEPT !.at = at]
  <2>1. u \in Busy /\ u.at = at
    BY <1>6 DEF Busy
  <2>2. writer' = [writer EXCEPT ![w] = u] /\ writer'[w] = u
    BY <1>0, <1>6 DEF WriterAt, KnowledgeTypeOK
  <2>3. writer[w].at # "idle"
    BY <1>6 DEF Busy
  <2> HIDE DEF u
  <2>4. NewName(w)' /\ RivalsKnown(w)'
    BY <2>1, <2>2 DEF NewName, RivalsKnown
  <2> QED
    BY <1>0, <1>1, <1>6, <2>1, <2>2, <2>3, <2>4, MovingOn
<1>7. ASSUME NEW w \in Processes, BindAlias(w) \/ Relate(w) PROVE OneVoice'
    BY <1>2, <1>6, <1>7 DEF BindAlias, Relate
<1>8. ASSUME NEW w \in Processes, writer[w].at # "idle", writer' = [writer EXCEPT ![w] = Idle],
             UNCHANGED <<entity, claim, overlapped>>
      PROVE  OneVoice'
  <2>1. writer'[w].at = "idle"
    BY <1>0, <1>8 DEF KnowledgeTypeOK, Idle
  <2>2. NewName(w)' /\ RivalsKnown(w)'
    BY <2>1 DEF NewName, RivalsKnown
  <2> QED
    BY <1>0, <1>1, <1>8, <2>2, MovingOn
<1>9. ASSUME NEW w \in Processes, EndWriteBack(w) \/ WriteBackEnds(w) PROVE OneVoice'
  <2>1. writer[w].at # "idle"
    BY <1>0, <1>9 DEF EndWriteBack, WriteBackEnds, KnowledgeTypeOK, Busy
  <2> QED
    BY <1>8, <1>9, <2>1 DEF EndWriteBack, WriteBackEnds
<1>10. ASSUME NEW w \in Processes, ListClaims(w) PROVE OneVoice'
  <2>1. ~(Cardinality(Active) > Limit)
    BY DEF Active
  <2>2. /\ writer[w].at = "list" /\ writer[w] \in Busy
        /\ writer' = [writer EXCEPT ![w].at = "look", ![w].todo = Rivals(w, Active)]
        /\ UNCHANGED <<entity, claim, overlapped>>
    BY <1>2, <1>10, <2>1 DEF ListClaims
  <2> DEFINE u == [writer[w] EXCEPT !.at = "look", !.todo = Rivals(w, Active)]
  <2>3. Rivals(w, Active) \subseteq Claims
    BY DEF Rivals, Active
  <2>4. u \in Busy
    BY <2>2, <2>3 DEF Busy
  <2>5. writer' = [writer EXCEPT ![w] = u] /\ writer'[w] = u
    BY <1>0, <2>2 DEF KnowledgeTypeOK
  <2>6. u.at = "look" /\ u.todo = Rivals(w, Active) /\ u.ent = writer[w].ent /\ u.said = writer[w].said
    BY <2>2 DEF Busy
  <2> HIDE DEF u
  <2>7. Said(w)' = Said(w)
    BY <2>5, <2>6 DEF Said
  <2>8. NewName(w)' /\ RivalsKnown(w)'
    BY <2>2, <2>5, <2>6, <2>7 DEF NewName, RivalsKnown, Rivals, Active
  <2> QED
    BY <1>0, <1>1, <2>2, <2>4, <2>5, <2>8, MovingOn
\* A writer that stays among the stages that mark, with the same rivals.
<1>11. ASSUME NEW w \in Processes, NEW u \in Busy,
              writer[w].at \in {"look", "cite", "again", "mark", "record"},
              writer' = [writer EXCEPT ![w] = u],
              u.at \in {"cite", "again", "mark", "record", "claim"},
              u.at = "claim" => u.todo = {},
              u.said = writer[w].said, u.ent = writer[w].ent, u.todo = writer[w].todo,
              UNCHANGED <<entity, claim, overlapped>>
       PROVE  OneVoice'
  <2>1. writer'[w] = u
    BY <1>0, <1>11 DEF KnowledgeTypeOK
  <2>2. Said(w)' = Said(w)
    BY <1>11, <2>1 DEF Said
  <2>3. NewName(w)' /\ RivalsKnown(w)'
    BY <1>3, <1>11, <2>1, <2>2 DEF NewName, RivalsKnown
  <2> QED
    BY <1>0, <1>1, <1>11, <2>3, MovingOn
<1>12. ASSUME NEW w \in Processes, NEW at \in {"again", "mark"},
              writer[w].at \in {"cite", "again", "record"}, WriterAt(w, at),
              UNCHANGED <<entity, claim, overlapped>>
       PROVE  OneVoice'
  <2> DEFINE u == [writer[w] EXCEPT !.at = at]
  <2>1. writer[w] \in Busy
    BY <1>2, <1>12
  <2>2. u \in Busy /\ u.at = at /\ u.said = writer[w].said /\ u.ent = writer[w].ent
        /\ u.todo = writer[w].todo /\ writer' = [writer EXCEPT ![w] = u]
    BY <1>0, <1>12, <2>1 DEF WriterAt, Busy, KnowledgeTypeOK
  <2> HIDE DEF u
  <2> QED
    BY <1>11, <1>12, <2>2
<1>13. ASSUME NEW w \in Processes, UpsertAgain(w) \/ RecordConflict(w) PROVE OneVoice'
    BY <1>12, <1>13 DEF UpsertAgain, RecordConflict
<1>14. ASSUME NEW w \in Processes, InsertEvidence(w) PROVE OneVoice'
    BY <1>8, <1>12, <1>14 DEF InsertEvidence, Cite, Degrade
<1>15. ASSUME NEW w \in Processes, NEW at \in {"cite", "claim"}, NEW b \in BOOLEAN,
              writer[w].at \in {"look", "mark"}, at = "claim" => writer[w].todo = {},
              writer' = [writer EXCEPT ![w].at = at, ![w].known = b],
              UNCHANGED <<entity, claim, overlapped>>
       PROVE  OneVoice'
  <2> DEFINE u == [writer[w] EXCEPT !.at = at, !.known = b]
  <2>1. writer[w] \in Busy
    BY <1>2, <1>15
  <2>2. u \in Busy
    BY <2>1, BusyKnows
  <2>3. u.at = at /\ u.said = writer[w].said /\ u.ent = writer[w].ent
        /\ u.todo = writer[w].todo /\ writer' = [writer EXCEPT ![w] = u]
    BY <1>0, <1>15, <2>1 DEF Busy, KnowledgeTypeOK
  <2> HIDE DEF u
  <2> QED
    BY ZenonT(40), <1>11, <1>15, <2>2, <2>3
<1>16. ASSUME NEW w \in Processes, LookForEvidence(w) PROVE OneVoice'
  <2>1. PICK b \in BOOLEAN : writer' = [writer EXCEPT ![w].at = "cite", ![w].known = b]
    <3>1. (writer[w].said \in evidence) \in BOOLEAN
      OBVIOUS
    <3> QED
      BY <1>16, <3>1 DEF LookForEvidence
  <2> QED
    BY <1>15, <1>16, <2>1 DEF LookForEvidence
<1>17. ASSUME NEW w \in Processes, LookForClaim(w) PROVE OneVoice'
  <2>1. PICK b \in BOOLEAN : writer' = [writer EXCEPT ![w].at = "claim", ![w].known = b]
    <3>1. (Said(w) \in Recorded) \in BOOLEAN
      OBVIOUS
    <3> QED
      BY <1>17, <3>1 DEF LookForClaim
  <2> QED
    BY <1>15, <1>17, <2>1 DEF LookForClaim
<1>18. ASSUME NEW w \in Processes, MarkOlder(w) PROVE OneVoice'
  <2>1. PICK c \in writer[w].todo :
           /\ claim' = [claim EXCEPT ![c] = Mark(c)]
           /\ writer' = [writer EXCEPT ![w].at = "record", ![w].old = c, ![w].todo = @ \ {c}]
    BY <1>18 DEF MarkOlder
  <2>2. writer[w].at = "mark" /\ writer[w] \in Busy /\ entity' = entity
    BY <1>2, <1>18 DEF MarkOlder
  <2>3. /\ writer'[w].at = "record" /\ writer'[w].todo = writer[w].todo \ {c}
        /\ writer'[w].said = writer[w].said /\ writer'[w].ent = writer[w].ent
        /\ \A v \in Processes : v # w => writer'[v] = writer[v]
    BY <1>0, <2>1, <2>2 DEF KnowledgeTypeOK, Busy
  <2>4. \A v \in Processes : v # w => writer[v].at = "idle"
    BY <1>3, <2>2 DEF OneWriter
  <2>5. c \in Claims
    BY <2>2 DEF Busy
  <2>6. \A d \in Claims : claim'[d] = "proposed" => d # c /\ claim[d] = "proposed"
    BY <1>0, <2>1, <2>5 DEF KnowledgeTypeOK, Mark
  <2>7. Said(w)' = Said(w)
    BY <2>3 DEF Said
  <2>8. NewName(w)' /\ RivalsKnown(w)'
    BY <1>3, <2>2, <2>3, <2>6, <2>7 DEF NewName, RivalsKnown
  <2>9. \A v \in Processes : v # w => NewName(v)' /\ RivalsKnown(v)'
    BY <2>3, <2>4 DEF NewName, RivalsKnown
  <2>10. OneWriter' /\ Undisputed' /\ NamesApart'
    BY <1>3, <2>2, <2>3, <2>4, <2>6 DEF OneWriter, Undisputed, NamesApart
  <2> QED
    BY <2>8, <2>9, <2>10 DEF OneVoice
<1>19. ASSUME NEW w \in Processes, WriteClaim(w) PROVE OneVoice'
  <2>1. writer[w].at = "claim" /\ writer[w] \in Busy /\ UNCHANGED <<entity, overlapped>>
    BY <1>2, <1>19 DEF WriteClaim
  <2>2. CASE claim' = claim /\ WriterAt(w, "relate")
    BY <1>6, <2>1, <2>2
  <2>3. CASE claim' = claim /\ Degrade(w)
    BY <1>8, <2>1, <2>3 DEF Degrade
  <2>4. CASE claim' = [claim EXCEPT ![Said(w)] = "proposed"] /\ WriterAt(w, "relate")
    <3>1. Said(w) \in Claims
      BY <1>0, <2>1 DEF Said, Claims, Busy, Messages, EntitiesResolved
    <3>2. \A c \in Claims : claim[c] = "proposed" => ~Contradict(c, Said(w))
      BY <1>3, <2>1 DEF RivalsKnown
    <3>3. \A c \in Claims : claim'[c] = "proposed" => c = Said(w) \/ claim[c] = "proposed"
      BY <1>0, <2>4 DEF KnowledgeTypeOK
    <3>4. Undisputed'
      <4> SUFFICES ASSUME NEW c \in Claims, NEW d \in Claims,
                          claim'[c] = "proposed", claim'[d] = "proposed", Contradict(c, d)
                   PROVE  FALSE
        BY DEF Undisputed
      <4>1. c # d /\ Contradict(d, c)
        BY DEF Contradict
      <4> QED
        BY <1>3, <3>2, <3>3, <4>1 DEF Undisputed
    <3>5. \A v \in Processes : v # w => writer[v].at = "idle" /\ writer'[v].at = "idle"
      BY <1>0, <1>3, <2>1, <2>4 DEF OneWriter, WriterAt, KnowledgeTypeOK
    <3>6. writer'[w].at = "relate"
      BY <1>0, <2>1, <2>4 DEF WriterAt, KnowledgeTypeOK, Busy
    <3>7. \A v \in Processes : NewName(v)' /\ RivalsKnown(v)'
      BY <3>5, <3>6 DEF NewName, RivalsKnown
    <3> QED
      BY <1>3, <2>1, <3>4, <3>5, <3>7 DEF OneVoice, OneWriter, NamesApart
  <2> QED
    BY <1>19, <2>2, <2>3, <2>4 DEF WriteClaim
<1>20. CASE UNCHANGED knowVars
    BY <1>20 DEF knowVars, OneVoice, OneWriter, Undisputed, NamesApart, NewName, RivalsKnown, Said
<1> QED
    BY <1>4, <1>5, <1>7, <1>9, <1>10, <1>13, <1>14, <1>16, <1>17, <1>18, <1>19, <1>20
       DEF KnowledgeNext

\* While turns follow one another the graph speaks with one voice: no two
\* active claims contradict each other undisputed, and a name has one entity,
\* wherever a write-back breaks off, as long as the user has no more claims
\* than a turn looks at.
THEOREM GraphIsConsistentHolds ==
    ASSUME \A S \in SUBSET Claims : ~(Cardinality(S) > Limit)
    PROVE  KnowledgeSpec => []GraphIsConsistent
<1>1. KnowledgeInit => OneVoice
    BY DEF KnowledgeInit, Idle, NoName, OneVoice, OneWriter, Undisputed, NamesApart, NewName,
           RivalsKnown
<1>2. KnowledgeInv /\ OneVoice /\ [KnowledgeNext]_knowVars => OneVoice'
    BY OneVoiceInductive
<1>3. OneVoice => GraphIsConsistent
    BY DEF OneVoice, Undisputed, NamesApart, GraphIsConsistent, NoSilentContradiction,
           OneEntityPerName, Active
<1> QED
    BY KnowledgeStarts, KnowledgeInductive, <1>1, <1>2, <1>3, PTL DEF KnowledgeSpec
===============================================================================
