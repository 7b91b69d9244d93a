---------------------------- MODULE KnowledgeClaims ----------------------------
(***************************************************************************)
(* What a turn leaves in the world knowledge of its user                   *)
(* (process_turn_knowledge in aihub/world_knowledge/engine.py, statements  *)
(* in store.py): entities and their aliases, evidence, claims, conflicts   *)
(* and relations.                                                          *)
(*                                                                         *)
(* Every statement is a transaction of its own, and nothing around them is *)
(* one: a turn may end between any two, by a crash or by an exception,     *)
(* which process_turn_knowledge swallows.  In one process the turns of a   *)
(* user follow each other, because the write-back has no await; writers    *)
(* that overlap are processes.                                             *)
(***************************************************************************)
EXTENDS Naturals, FiniteSets, FiniteSetsExt

CONSTANTS
    Processes,      \* the processes that write back turns of the user
    Names,          \* what messages are about
    Values,         \* what they say of it
    Limit,          \* how many active claims a turn looks at (30)
    Statements,     \* bound on the turns
    Entities        \* bound on the rows of wk_entities, a set of numbers

ASSUME KnowledgeAssumption ==
    /\ Entities \subseteq Nat \ {0}
    /\ "none" \notin Names
    /\ Statements \in Nat

VARIABLES
    entity,         \* wk_entities: the name of each row
    alias,          \* wk_entity_aliases: the entity of each name, or 0
    evidence,       \* wk_evidence: the messages on record
    claim,          \* wk_claims: the status of each claim
    conflict,       \* wk_conflicts: the claims with an open conflict
    relation,       \* wk_relations: the claim of each relation
    writer,         \* where each writer is
    turns,          \* how many turns have been written back
    overlapped      \* history: two turns have been written back at once

knowVars == <<entity, alias, evidence, claim, conflict, relation, writer,
              turns, overlapped>>

\* "is" stands for is and deployed_on, whose value changes with time;
\* "mentions" for a message in which only its subject was recognised.
Predicates == {"is", "mentions"}
Temporal == {"is"}

Messages == [name: Names, pred: Predicates, value: Values]
Claims == [entity: Entities, pred: Predicates, value: Values]

NoName == "none"
Idle == [at |-> "idle"]

\* What a writer knows in the middle of a write-back.
Busy == [at: {"insert", "bind", "list", "look", "cite", "again", "mark", "record",
              "claim", "relate", "written"},
         said: Messages, ent: Entities \cup {0}, known: BOOLEAN,
         todo: SUBSET Claims, old: {Idle} \cup Claims]

\* The claims that list_active_claims returns.
Active == {c \in Claims : claim[c] \in {"proposed", "disputed"}}
Recorded == {c \in Claims : claim[c] # "none"}

KnowledgeInit ==
    /\ entity = [e \in Entities |-> NoName]
    /\ alias = [n \in Names |-> 0]
    /\ evidence = {} /\ conflict = {} /\ relation = {}
    /\ claim = [c \in Claims |-> "none"]
    /\ writer = [w \in Processes |-> Idle]
    /\ turns = 0 /\ overlapped = FALSE

---------------------------------------------------------------------------
(***************************************************************************)
(* A turn's write-back.  The fields of a busy writer: said is the message; *)
(* ent the entity it resolved; known the answer of its last look-up; todo  *)
(* the older claims it contradicts; old the one just marked.               *)
(***************************************************************************)
WriterAt(w, at) == writer' = [writer EXCEPT ![w].at = at]

\* An exception: the turn goes on without the rest of its knowledge.
Degrade(w) == writer' = [writer EXCEPT ![w] = Idle]

\* A variant of Found that asks the aliases alone.
FoundByAlias(n) == {alias[n]} \ {0}

\* find_entity_by_alias and the search by name after it: the entity that the
\* alias is bound to, else any row of that name.
Found(n) ==
    IF alias[n] # 0 THEN {alias[n]} ELSE {e \in Entities : entity[e] = n}

\* extract_candidates_from_message starts by looking for its subject.  It
\* inserts a row in a statement of its own: two processes may both do so.
Hear(w, m) ==
    /\ writer[w] = Idle /\ turns < Statements
    /\ turns' = turns + 1
    /\ overlapped' = (overlapped \/ \E v \in Processes \ {w} : writer[v] # Idle)
    /\ \E e \in Found(m.name) \cup (IF Found(m.name) = {} THEN {0} ELSE {}) :
          writer' = [writer EXCEPT ![w] =
                       [at |-> IF e = 0 THEN "insert" ELSE "list",
                        said |-> m, ent |-> e, known |-> FALSE,
                        todo |-> {}, old |-> Idle]]
    /\ UNCHANGED <<entity, alias, evidence, claim, conflict, relation>>

InsertEntity(w) ==
    /\ writer[w].at = "insert"
    /\ \E e \in {e \in Entities : entity[e] = NoName} :
          /\ entity' = [entity EXCEPT ![e] = writer[w].said.name]
          /\ writer' = [writer EXCEPT ![w].at = "bind", ![w].ent = e]
    /\ UNCHANGED <<alias, evidence, claim, conflict, relation, turns, overlapped>>

\* upsert_entity binds the name, unless it is bound: the index is unique, and
\* the error is ignored.
BindName(w) ==
    LET n == writer[w].said.name
    IN  alias' = IF alias[n] = 0 THEN [alias EXCEPT ![n] = writer[w].ent] ELSE alias

BindAlias(w) ==
    /\ writer[w].at = "bind"
    /\ BindName(w)
    /\ WriterAt(w, "list")
    /\ UNCHANGED <<entity, evidence, claim, conflict, relation, turns, overlapped>>

\* The claim that the message makes.
Said(w) == [entity |-> writer[w].ent, pred |-> writer[w].said.pred,
            value |-> writer[w].said.value]

Contradict(c, d) == c.entity = d.entity /\ c.pred = d.pred /\ c.value # d.value

\* The claims detect_claim_conflicts will find in what list_active_claims
\* returned: same subject, same predicate, another value.
Rivals(w, listed) == {c \in listed : Contradict(c, Said(w))}

\* list_active_claims orders by confidence, which is not modelled.
ListClaims(w) ==
    /\ writer[w].at = "list"
    /\ \E listed \in (IF Cardinality(Active) > Limit THEN kSubset(Limit, Active)
                      ELSE {Active}) :
          writer' = [writer EXCEPT ![w].at = "look", ![w].todo = Rivals(w, listed)]
    /\ UNCHANGED <<entity, alias, evidence, claim, conflict, relation, turns, overlapped>>

---------------------------------------------------------------------------
(***************************************************************************)
(* The statements of process_turn_knowledge that write.                    *)
(***************************************************************************)
LookForEvidence(w) ==
    /\ writer[w].at = "look"
    /\ writer' = [writer EXCEPT ![w].at = "cite", ![w].known = writer[w].said \in evidence]
    /\ UNCHANGED <<entity, alias, evidence, claim, conflict, relation, turns, overlapped>>

\* A variant of Cite that leaves the evidence for the end.
CiteNothing(w) == WriterAt(w, "again") /\ UNCHANGED evidence

\* upsert_evidence.  The index over the hash is unique: a row that another
\* process inserted since the look-up is an exception.
Cite(w) ==
    IF writer[w].known \/ writer[w].said \notin evidence
    THEN evidence' = evidence \cup {writer[w].said} /\ WriterAt(w, "again")
    ELSE Degrade(w) /\ UNCHANGED evidence

InsertEvidence(w) ==
    /\ writer[w].at = "cite"
    /\ Cite(w)
    /\ UNCHANGED <<entity, alias, claim, conflict, relation, turns, overlapped>>

\* upsert_entity again, which rewrites the row and binds a name that a crash
\* had left unbound.
UpsertAgain(w) ==
    /\ writer[w].at = "again"
    /\ BindName(w)
    /\ WriterAt(w, "mark")
    /\ UNCHANGED <<entity, evidence, claim, conflict, relation, turns, overlapped>>

\* What a contradicted claim becomes.
Mark(c) == IF c.pred \in Temporal THEN "superseded" ELSE "disputed"

\* detect_claim_conflicts writes the status of the older claim, whatever it
\* is by now ...
MarkOlder(w) ==
    /\ writer[w].at = "mark"
    /\ \E c \in writer[w].todo :
          /\ claim' = [claim EXCEPT ![c] = Mark(c)]
          /\ writer' = [writer EXCEPT ![w].at = "record", ![w].old = c,
                                      ![w].todo = @ \ {c}]
    /\ UNCHANGED <<entity, alias, evidence, conflict, relation, turns, overlapped>>

\* ... and then the conflict, which a temporal update resolves at once.
RecordConflict(w) ==
    /\ writer[w].at = "record"
    /\ conflict' = conflict \cup
          (IF writer[w].old.pred \in Temporal THEN {} ELSE {writer[w].old})
    /\ WriterAt(w, "mark")
    /\ UNCHANGED <<entity, alias, evidence, claim, relation, turns, overlapped>>

\* upsert_claim looks for a claim of the same hash.
LookForClaim(w) ==
    /\ writer[w].at = "mark" /\ writer[w].todo = {}
    /\ writer' = [writer EXCEPT ![w].at = "claim",
                                ![w].known = Said(w) \in Recorded]
    /\ UNCHANGED <<entity, alias, evidence, claim, conflict, relation, turns, overlapped>>

\* A claim that is on record is reinforced, its status left as it is; a new
\* one is inserted, unless another process has just done so.
WriteClaim(w) ==
    /\ writer[w].at = "claim"
    /\ \/ /\ writer[w].known
          /\ WriterAt(w, "relate") /\ UNCHANGED claim
       \/ /\ ~writer[w].known /\ Said(w) \notin Recorded
          /\ claim' = [claim EXCEPT ![Said(w)] = "proposed"]
          /\ WriterAt(w, "relate")
       \/ /\ ~writer[w].known /\ Said(w) \in Recorded
          /\ Degrade(w) /\ UNCHANGED claim
    /\ UNCHANGED <<entity, alias, evidence, conflict, relation, turns, overlapped>>

\* upsert_relation, of the messages that have an object.
Relate(w) ==
    /\ writer[w].at = "relate"
    /\ relation' = relation \cup {c \in {Said(w)} : c.pred \in Temporal}
    /\ WriterAt(w, "written")
    /\ UNCHANGED <<entity, alias, evidence, claim, conflict, turns, overlapped>>

EndWriteBack(w) ==
    /\ writer[w].at = "written"
    /\ writer' = [writer EXCEPT ![w] = Idle]
    /\ UNCHANGED <<entity, alias, evidence, claim, conflict, relation, turns, overlapped>>

\* The process dies, or a statement raises.
WriteBackEnds(w) ==
    /\ writer[w] # Idle
    /\ writer' = [writer EXCEPT ![w] = Idle]
    /\ UNCHANGED <<entity, alias, evidence, claim, conflict, relation, turns, overlapped>>

KnowledgeNext ==
    \E w \in Processes :
        \/ \E m \in Messages : Hear(w, m)
        \/ InsertEntity(w)
        \/ BindAlias(w)
        \/ ListClaims(w)
        \/ LookForEvidence(w)
        \/ InsertEvidence(w)
        \/ UpsertAgain(w)
        \/ MarkOlder(w)
        \/ RecordConflict(w)
        \/ LookForClaim(w)
        \/ WriteClaim(w)
        \/ Relate(w)
        \/ EndWriteBack(w)
        \/ WriteBackEnds(w)

KnowledgeSpec == KnowledgeInit /\ [][KnowledgeNext]_knowVars

---------------------------------------------------------------------------
(***************************************************************************)
(* Properties                                                              *)
(***************************************************************************)
\* The tables and the writers have the shape their code gives them.
KnowledgeTypeOK ==
    /\ entity \in [Entities -> Names \cup {NoName}]
    /\ alias \in [Names -> Entities \cup {0}]
    /\ evidence \subseteq Messages
    /\ claim \in [Claims -> {"none", "proposed", "disputed", "superseded"}]
    /\ conflict \subseteq Claims
    /\ relation \subseteq Claims
    /\ writer \in [Processes -> {Idle} \cup Busy]
    /\ turns \in 0 .. Statements
    /\ overlapped \in BOOLEAN

\* As long as turns do not overlap, two active claims that contradict each
\* other are never both undisputed, wherever a write-back broke off: what is
\* shown to the model as the user's facts has its contradictions marked
\* (process_turn_knowledge, detect_claim_conflicts).
NoSilentContradiction ==
    ~overlapped =>
        \A c, d \in Active :
            Contradict(c, d) => "disputed" \in {claim[c], claim[d]}

\* As long as turns do not overlap, a name has one entity, also when the
\* write-back broke off before it bound the alias (resolve_or_create_entity).
OneEntityPerName ==
    ~overlapped =>
        \A e, f \in Entities :
            (entity[e] # NoName /\ entity[e] = entity[f]) => e = f

\* Every claim cites evidence that is on record, of the same name as its
\* entity, and every relation is backed by a claim: whatever breaks off or
\* overlaps, the graph never holds what nobody said (upsert_evidence before
\* upsert_claim before upsert_relation).
KnowledgeIsBacked ==
    /\ \A c \in Recorded :
          [name |-> entity[c.entity], pred |-> c.pred, value |-> c.value] \in evidence
    /\ relation \subseteq Recorded

\* An open conflict is always visible on its claim as well: the claim is
\* disputed, so that apply_knowledge_influences_to_decision lowers confidence.
ConflictIsMarked == \A c \in conflict : claim[c] = "disputed"

\* The graph can be traced: each claim to its evidence, each open conflict to
\* the claim it disputes.
GraphIsTraceable == KnowledgeTypeOK /\ KnowledgeIsBacked /\ ConflictIsMarked

\* While turns follow one another the graph speaks with one voice, wherever a
\* write-back breaks off.
GraphIsConsistent == NoSilentContradiction /\ OneEntityPerName

\* What the user said last is what is known: at the end of a write-back that
\* nothing overlapped, its claim is among the active ones
\* ("Temporal supersession przy zmianie wartosci",
\* 17.07-evidence-knowledge-autonomy.md:70).
LastWordStands ==
    ~overlapped => \A w \in Processes : writer[w].at = "written" => Said(w) \in Active
===============================================================================
