-------------------------- MODULE KnowledgeCitations --------------------------
(***************************************************************************)
(* The evidence tables of migration 0008 under concurrent transactions.    *)
(* An owner is a row that needs evidence: a draft candidate, a draft       *)
(* relation, a record version or a relation.  Citations tie owners to      *)
(* content parts.  Nothing in the database is refused while a transaction  *)
(* writes; the constraint triggers run when it commits, one for each row   *)
(* it touched, and each of them locks the owner before it looks.           *)
(*                                                                         *)
(* Any client of the schema may run any statement.  Of PostgreSQL the      *)
(* model has what the triggers lean on: READ COMMITTED (each statement of  *)
(* a trigger sees what is committed by then), the key-share lock a foreign *)
(* key takes on the row it refers to, row locks of UPDATE, DELETE and FOR  *)
(* UPDATE, unique indexes that wait for the open transaction that holds a  *)
(* key, and the deadlock detector.  A statement that would raise is left   *)
(* out: its transaction can only roll back, which it may do anyway.        *)
(***************************************************************************)
EXTENDS Naturals, FiniteSets

CONSTANTS
  Txns,           \* database sessions
  Drafts,         \* draft candidates and draft relations
  Published,      \* record versions and relations
  Parts,          \* content parts
  Project,        \* the project of each owner and part
  Ends,           \* the owners an owner refers to: a draft relation's candidates
  Misplaced,      \* owners with an endpoint outside their draft set or project
  Edition,        \* record and number of each record version
  InitialOwners,  \* the rows there are at first
  InitialCites,
  TxnBound,       \* bound: transactions begun
  StatementBound  \* bound: statements of one transaction

Owners == Drafts \cup Published
Cites  == Owners \X Parts
Cited(o, rows) == {p \in Parts : <<o, p>> \in rows}

ASSUME KnowledgeAssumption ==
  /\ Drafts \cap Published = {}
  /\ DOMAIN Project = Owners \cup Parts
  /\ Ends \in [Owners -> SUBSET Owners]
  /\ DOMAIN Edition \subseteq Published
  /\ TxnBound \in Nat /\ StatementBound \in Nat
  /\ InitialOwners \subseteq Owners /\ InitialCites \subseteq Cites
  /\ \A row \in InitialCites : row[1] \in InitialOwners
  /\ \A o \in InitialOwners :
       /\ Cited(o, InitialCites) # {} /\ o \notin Misplaced /\ Ends[o] \subseteq InitialOwners
       /\ \A p \in Cited(o, InitialCites) : Project[p] = Project[o]
  /\ \A o, q \in InitialOwners \cap (DOMAIN Edition) : Edition[o] = Edition[q] => o = q

VARIABLES
  owners,  \* the committed rows of the four owner tables
  cites,   \* the committed rows of the four citation tables
  links,   \* the committed supersessions, predecessor first
  txn,     \* what each session has done since it began, and its locks
  begun    \* transactions begun so far

vars == <<owners, cites, links, txn, begun>>

Links == (DOMAIN Edition) \X (DOMAIN Edition)
Transaction ==
  [phase: {"idle", "open", "cascading", "committing"}, statements: Nat,
   added: SUBSET Owners, removed: SUBSET Drafts,
   cited: SUBSET Cites, uncited: SUBSET (Drafts \X Parts), linked: SUBSET Links,
   shares: SUBSET Owners,  \* rows key-share locked by a foreign key
   locks: SUBSET Owners,   \* rows locked by a trigger's FOR UPDATE
   due: SUBSET Owners]     \* owners whose triggers have not run
Idle == [phase |-> "idle", statements |-> 0, added |-> {}, removed |-> {}, cited |-> {},
         uncited |-> {}, linked |-> {}, shares |-> {}, locks |-> {}, due |-> {}]

Init ==
  /\ owners = InitialOwners /\ cites = InitialCites /\ links = {}
  /\ txn = [t \in Txns |-> Idle]
  /\ begun = 0

-----------------------------------------------------------------------------
(* What a transaction sees and what it waits for.                          *)

OwnersSeen(t) == (owners \cup txn[t].added) \ txn[t].removed
CitesSeen(t)  == (cites \ txn[t].uncited) \cup txn[t].cited
LinksSeen(t)  == links \cup txn[t].linked

Others(t) == Txns \ {t}
Exclusive(u) == txn[u].removed \cup txn[u].locks

\* A foreign key waits for those who delete or lock the row it refers to.
MayShare(t, o) == \A u \in Others(t) : o \notin Exclusive(u)

\* Mutant: all owners of a project are serialized, not each owner.
HoldsProject(u, o) ==
  \E q \in Exclusive(u) \cup txn[u].shares : Project[q] = Project[o]

\* u has some lock on o's row.
Holds(u, o) == o \in Exclusive(u) \cup txn[u].shares

\* Mutant: the triggers look without locking the owner.
MayLockAlways(t, o) == TRUE

\* FOR UPDATE waits for every other lock, those of foreign keys included.
MayLock(t, o) == \A u \in Others(t) : ~Holds(u, o)

\* A row of a citation table that another transaction writes.
RowFree(t, row) == \A u \in Others(t) : row \notin txn[u].cited \cup txn[u].uncited

\* A new version's number, or a link's two ends, against the unique indexes.
EditionFree(t, o) == o \in DOMAIN Edition =>
  \A u \in Txns : \A q \in OwnersSeen(u) \cap (DOMAIN Edition) : Edition[q] # Edition[o]

\* Mutant: a version may have two successors.
LinkFreeOneSided(t, v, w) == \A u \in Txns : \A l \in LinksSeen(u) : l[2] # w

LinkFree(t, v, w) == \A u \in Txns : \A l \in LinksSeen(u) : l[1] # v /\ l[2] # w

-----------------------------------------------------------------------------
(* Statements.                                                             *)

Ready(t) ==
  /\ txn[t].statements < StatementBound
  /\ \/ txn[t].phase = "open"
     \/ txn[t].phase = "idle" /\ begun < TxnBound

\* The effect of a statement on its own transaction.
Does(t, new) ==
  /\ txn' = [txn EXCEPT ![t] = [new EXCEPT !.statements = txn[t].statements + 1]]
  /\ begun' = begun + (IF txn[t].phase = "idle" THEN 1 ELSE 0)
  /\ UNCHANGED <<owners, cites, links>>

\* An owner is inserted; its citations are statements of their own.
AddOwner(t, o) ==
  /\ Ready(t)
  /\ o \notin owners /\ \A u \in Txns : o \notin txn[u].added
  /\ EditionFree(t, o)
  /\ Ends[o] \subseteq OwnersSeen(t) /\ \A e \in Ends[o] : MayShare(t, e)
  /\ Does(t, [txn[t] EXCEPT !.phase = "open", !.added = @ \cup {o}, !.due = @ \cup {o},
                            !.shares = @ \cup Ends[o]])

\* Evidence is added to a row that exists, a published one too.
Cite(t, o, p) ==
  /\ Ready(t)
  /\ o \in OwnersSeen(t) /\ MayShare(t, o)
  /\ <<o, p>> \notin CitesSeen(t) /\ RowFree(t, <<o, p>>)
  /\ Does(t, [txn[t] EXCEPT !.phase = "open", !.cited = @ \cup {<<o, p>>},
                            !.shares = @ \cup {o}, !.due = @ \cup {o}])

\* Evidence of a draft is deleted; that of published rows is append-only.
Uncite(t, o, p) ==
  /\ Ready(t)
  /\ o \in Drafts
  /\ <<o, p>> \in CitesSeen(t) /\ RowFree(t, <<o, p>>)
  /\ Does(t, [txn[t] EXCEPT !.phase = "open", !.cited = @ \ {<<o, p>>},
                            !.uncited = @ \cup ({<<o, p>>} \cap cites), !.due = @ \cup {o}])

\* Mutant: the project trigger does not fire on UPDATE.
ReciteUnchecked(t, o, p, q) ==
  /\ Ready(t)
  /\ o \in Drafts
  /\ <<o, p>> \in CitesSeen(t) /\ RowFree(t, <<o, p>>)
  /\ <<o, q>> \notin CitesSeen(t) /\ RowFree(t, <<o, q>>)
  /\ Does(t, [txn[t] EXCEPT !.phase = "open", !.cited = (@ \ {<<o, p>>}) \cup {<<o, q>>},
                            !.uncited = @ \cup ({<<o, p>>} \cap cites)])

\* A citation of a draft is pointed at another part; its owner cannot change.
Recite(t, o, p, q) ==
  /\ Ready(t)
  /\ o \in Drafts
  /\ <<o, p>> \in CitesSeen(t) /\ RowFree(t, <<o, p>>)
  /\ <<o, q>> \notin CitesSeen(t) /\ RowFree(t, <<o, q>>)
  /\ Does(t, [txn[t] EXCEPT !.phase = "open", !.cited = (@ \ {<<o, p>>}) \cup {<<o, q>>},
                            !.uncited = @ \cup ({<<o, p>>} \cap cites), !.due = @ \cup {o}])

\* A draft is deleted, which no relation may refer to; its citations follow.
Remove(t, o) ==
  /\ Ready(t)
  /\ o \in Drafts \cap OwnersSeen(t) /\ MayLock(t, o)
  /\ \A r \in OwnersSeen(t) : o \notin Ends[r]
  /\ Does(t, [txn[t] EXCEPT !.phase = "cascading", !.removed = @ \cup {o}])

\* Mutant: the foreign key does not cascade.
OrphansKept(t) == {}

\* The citations ON DELETE CASCADE takes along.
Orphans(t) == {row \in CitesSeen(t) : row[1] \notin OwnersSeen(t)}

\* Their owners.
Deprived(t) == {row[1] : row \in Orphans(t)}

\* The cascade waits for whoever writes one of those citations.
Cascade(t) ==
  /\ txn[t].phase = "cascading"
  /\ \A row \in Orphans(t) : RowFree(t, row)
  /\ txn' = [txn EXCEPT ![t] =
       [txn[t] EXCEPT !.phase = "open", !.cited = @ \ Orphans(t),
                 !.uncited = @ \cup (Orphans(t) \cap cites),
                 !.due = @ \cup Deprived(t)]]
  /\ UNCHANGED <<owners, cites, links, begun>>

\* Record version w is declared the successor of v.
Supersede(t, v, w) ==
  /\ Ready(t)
  /\ v # w /\ {v, w} \subseteq OwnersSeen(t)
  /\ MayShare(t, v) /\ MayShare(t, w)
  /\ LinkFree(t, v, w)
  /\ Does(t, [txn[t] EXCEPT !.phase = "open", !.linked = @ \cup {<<v, w>>},
                            !.shares = @ \cup {v, w}])

-----------------------------------------------------------------------------
(* The deferred triggers.                                                  *)

StartCommit(t) ==
  /\ txn[t].phase = "open"
  /\ txn' = [txn EXCEPT ![t].phase = "committing"]
  /\ UNCHANGED <<owners, cites, links, begun>>

\* validate_knowledge_citation, validate_knowledge_citation_presence and, for
\* an owner of its own, validate_knowledge_owner: that one asks for evidence
\* even when the transaction has deleted the owner again.
Valid(t, o) == o \in OwnersSeen(t) \cup txn[t].added =>
  /\ Cited(o, CitesSeen(t)) # {}
  /\ \A p \in Cited(o, CitesSeen(t)) : Project[p] = Project[o]
  /\ o \in txn[t].added => o \notin Misplaced

\* The triggers of one owner pass.
CheckOwner(t, o) ==
  /\ txn[t].phase = "committing"
  /\ o \in txn[t].due /\ MayLock(t, o)
  /\ Valid(t, o)
  /\ txn' = [txn EXCEPT ![t] = [txn[t] EXCEPT !.due = @ \ {o}, !.locks = @ \cup {o}]]
  /\ UNCHANGED <<owners, cites, links, begun>>

RollsBack(t) == txn' = [txn EXCEPT ![t] = Idle] /\ UNCHANGED <<owners, cites, links, begun>>

\* One of them raises: the commit fails.
RejectOwner(t, o) ==
  /\ txn[t].phase = "committing"
  /\ o \in txn[t].due /\ MayLock(t, o)
  /\ ~Valid(t, o)
  /\ RollsBack(t)

\* A supersession links a later version of the same record.
Later(v, w) ==
  Edition[v].record = Edition[w].record /\ Edition[v].number < Edition[w].number

RejectLink(t) ==
  /\ txn[t].phase = "committing"
  /\ \E l \in txn[t].linked : ~Later(l[1], l[2])
  /\ RollsBack(t)

Commit(t) ==
  /\ txn[t].phase = "committing" /\ txn[t].due = {}
  /\ \A l \in txn[t].linked : Later(l[1], l[2])
  /\ owners' = OwnersSeen(t) /\ cites' = CitesSeen(t) /\ links' = LinksSeen(t)
  /\ txn' = [txn EXCEPT ![t] = Idle]
  /\ UNCHANGED begun

\* The client gives up, a statement or the connection fails, or PostgreSQL ends
\* a deadlock.
Rollback(t) == txn[t].phase # "idle" /\ RollsBack(t)

-----------------------------------------------------------------------------
(* Waiting.                                                                *)

WaitsFor(t, u) == u # t /\
  \/ /\ txn[t].phase = "committing"
     /\ \E o \in txn[t].due : Holds(u, o)
  \/ /\ txn[t].phase = "cascading"
     /\ \E row \in Orphans(t) : row \in txn[u].cited \cup txn[u].uncited

\* What a commit runs.
Triggers(t) == \/ RejectLink(t) \/ Commit(t)
               \/ \E o \in txn[t].due : CheckOwner(t, o) \/ RejectOwner(t, o)

Statement(t) ==
  \/ \E o \in Owners :
       \/ AddOwner(t, o)
       \/ \E p \in Parts : Cite(t, o, p) \/ Uncite(t, o, p) \/ \E q \in Parts : Recite(t, o, p, q)
       \/ Remove(t, o)
  \/ \E v, w \in DOMAIN Edition : Supersede(t, v, w)

Next == \E t \in Txns :
  Statement(t) \/ Cascade(t) \/ StartCommit(t) \/ Triggers(t) \/ Rollback(t)

Spec == Init /\ [][Next]_vars

-----------------------------------------------------------------------------
(* Properties.                                                             *)

TypeOK ==
  /\ owners \subseteq Owners /\ cites \subseteq Cites /\ links \subseteq Links
  /\ txn \in [Txns -> Transaction]
  /\ begun \in 0 .. TxnBound

\* No committed candidate, relation or version is without evidence, although
\* two transactions may each delete the citation the other one counted on.
EveryOwnerCited == \A o \in owners : Cited(o, cites) # {}

\* Evidence never crosses projects, whichever statement brought it there.
EvidenceStaysHome == \A row \in cites : Project[row[2]] = Project[row[1]]

\* Rows refer to rows that exist: a citation to its owner, a draft relation to
\* its candidates, a supersession to its versions.
NothingDangles ==
  /\ \A row \in cites : row[1] \in owners
  /\ \A o \in owners : Ends[o] \subseteq owners
  /\ \A l \in links : {l[1], l[2]} \subseteq owners

\* The versions of a record and their supersessions form rising chains: no two
\* writers publish one number, give a version two successors or a successor
\* two predecessors, and no chain leads back.
HistoryIsAChain ==
  /\ \A v, w \in owners \cap (DOMAIN Edition) : Edition[v] = Edition[w] => v = w
  /\ \A l, m \in links : l[1] = m[1] \/ l[2] = m[2] => l = m
  /\ \A l \in links : Later(l[1], l[2])

\* A commit that only has owners of its own to check, as extraction's has,
\* waits for nobody, so no deadlock can make it fail.
OwnWorkNeverWaits == \A t \in Txns :
  txn[t].phase = "committing" /\ txn[t].due \cup txn[t].locks \subseteq txn[t].added =>
    \A u \in Txns : ~WaitsFor(t, u)

\* What is published stays, and so does its evidence.
PublishedOnlyGrows == [][
  /\ owners \cap Published \subseteq owners'
  /\ {row \in cites : row[1] \in Published} \subseteq cites'
  /\ links \subseteq links']_vars
===============================================================================
