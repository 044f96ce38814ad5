----------------------- MODULE KnowledgeCitationsProofs -----------------------
(* What the constraint triggers of migration 0008 guarantee for any number of *)
(* sessions, owners and parts.  The inductive invariant is that a committing  *)
(* transaction has locked whatever it has checked and that its checks still   *)
(* hold: nobody else can commit a change of a locked owner's evidence.        *)
EXTENDS KnowledgeCitations, TLAPS

\* Whose evidence a transaction touched is still to be checked or locked, and
\* it has added that owner, refers to it or deletes a committed row of it.
Watched(r) ==
  /\ \A row \in r.cited \cup r.uncited : row[1] \in r.due \cup r.locks
  /\ r.added \subseteq r.due \cup r.locks
Anchored(r) == \A o \in r.due \cup r.locks :
  o \in r.added \cup r.shares \/ \E row \in r.uncited : row[1] = o

\* What is true of each transaction and the committed rows.
Own(t) ==
  /\ Watched(txn[t]) /\ Anchored(txn[t])
  /\ txn[t].phase # "committing" => txn[t].locks = {}
  /\ \A o \in txn[t].locks : Valid(t, o)
  /\ txn[t].uncited \subseteq cites
  /\ txn[t].added \cap owners = {}
  /\ txn[t].removed \cup txn[t].shares \subseteq owners \cup txn[t].added
  /\ txn[t].phase # "cascading" => \A row \in CitesSeen(t) : row[1] \in OwnersSeen(t)
  /\ \A o \in OwnersSeen(t) : Ends[o] \subseteq OwnersSeen(t)
  /\ \A o \in txn[t].added : Ends[o] \subseteq txn[t].shares
  /\ \A l \in txn[t].linked : {l[1], l[2]} \subseteq owners \cup txn[t].added

\* What the locks and the unique indexes keep apart.
Apart(t, u) ==
  /\ txn[t].added \cap txn[u].added = {}
  /\ txn[t].uncited \cap txn[u].uncited = {}
  /\ txn[t].removed \cap txn[u].removed = {}
  /\ txn[t].shares \cap txn[u].removed = {}
  /\ txn[t].locks \cap txn[u].locks = {}

\* No two numbers, successors or predecessors alike in what any two see.
OneHistory(t, u) ==
  /\ \A v \in OwnersSeen(t) \cap (DOMAIN Edition), w \in OwnersSeen(u) \cap (DOMAIN Edition) :
       Edition[v] = Edition[w] => v = w
  /\ \A l \in LinksSeen(t), m \in LinksSeen(u) : l[1] = m[1] \/ l[2] = m[2] => l = m

Committed == EveryOwnerCited /\ EvidenceStaysHome /\ NothingDangles /\ HistoryIsAChain

CitationsInv ==
  /\ TypeOK
  /\ Committed
  /\ \A t \in Txns : Own(t)
  /\ \A t \in Txns : \A u \in Txns \ {t} : Apart(t, u)
  /\ \A t, u \in Txns : OneHistory(t, u)

-----------------------------------------------------------------------------
(* Types.                                                                    *)

\* What a transaction sees and what a deletion takes along have their types.
LEMMA SeenTyped ==
  ASSUME TypeOK, NEW t \in Txns
  PROVE  /\ OwnersSeen(t) \in SUBSET Owners
         /\ CitesSeen(t) \in SUBSET Cites
         /\ LinksSeen(t) \in SUBSET Links
         /\ Orphans(t) \in SUBSET Cites
         /\ Deprived(t) \in SUBSET Owners
BY DEF TypeOK, OwnersSeen, CitesSeen, LinksSeen, Orphans, Deprived, Cites, Transaction

\* Idle is a transaction that has done nothing.
LEMMA IdleTyped == Idle \in Transaction
BY DEF Idle, Transaction

\* Drafts and published rows are owners, and no draft is published.
LEMMA Kinds ==
  /\ Drafts \subseteq Owners /\ Drafts \cap (DOMAIN Edition) = {}
  /\ Drafts \X Parts \subseteq Cites /\ DOMAIN Edition \subseteq Owners
  /\ \A o \in Owners : Ends[o] \in SUBSET Owners
BY KnowledgeAssumption DEF Owners, Cites

\* A statement leaves well-typed transactions when its effect is one.
LEMMA DoesTyped ==
  ASSUME TypeOK, NEW t \in Txns, NEW new \in Transaction, Ready(t), Does(t, new)
  PROVE  TypeOK'
<1>1. txn[t].statements \in Nat /\ begun \in 0 .. TxnBound /\ TxnBound \in Nat
  BY KnowledgeAssumption DEF TypeOK, Transaction
<1>2. [new EXCEPT !.statements = txn[t].statements + 1] \in Transaction
  BY <1>1 DEF Transaction
<1>3. begun' \in 0 .. TxnBound
  BY <1>1 DEF Ready, Does
<1> QED BY <1>2, <1>3 DEF Does, TypeOK

\* Every statement has a well-typed effect.
LEMMA StatementTyped ==
  ASSUME TypeOK, NEW t \in Txns, Statement(t)
  PROVE  TypeOK'
<1>1. txn[t] \in Transaction /\ Ready(t)
  BY DEF TypeOK, Statement, AddOwner, Cite, Uncite, Recite, Remove, Supersede
<1>2. ASSUME NEW o \in Owners, AddOwner(t, o)
      PROVE  TypeOK'
  <2> DEFINE new == [txn[t] EXCEPT !.phase = "open", !.added = @ \cup {o}, !.due = @ \cup {o},
                              !.shares = @ \cup Ends[o]]
  <2>1. new \in Transaction
    BY <1>1, Kinds DEF Transaction
  <2>2. Does(t, new)
    BY <1>2 DEF AddOwner
  <2> HIDE DEF new
  <2> QED BY <1>1, <2>1, <2>2, DoesTyped
<1>3. ASSUME NEW o \in Owners, NEW p \in Parts, Cite(t, o, p)
      PROVE  TypeOK'
  <2> DEFINE new == [txn[t] EXCEPT !.phase = "open", !.cited = @ \cup {<<o, p>>},
                              !.shares = @ \cup {o}, !.due = @ \cup {o}]
  <2>0. {<<o, p>>} \in SUBSET Cites
    BY DEF Cites
  <2>1. new \in Transaction
    BY <1>1, <2>0 DEF Transaction
  <2>2. Does(t, new)
    BY <1>3 DEF Cite
  <2> HIDE DEF new
  <2> QED BY <1>1, <2>1, <2>2, DoesTyped
<1>4. ASSUME NEW o \in Owners, NEW p \in Parts, Uncite(t, o, p)
      PROVE  TypeOK'
  <2> DEFINE new == [txn[t] EXCEPT !.phase = "open", !.cited = @ \ {<<o, p>>},
                              !.uncited = @ \cup ({<<o, p>>} \cap cites), !.due = @ \cup {o}]
  <2>0. {<<o, p>>} \cap cites \in SUBSET (Drafts \X Parts)
    BY <1>4 DEF Uncite
  <2>1. new \in Transaction
    BY <1>1, <2>0 DEF Transaction
  <2>2. Does(t, new)
    BY <1>4 DEF Uncite
  <2> HIDE DEF new
  <2> QED BY <1>1, <2>1, <2>2, DoesTyped
<1>5. ASSUME NEW o \in Owners, NEW p \in Parts, NEW q \in Parts, Recite(t, o, p, q)
      PROVE  TypeOK'
  <2> DEFINE new == [txn[t] EXCEPT !.phase = "open", !.cited = (@ \ {<<o, p>>}) \cup {<<o, q>>},
                              !.uncited = @ \cup ({<<o, p>>} \cap cites), !.due = @ \cup {o}]
  <2>0. {<<o, q>>} \in SUBSET Cites /\ {<<o, p>>} \cap cites \in SUBSET (Drafts \X Parts)
    BY <1>5 DEF Recite, Cites
  <2>1. new \in Transaction
    BY <1>1, <2>0 DEF Transaction
  <2>2. Does(t, new)
    BY <1>5 DEF Recite
  <2> HIDE DEF new
  <2> QED BY <1>1, <2>1, <2>2, DoesTyped
<1>6. ASSUME NEW o \in Owners, Remove(t, o)
      PROVE  TypeOK'
  <2> DEFINE new == [txn[t] EXCEPT !.phase = "cascading", !.removed = @ \cup {o}]
  <2>1. new \in Transaction
    BY <1>1, <1>6 DEF Transaction, Remove
  <2>2. Does(t, new)
    BY <1>6 DEF Remove
  <2> HIDE DEF new
  <2> QED BY <1>1, <2>1, <2>2, DoesTyped
<1>7. ASSUME NEW v \in DOMAIN Edition, NEW w \in DOMAIN Edition, Supersede(t, v, w)
      PROVE  TypeOK'
  <2> DEFINE new == [txn[t] EXCEPT !.phase = "open", !.linked = @ \cup {<<v, w>>},
                              !.shares = @ \cup {v, w}]
  <2>0. {<<v, w>>} \in SUBSET Links /\ {v, w} \in SUBSET Owners
    BY Kinds DEF Links
  <2>1. new \in Transaction
    BY <1>1, <2>0 DEF Transaction
  <2>2. Does(t, new)
    BY <1>7 DEF Supersede
  <2> HIDE DEF new
  <2> QED BY <1>1, <2>1, <2>2, DoesTyped
<1> QED BY <1>2, <1>3, <1>4, <1>5, <1>6, <1>7 DEF Statement
-----------------------------------------------------------------------------
(* Every step before the triggers run is one kind of write: it adds owners A, *)
(* deletes owners R, inserts rows of plus and deletes rows of minus, links L, *)
(* and leaves shares S and due checks D.                                      *)

Write(t, A, R, plus, minus, L, S, D) ==
  /\ UNCHANGED <<owners, cites, links>>
  /\ \A u \in Txns \ {t} : txn'[u] = txn[u]
  /\ txn[t].phase # "committing"
  /\ txn'[t].added = txn[t].added \cup A /\ txn'[t].removed = txn[t].removed \cup R
  /\ txn'[t].cited = (txn[t].cited \ minus) \cup plus
  /\ txn'[t].uncited = txn[t].uncited \cup (minus \cap cites)
  /\ txn'[t].linked = txn[t].linked \cup L /\ txn'[t].shares = txn[t].shares \cup S
  /\ txn'[t].locks = txn[t].locks /\ txn'[t].due = txn[t].due \cup D

\* What the statements check of the rows they touch.
Lawful(t, A, R, plus, minus, L, S, D) ==
  /\ \A o \in A : /\ o \notin owners /\ \A u \in Txns : o \notin txn[u].added
                  /\ EditionFree(t, o) /\ o \in D
                  /\ Ends[o] \subseteq OwnersSeen(t) \cap S
  /\ \A o, q \in A : o = q
  /\ \A o \in R : /\ o \in Drafts \cap OwnersSeen(t) /\ MayLock(t, o)
                  /\ \A q \in OwnersSeen(t) : o \notin Ends[q]
  /\ A = {} \/ R = {}
  /\ \A row \in minus : RowFree(t, row) /\ row \in CitesSeen(t)
  /\ \A row \in plus : row[1] \in OwnersSeen(t)
  /\ \A row \in plus \cup minus : row[1] \in D
  /\ \A o \in D : o \in A \cup S \/ \E row \in minus : row[1] = o
  /\ \A o \in S : o \in OwnersSeen(t) /\ MayShare(t, o)
  /\ \A l \in L : {l[1], l[2]} \subseteq OwnersSeen(t) /\ LinkFree(t, l[1], l[2])
  /\ \A l, m \in L : l = m
  /\ txn'[t].phase # "cascading" =>
       R = {} /\ (txn[t].phase = "cascading" => Orphans(t) \subseteq minus)

\* A lawful write keeps what is true of the transaction that writes.
LEMMA WriteKeepsOwn ==
  ASSUME CitationsInv, TypeOK', NEW t \in Txns,
         NEW A \in SUBSET Owners, NEW R \in SUBSET Owners, NEW plus \in SUBSET Cites,
         NEW minus \in SUBSET Cites, NEW L \in SUBSET Links, NEW S \in SUBSET Owners,
         NEW D \in SUBSET Owners,
         Write(t, A, R, plus, minus, L, S, D), Lawful(t, A, R, plus, minus, L, S, D)
  PROVE  Own(t)'
<1> USE DEF Write
<1> DEFINE r == txn[t]
           n == txn'[t]
<1>1. Own(t) /\ r \in Transaction /\ n \in Transaction
  BY DEF CitationsInv, TypeOK
<1>2. OwnersSeen(t)' = (OwnersSeen(t) \cup A) \ R
  <2>1. A \cap r.removed = {}
    BY <1>1 DEF Lawful, Own
  <2> QED BY <2>1 DEF OwnersSeen, Lawful
<1>3. CitesSeen(t)' = (CitesSeen(t) \ minus) \cup plus
  BY <1>1 DEF CitesSeen, Own, Lawful
<1>4. Watched(n)
  BY <1>1 DEF Watched, Own, Lawful, CitesSeen
<1>5. Anchored(n)
  <2> SUFFICES ASSUME NEW o \in r.due \cup r.locks \cup D
               PROVE  o \in n.added \cup n.shares \/ \E row \in n.uncited : row[1] = o
    BY DEF Anchored
  <2>1. CASE o \in r.due \cup r.locks
    BY <1>1, <2>1 DEF Own, Anchored
  <2>2. CASE o \in A \cup S
    BY <2>2
  <2>3. CASE o \notin r.due \cup r.locks /\ \E row \in minus : row[1] = o
    <3>1. PICK row \in minus : row[1] = o
      BY <2>3
    <3>2. row \notin r.cited
      BY <1>1, <2>3, <3>1 DEF Own, Watched
    <3>3. row \in cites
      BY <3>1, <3>2 DEF Lawful, CitesSeen
    <3> QED BY <3>1, <3>3
  <2> QED BY <2>1, <2>2, <2>3 DEF Lawful
<1>6. n.locks = {}
  BY <1>1 DEF Own
<1>7. /\ n.uncited \subseteq cites' /\ n.added \cap owners' = {}
      /\ n.removed \cup n.shares \subseteq owners' \cup n.added
      /\ \A l \in n.linked : {l[1], l[2]} \subseteq owners' \cup n.added
  BY <1>1 DEF Own, Lawful, OwnersSeen
<1>8. n.phase # "cascading" => \A row \in CitesSeen(t)' : row[1] \in OwnersSeen(t)'
  <2> SUFFICES ASSUME n.phase # "cascading", NEW row \in (CitesSeen(t) \ minus) \cup plus
               PROVE  row[1] \in OwnersSeen(t)
    BY <1>2, <1>3 DEF Lawful
  <2>1. CASE row \in plus
    BY <2>1 DEF Lawful
  <2>2. CASE row \in CitesSeen(t) \ minus /\ r.phase # "cascading"
    BY <1>1, <2>2 DEF Own
  <2>3. CASE row \in CitesSeen(t) \ minus /\ r.phase = "cascading"
    BY <2>3 DEF Lawful, Orphans
  <2> QED BY <2>1, <2>2, <2>3
<1>9. \A o \in OwnersSeen(t)' : Ends[o] \subseteq OwnersSeen(t)'
  BY <1>1, <1>2 DEF Own, Lawful
<1>10. \A o \in n.added : Ends[o] \subseteq n.shares
  BY <1>1 DEF Own, Lawful
<1> QED BY <1>4, <1>5, <1>6, <1>7, <1>8, <1>9, <1>10 DEF Own

\* A lawful write stays apart from what the other transactions have done.
LEMMA WriteKeepsApart ==
  ASSUME CitationsInv, NEW t \in Txns, NEW u \in Txns \ {t},
         NEW A, NEW R, NEW plus, NEW minus, NEW L, NEW S, NEW D,
         Write(t, A, R, plus, minus, L, S, D), Lawful(t, A, R, plus, minus, L, S, D)
  PROVE  Apart(t, u)' /\ Apart(u, t)'
<1>1. Apart(t, u) /\ Apart(u, t) /\ txn'[u] = txn[u]
  BY DEF CitationsInv, Write
<1>2. A \cap txn[u].added = {}
  BY DEF Lawful
<1>3. minus \cap txn[u].uncited = {}
  BY DEF Lawful, RowFree, Others
<1>4. R \cap txn[u].removed = {} /\ R \cap txn[u].shares = {}
  BY DEF Lawful, MayLock, Holds, Exclusive, Others
<1>5. S \cap txn[u].removed = {}
  BY DEF Lawful, MayShare, Exclusive, Others
<1> QED BY <1>1, <1>2, <1>3, <1>4, <1>5 DEF Write, Apart

\* A lawful write sees and shows no second number, successor or predecessor.
LEMMA WriteKeepsHistory ==
  ASSUME CitationsInv, NEW t \in Txns, NEW u \in Txns,
         NEW A, NEW R, NEW plus, NEW minus, NEW L, NEW S, NEW D,
         Write(t, A, R, plus, minus, L, S, D), Lawful(t, A, R, plus, minus, L, S, D)
  PROVE  OneHistory(t, u)' /\ OneHistory(u, t)'
<1>1. OneHistory(t, t) /\ OneHistory(t, u) /\ OneHistory(u, t)
  BY DEF CitationsInv
<1>2. OwnersSeen(t)' \subseteq OwnersSeen(t) \cup A /\ LinksSeen(t)' = LinksSeen(t) \cup L
  BY DEF OwnersSeen, LinksSeen, Write
<1>3. u # t => OwnersSeen(u)' = OwnersSeen(u) /\ LinksSeen(u)' = LinksSeen(u)
  BY DEF OwnersSeen, LinksSeen, Write
<1>4. \A o \in A \cap (DOMAIN Edition) : \A x \in Txns :
        \A q \in OwnersSeen(x) \cap (DOMAIN Edition) : Edition[q] # Edition[o]
  BY DEF Lawful, EditionFree
<1>5. \A l \in L : \A x \in Txns : \A m \in LinksSeen(x) : m[1] # l[1] /\ m[2] # l[2]
  BY DEF Lawful, LinkFree
<1>6. (\A o, q \in A : o = q) /\ \A l, m \in L : l = m
  BY DEF Lawful
<1>7. ASSUME NEW x \in {t, u}, NEW y \in {t, u}, x = t \/ y = t
      PROVE  OneHistory(x, y)'
  <2>1. \A v \in OwnersSeen(x)' \cap (DOMAIN Edition), w \in OwnersSeen(y)' \cap (DOMAIN Edition) :
          Edition[v] = Edition[w] => v = w
    BY <1>1, <1>2, <1>3, <1>4, <1>6, <1>7 DEF OneHistory
  <2>2. \A l \in LinksSeen(x)', m \in LinksSeen(y)' : l[1] = m[1] \/ l[2] = m[2] => l = m
    BY <1>1, <1>2, <1>3, <1>5, <1>6, <1>7 DEF OneHistory
  <2> QED BY <2>1, <2>2 DEF OneHistory
<1> QED BY <1>7

\* What is true of the others and of the tables does not change with it.
LEMMA WriteKeepsInv ==
  ASSUME CitationsInv, TypeOK', NEW t \in Txns,
         NEW A \in SUBSET Owners, NEW R \in SUBSET Owners, NEW plus \in SUBSET Cites,
         NEW minus \in SUBSET Cites, NEW L \in SUBSET Links, NEW S \in SUBSET Owners,
         NEW D \in SUBSET Owners,
         Write(t, A, R, plus, minus, L, S, D), Lawful(t, A, R, plus, minus, L, S, D)
  PROVE  CitationsInv'
<1>1. Committed'
  BY DEF CitationsInv, Committed, Write, EveryOwnerCited, EvidenceStaysHome, NothingDangles,
         HistoryIsAChain
<1>2. ASSUME NEW u \in Txns PROVE Own(u)'
  <2>1. CASE u = t
    BY <2>1, WriteKeepsOwn
  <2>2. CASE u # t
    <3>1. Own(u) /\ txn'[u] = txn[u] /\ owners' = owners /\ cites' = cites
      BY <2>2 DEF CitationsInv, Write
    <3>2. OwnersSeen(u)' = OwnersSeen(u) /\ CitesSeen(u)' = CitesSeen(u)
      BY <3>1 DEF OwnersSeen, CitesSeen
    <3>3. \A o : Valid(u, o)' <=> Valid(u, o)
      BY <3>1, <3>2 DEF Valid
    <3> QED BY <3>1, <3>2, <3>3 DEF Own
  <2> QED BY <2>1, <2>2
<1>3. ASSUME NEW u \in Txns, NEW x \in Txns \ {u} PROVE Apart(u, x)'
  <2>1. CASE u = t \/ x = t
    BY <2>1, WriteKeepsApart
  <2>2. CASE u # t /\ x # t
    BY <2>2 DEF CitationsInv, Write, Apart
  <2> QED BY <2>1, <2>2
<1>4. ASSUME NEW u \in Txns, NEW x \in Txns PROVE OneHistory(u, x)'
  <2>1. CASE u = t \/ x = t
    BY <2>1, WriteKeepsHistory
  <2>2. CASE u # t /\ x # t
    BY <2>2 DEF CitationsInv, Write, OneHistory, OwnersSeen, LinksSeen
  <2> QED BY <2>1, <2>2
<1> QED BY <1>1, <1>2, <1>3, <1>4 DEF CitationsInv

\* A transaction has become what a statement makes of it.
Became(t, new) ==
  /\ UNCHANGED <<owners, cites, links>>
  /\ \A u \in Txns \ {t} : txn'[u] = txn[u]
  /\ txn'[t].phase = new.phase /\ txn'[t].locks = new.locks /\ txn'[t].due = new.due
  /\ txn'[t].added = new.added /\ txn'[t].removed = new.removed
  /\ txn'[t].cited = new.cited /\ txn'[t].uncited = new.uncited
  /\ txn'[t].linked = new.linked /\ txn'[t].shares = new.shares

LEMMA DoesBecome ==
  ASSUME TypeOK, NEW t \in Txns, NEW new \in Transaction, Does(t, new)
  PROVE  Became(t, new)
BY DEF Does, TypeOK, Transaction, Became

\* Each statement is a lawful write.
LEMMA StatementKeepsInv ==
  ASSUME CitationsInv, NEW t \in Txns, Statement(t)
  PROVE  CitationsInv'
<1>1. TypeOK /\ TypeOK' /\ Own(t) /\ txn[t] \in Transaction
  BY StatementTyped DEF CitationsInv, TypeOK
<1>2. txn[t].phase \in {"idle", "open"}
  BY DEF Statement, Ready, AddOwner, Cite, Uncite, Recite, Remove, Supersede
<1>3. \A row \in CitesSeen(t) : row[1] \in OwnersSeen(t)
  BY <1>1, <1>2 DEF Own
<1>4. ASSUME NEW o \in Owners, AddOwner(t, o)
      PROVE  CitationsInv'
  <2> DEFINE new == [txn[t] EXCEPT !.phase = "open", !.added = @ \cup {o}, !.due = @ \cup {o},
                                   !.shares = @ \cup Ends[o]]
  <2>1. new \in Transaction
    BY <1>1, Kinds DEF Transaction
  <2>2. Does(t, new)
    BY <1>4 DEF AddOwner
  <2> HIDE DEF new
  <2>3. Became(t, new)
    BY <1>1, <2>1, <2>2, DoesBecome
  <2> USE DEF new
  <2>4. Write(t, {o}, {}, {}, {}, {}, Ends[o], {o}) /\ txn'[t].phase = "open"
    BY <1>1, <1>2, <2>3 DEF Became, Write, Transaction
  <2>5. Lawful(t, {o}, {}, {}, {}, {}, Ends[o], {o})
    BY <1>2, <1>4, <2>4 DEF Lawful, AddOwner
  <2> QED BY <1>1, <2>4, <2>5, Kinds, WriteKeepsInv
<1>5. ASSUME NEW o \in Owners, NEW p \in Parts, Cite(t, o, p)
      PROVE  CitationsInv'
  <2> DEFINE new == [txn[t] EXCEPT !.phase = "open", !.cited = @ \cup {<<o, p>>},
                                   !.shares = @ \cup {o}, !.due = @ \cup {o}]
  <2>0. {<<o, p>>} \in SUBSET Cites /\ <<o, p>>[1] = o
    BY DEF Cites
  <2>1. new \in Transaction
    BY <1>1, <2>0 DEF Transaction
  <2>2. Does(t, new)
    BY <1>5 DEF Cite
  <2> HIDE DEF new
  <2>3. Became(t, new)
    BY <1>1, <2>1, <2>2, DoesBecome
  <2> USE DEF new
  <2>4. Write(t, {}, {}, {<<o, p>>}, {}, {}, {o}, {o}) /\ txn'[t].phase = "open"
    BY <1>1, <1>2, <2>3 DEF Became, Write, Transaction
  <2>5. Lawful(t, {}, {}, {<<o, p>>}, {}, {}, {o}, {o})
    BY <1>2, <1>5, <2>0, <2>4 DEF Lawful, Cite
  <2> QED BY <1>1, <2>0, <2>4, <2>5, WriteKeepsInv
<1>6. ASSUME NEW o \in Owners, NEW p \in Parts, Uncite(t, o, p)
      PROVE  CitationsInv'
  <2> DEFINE new == [txn[t] EXCEPT !.phase = "open", !.cited = @ \ {<<o, p>>},
                                   !.uncited = @ \cup ({<<o, p>>} \cap cites), !.due = @ \cup {o}]
  <2>0. /\ {<<o, p>>} \cap cites \in SUBSET (Drafts \X Parts)
        /\ {<<o, p>>} \in SUBSET Cites /\ <<o, p>>[1] = o
    BY <1>6 DEF Uncite, Cites
  <2>1. new \in Transaction
    BY <1>1, <2>0 DEF Transaction
  <2>2. Does(t, new)
    BY <1>6 DEF Uncite
  <2> HIDE DEF new
  <2>3. Became(t, new)
    BY <1>1, <2>1, <2>2, DoesBecome
  <2> USE DEF new
  <2>4. Write(t, {}, {}, {}, {<<o, p>>}, {}, {}, {o}) /\ txn'[t].phase = "open"
    BY <1>1, <1>2, <2>3 DEF Became, Write, Transaction
  <2>5. Lawful(t, {}, {}, {}, {<<o, p>>}, {}, {}, {o})
    BY <1>2, <1>6, <2>0, <2>4 DEF Lawful, Uncite
  <2> QED BY <1>1, <2>0, <2>4, <2>5, WriteKeepsInv
<1>7. ASSUME NEW o \in Owners, NEW p \in Parts, NEW q \in Parts, Recite(t, o, p, q)
      PROVE  CitationsInv'
  <2> DEFINE new == [txn[t] EXCEPT !.phase = "open", !.cited = (@ \ {<<o, p>>}) \cup {<<o, q>>},
                                   !.uncited = @ \cup ({<<o, p>>} \cap cites), !.due = @ \cup {o}]
  <2>0. /\ {<<o, q>>} \in SUBSET Cites /\ {<<o, p>>} \cap cites \in SUBSET (Drafts \X Parts)
        /\ {<<o, p>>} \in SUBSET Cites /\ <<o, p>>[1] = o /\ <<o, q>>[1] = o
    BY <1>7 DEF Recite, Cites
  <2>1. new \in Transaction
    BY <1>1, <2>0 DEF Transaction
  <2>2. Does(t, new)
    BY <1>7 DEF Recite
  <2> HIDE DEF new
  <2>3. Became(t, new)
    BY <1>1, <2>1, <2>2, DoesBecome
  <2> USE DEF new
  <2>4. Write(t, {}, {}, {<<o, q>>}, {<<o, p>>}, {}, {}, {o}) /\ txn'[t].phase = "open"
    BY <1>1, <1>2, <2>3 DEF Became, Write, Transaction
  <2>5. Lawful(t, {}, {}, {<<o, q>>}, {<<o, p>>}, {}, {}, {o})
    BY <1>2, <1>3, <1>7, <2>0, <2>4 DEF Lawful, Recite
  <2> QED BY <1>1, <2>0, <2>4, <2>5, WriteKeepsInv
<1>8. ASSUME NEW o \in Owners, Remove(t, o)
      PROVE  CitationsInv'
  <2> DEFINE new == [txn[t] EXCEPT !.phase = "cascading", !.removed = @ \cup {o}]
  <2>1. new \in Transaction
    BY <1>1, <1>8 DEF Transaction, Remove
  <2>2. Does(t, new)
    BY <1>8 DEF Remove
  <2> HIDE DEF new
  <2>3. Became(t, new)
    BY <1>1, <2>1, <2>2, DoesBecome
  <2> USE DEF new
  <2>4. Write(t, {}, {o}, {}, {}, {}, {}, {}) /\ txn'[t].phase = "cascading"
    BY <1>1, <1>2, <2>3 DEF Became, Write, Transaction
  <2>5. Lawful(t, {}, {o}, {}, {}, {}, {}, {})
    BY <1>8, <2>4 DEF Lawful, Remove
  <2> QED BY <1>1, <2>4, <2>5, WriteKeepsInv
<1>9. ASSUME NEW v \in DOMAIN Edition, NEW w \in DOMAIN Edition, Supersede(t, v, w)
      PROVE  CitationsInv'
  <2> DEFINE new == [txn[t] EXCEPT !.phase = "open", !.linked = @ \cup {<<v, w>>},
                                   !.shares = @ \cup {v, w}]
  <2>0. /\ {<<v, w>>} \in SUBSET Links /\ {v, w} \in SUBSET Owners
        /\ <<v, w>>[1] = v /\ <<v, w>>[2] = w
    BY Kinds DEF Links
  <2>1. new \in Transaction
    BY <1>1, <2>0 DEF Transaction
  <2>2. Does(t, new)
    BY <1>9 DEF Supersede
  <2> HIDE DEF new
  <2>3. Became(t, new)
    BY <1>1, <2>1, <2>2, DoesBecome
  <2> USE DEF new
  <2>4. Write(t, {}, {}, {}, {}, {<<v, w>>}, {v, w}, {}) /\ txn'[t].phase = "open"
    BY <1>1, <1>2, <2>3 DEF Became, Write, Transaction
  <2>5. Lawful(t, {}, {}, {}, {}, {<<v, w>>}, {v, w}, {})
    BY <1>2, <1>9, <2>0, <2>4 DEF Lawful, Supersede
  <2> QED BY <1>1, <2>0, <2>4, <2>5, WriteKeepsInv
<1> QED BY <1>4, <1>5, <1>6, <1>7, <1>8, <1>9 DEF Statement

\* So is a cascade.
LEMMA CascadeKeepsInv ==
  ASSUME CitationsInv, NEW t \in Txns, Cascade(t)
  PROVE  CitationsInv'
<1> DEFINE O == Orphans(t)
           D == Deprived(t)
<1>1. TypeOK /\ Own(t) /\ txn[t] \in Transaction /\ O \in SUBSET Cites /\ D \in SUBSET Owners
  BY SeenTyped DEF CitationsInv, TypeOK
<1>2. O \cap cites \in SUBSET (Drafts \X Parts)
  <2> SUFFICES ASSUME NEW row \in O \cap cites
               PROVE  row \in Drafts \X Parts
    OBVIOUS
  <2>1. row[1] \in owners /\ row[1] \notin OwnersSeen(t)
    BY DEF CitationsInv, Committed, NothingDangles, Orphans
  <2>2. row[1] \in txn[t].removed
    BY <2>1 DEF OwnersSeen
  <2>3. row[1] \in Drafts /\ row \in Owners \X Parts
    BY <1>1, <2>2 DEF Transaction, Cites
  <2> QED BY <2>3
<1> DEFINE new == [txn[t] EXCEPT !.phase = "open", !.cited = @ \ O,
                     !.uncited = @ \cup (O \cap cites), !.due = @ \cup D]
<1>3. new \in Transaction
  <2> HIDE DEF O
  <2> QED BY <1>1, <1>2 DEF Transaction
<1>4. txn' = [txn EXCEPT ![t] = new] /\ UNCHANGED <<owners, cites, links, begun>>
  BY DEF Cascade
<1>5. TypeOK'
  BY <1>1, <1>3, <1>4 DEF TypeOK
<1>6. txn'[t] = new /\ \A u \in Txns \ {t} : txn'[u] = txn[u]
  BY <1>1, <1>4 DEF TypeOK
<1>7. Write(t, {}, {}, {}, O, {}, {}, D) /\ txn'[t].phase = "open"
  BY <1>1, <1>4, <1>6 DEF Write, Cascade, Transaction
<1>8. Lawful(t, {}, {}, {}, O, {}, {}, D)
  BY <1>7 DEF Lawful, Cascade, Orphans, Deprived
<1> QED BY <1>1, <1>5, <1>7, <1>8, WriteKeepsInv

\* And the start of a commit, which writes nothing.
LEMMA StartCommitKeepsInv ==
  ASSUME CitationsInv, NEW t \in Txns, StartCommit(t)
  PROVE  CitationsInv'
<1>1. TypeOK /\ txn[t] \in Transaction /\ [txn[t] EXCEPT !.phase = "committing"] \in Transaction
  BY DEF CitationsInv, TypeOK, Transaction
<1>2. TypeOK' /\ txn'[t] = [txn[t] EXCEPT !.phase = "committing"]
  BY <1>1 DEF StartCommit, TypeOK
<1>3. Write(t, {}, {}, {}, {}, {}, {}, {}) /\ txn'[t].phase = "committing"
  BY <1>1, <1>2 DEF StartCommit, Write, Transaction, TypeOK
<1>4. Lawful(t, {}, {}, {}, {}, {}, {}, {})
  BY <1>3 DEF Lawful, StartCommit
<1> QED BY <1>2, <1>3, <1>4, WriteKeepsInv

-----------------------------------------------------------------------------
(* The triggers, the commit and the rollback.                                *)

\* A passed check is a lock and a verdict that stands.
LEMMA CheckKeepsInv ==
  ASSUME CitationsInv, NEW t \in Txns, NEW o \in txn[t].due, CheckOwner(t, o)
  PROVE  CitationsInv'
<1> DEFINE new == [txn[t] EXCEPT !.due = @ \ {o}, !.locks = @ \cup {o}]
<1>1. TypeOK /\ Own(t) /\ txn[t] \in Transaction /\ o \in Owners
  BY DEF CitationsInv, TypeOK, Transaction
<1>2. new \in Transaction
  BY <1>1 DEF Transaction
<1> HIDE DEF new
<1>3. TypeOK' /\ txn'[t] = new /\ \A u \in Txns \ {t} : txn'[u] = txn[u]
  <2>1. txn' = [txn EXCEPT ![t] = new] /\ UNCHANGED <<owners, cites, links, begun>>
    BY DEF CheckOwner, new
  <2> QED BY <1>1, <1>2, <2>1 DEF TypeOK
<1>4. /\ UNCHANGED <<owners, cites, links>> /\ txn'[t].due \cup txn'[t].locks = txn[t].due \cup txn[t].locks
      /\ txn'[t].added = txn[t].added /\ txn'[t].removed = txn[t].removed
      /\ txn'[t].cited = txn[t].cited /\ txn'[t].uncited = txn[t].uncited
      /\ txn'[t].linked = txn[t].linked /\ txn'[t].shares = txn[t].shares
      /\ txn'[t].locks = txn[t].locks \cup {o} /\ txn'[t].phase = "committing"
  <2>1. UNCHANGED <<owners, cites, links>> /\ txn[t].phase = "committing"
    BY DEF CheckOwner
  <2>2. /\ new.due = txn[t].due \ {o} /\ new.locks = txn[t].locks \cup {o}
        /\ new.phase = txn[t].phase /\ new.added = txn[t].added /\ new.removed = txn[t].removed
        /\ new.cited = txn[t].cited /\ new.uncited = txn[t].uncited
        /\ new.linked = txn[t].linked /\ new.shares = txn[t].shares
    BY <1>1 DEF Transaction, new
  <2>3. new.due \cup new.locks = txn[t].due \cup txn[t].locks
    BY <2>2
  <2> QED BY <1>3, <2>1, <2>2, <2>3
<1>5. ASSUME NEW u \in Txns
      PROVE  OwnersSeen(u)' = OwnersSeen(u) /\ CitesSeen(u)' = CitesSeen(u) /\ LinksSeen(u)' = LinksSeen(u)
  BY <1>3, <1>4 DEF OwnersSeen, CitesSeen, LinksSeen
<1>6. ASSUME NEW u \in Txns, NEW q \in txn'[u].locks PROVE Valid(u, q)'
  <2>1. Valid(u, q)
    BY <1>3, <1>4, <1>6 DEF CitationsInv, Own, CheckOwner
  <2>2. txn'[u].added = txn[u].added
    BY <1>3, <1>4
  <2> QED BY <1>5, <2>1, <2>2 DEF Valid
<1>7. Own(t)'
  <2>1. Watched(txn'[t]) /\ Anchored(txn'[t])
    BY <1>1, <1>4 DEF Own, Watched, Anchored
  <2>2. txn[t].phase = "committing"
    BY DEF CheckOwner
  <2> QED BY <1>1, <1>4, <1>5, <1>6, <2>1, <2>2 DEF Own
<1>8. ASSUME NEW u \in Txns \ {t} PROVE Own(u)'
  <2>1. Own(u) /\ txn'[u] = txn[u]
    BY <1>3 DEF CitationsInv
  <2> QED BY <1>4, <1>5, <1>6, <2>1 DEF Own
<1>9. ASSUME NEW u \in Txns, NEW x \in Txns \ {u} PROVE Apart(u, x)'
  <2>1. Apart(u, x) /\ \A q \in Txns \ {t} : o \notin txn[q].locks
    BY DEF CitationsInv, CheckOwner, MayLock, Holds, Exclusive, Others
  <2> QED BY <1>3, <1>4, <2>1 DEF Apart
<1>10. ASSUME NEW u \in Txns, NEW x \in Txns PROVE OneHistory(u, x)'
  BY <1>5 DEF CitationsInv, OneHistory
<1>11. Committed'
  BY <1>4 DEF CitationsInv, Committed, EveryOwnerCited, EvidenceStaysHome, NothingDangles,
         HistoryIsAChain
<1> QED BY <1>3, <1>7, <1>8, <1>9, <1>10, <1>11 DEF CitationsInv

\* A rollback leaves a transaction that sees what is committed.
LEMMA RollbackKeepsInv ==
  ASSUME CitationsInv, NEW t \in Txns, RollsBack(t)
  PROVE  CitationsInv'
<1>1. TypeOK /\ Own(t) /\ txn[t] \in Transaction
  BY DEF CitationsInv, TypeOK
<1>2. TypeOK' /\ txn'[t] = Idle /\ \A u \in Txns \ {t} : txn'[u] = txn[u]
  BY <1>1, IdleTyped DEF RollsBack, TypeOK
<1>3. owners' = owners /\ cites' = cites /\ links' = links
  BY DEF RollsBack
<1>4. OwnersSeen(t)' = owners /\ CitesSeen(t)' = cites /\ LinksSeen(t)' = links
  BY <1>2, <1>3 DEF OwnersSeen, CitesSeen, LinksSeen, Idle
<1>5. ASSUME NEW u \in Txns \ {t}
      PROVE  OwnersSeen(u)' = OwnersSeen(u) /\ CitesSeen(u)' = CitesSeen(u) /\ LinksSeen(u)' = LinksSeen(u)
  BY <1>2, <1>3 DEF OwnersSeen, CitesSeen, LinksSeen
<1>6. Committed' /\ NothingDangles
  BY <1>3 DEF CitationsInv, Committed, EveryOwnerCited, EvidenceStaysHome, NothingDangles,
         HistoryIsAChain
<1>7. Own(t)'
  BY <1>2, <1>3, <1>4, <1>6 DEF Own, Watched, Anchored, Idle, NothingDangles
<1>8. ASSUME NEW u \in Txns \ {t} PROVE Own(u)'
  <2>1. Own(u) /\ txn'[u] = txn[u]
    BY <1>2 DEF CitationsInv
  <2>2. \A o : Valid(u, o)' <=> Valid(u, o)
    BY <1>5, <2>1 DEF Valid
  <2> QED BY <1>3, <1>5, <2>1, <2>2 DEF Own
<1>9. ASSUME NEW u \in Txns, NEW x \in Txns \ {u} PROVE Apart(u, x)'
  BY <1>2 DEF CitationsInv, Apart, Idle
<1>10. ASSUME NEW u \in Txns, NEW x \in Txns PROVE OneHistory(u, x)'
  <2>1. owners \cap (DOMAIN Edition) \subseteq OwnersSeen(t) /\ links \subseteq LinksSeen(t)
    BY <1>1, Kinds DEF OwnersSeen, LinksSeen, Transaction
  <2>2. \A y, z \in Txns : OneHistory(y, z)
    BY DEF CitationsInv
  <2> QED BY <1>4, <1>5, <2>1, <2>2 DEF OneHistory
<1> QED BY <1>2, <1>6, <1>7, <1>8, <1>9, <1>10 DEF CitationsInv

\* What the locks of a committing transaction leave untouched: another's rows.
LEMMA CommitUntouched ==
  ASSUME CitationsInv, NEW t \in Txns, Commit(t), NEW u \in Txns \ {t}
  PROVE  /\ \A o \in txn[u].locks, p \in Parts : <<o, p>> \in cites' <=> <<o, p>> \in cites
         /\ \A o \in txn[u].locks : o \in owners' => o \in owners
<1>1. txn[t].due = {} /\ txn[t].locks \cap txn[u].locks = {} /\ Watched(txn[t])
  BY DEF CitationsInv, Commit, Own, Apart
<1>2. cites' = CitesSeen(t) /\ owners' = OwnersSeen(t)
  BY DEF Commit
<1> QED BY <1>1, <1>2 DEF Watched, CitesSeen, OwnersSeen

\* What a commit publishes is cited, at home, whole and one history.
LEMMA CommitKeepsCommitted ==
  ASSUME CitationsInv, NEW t \in Txns, Commit(t)
  PROVE  Committed'
<1>1. TypeOK /\ Own(t) /\ txn[t] \in Transaction /\ Committed /\ OneHistory(t, t)
  BY DEF CitationsInv, TypeOK
<1>2. /\ owners' = OwnersSeen(t) /\ cites' = CitesSeen(t) /\ links' = LinksSeen(t)
      /\ txn[t].phase = "committing" /\ txn[t].due = {}
      /\ \A l \in txn[t].linked : Later(l[1], l[2])
  BY DEF Commit
<1>3. \A row \in cites' : row[1] \in owners'
  BY <1>1, <1>2 DEF Own
<1>4. ASSUME NEW o \in owners' \ txn[t].locks
      PROVE  o \in owners /\ Cited(o, cites') = Cited(o, cites)
  BY <1>1, <1>2, <1>4 DEF Own, Watched, OwnersSeen, CitesSeen, Cited
<1>5. EveryOwnerCited'
  <2> SUFFICES ASSUME NEW o \in owners' PROVE Cited(o, cites') # {}
    BY DEF EveryOwnerCited, Cited
  <2>1. CASE o \in txn[t].locks
    BY <1>1, <1>2, <2>1 DEF Own, Valid
  <2>2. CASE o \notin txn[t].locks
    BY <1>1, <1>4, <2>2 DEF Committed, EveryOwnerCited
  <2> QED BY <2>1, <2>2
<1>6. EvidenceStaysHome'
  <2> SUFFICES ASSUME NEW row \in cites' PROVE Project[row[2]] = Project[row[1]]
    BY DEF EvidenceStaysHome
  <2>1. row[1] \in owners' /\ row[2] \in Parts /\ row = <<row[1], row[2]>>
    BY <1>1, <1>2, <1>3, SeenTyped DEF Cites
  <2>2. CASE row[1] \in txn[t].locks
    BY <1>1, <1>2, <2>1, <2>2 DEF Own, Valid, Cited
  <2>3. CASE row[1] \notin txn[t].locks
    <3>1. row \in cites
      BY <1>4, <2>1, <2>3 DEF Cited
    <3> QED BY <1>1, <3>1 DEF Committed, EvidenceStaysHome
  <2> QED BY <2>2, <2>3
<1>7. NothingDangles'
  <2>1. \A l \in links' : l \in Links
    BY <1>1, <1>2, SeenTyped
  <2>2. \A o \in owners' : Ends[o] \subseteq owners'
    BY <1>1, <1>2 DEF Own
  <2>3. ASSUME NEW l \in links' PROVE {l[1], l[2]} \subseteq owners'
    <3>1. {l[1], l[2]} \subseteq owners \cup txn[t].added
      BY <1>1, <1>2 DEF Own, LinksSeen, Committed, NothingDangles
    <3>2. {l[1], l[2]} \cap txn[t].removed = {}
      BY <1>1, <2>1, Kinds DEF Links, Transaction
    <3> QED BY <1>2, <3>1, <3>2 DEF OwnersSeen
  <2> QED BY <1>3, <2>2, <2>3 DEF NothingDangles
<1>8. HistoryIsAChain'
  <2>1. \A v, w \in owners' \cap (DOMAIN Edition) : Edition[v] = Edition[w] => v = w
    BY <1>1, <1>2 DEF OneHistory
  <2>2. \A l, m \in links' : l[1] = m[1] \/ l[2] = m[2] => l = m
    BY <1>1, <1>2 DEF OneHistory
  <2>3. \A l \in links' : Later(l[1], l[2])
    BY <1>1, <1>2 DEF LinksSeen, Committed, HistoryIsAChain
  <2> QED BY <2>1, <2>2, <2>3 DEF HistoryIsAChain, Later
<1> QED BY <1>5, <1>6, <1>7, <1>8 DEF Committed

\* A commit leaves what is true of the other transactions.
LEMMA CommitKeepsOthers ==
  ASSUME CitationsInv, Committed', NEW t \in Txns, Commit(t), NEW u \in Txns \ {t}, txn'[u] = txn[u]
  PROVE  Own(u)'
<1>1. TypeOK /\ Own(t) /\ Own(u) /\ txn[t] \in Transaction /\ txn[u] \in Transaction
  BY DEF CitationsInv, TypeOK
<1>2. /\ owners' = OwnersSeen(t) /\ cites' = CitesSeen(t)
      /\ txn[t].phase = "committing" /\ txn[t].due = {}
  BY DEF Commit
<1>3. Apart(t, u) /\ Apart(u, t)
  BY DEF CitationsInv
<1>4. /\ \A row \in CitesSeen(t) : row[1] \in OwnersSeen(t)
      /\ \A o \in OwnersSeen(t) : Ends[o] \subseteq OwnersSeen(t)
      /\ \A row \in txn[t].cited : row[1] \in txn[t].locks
      /\ txn[t].added \subseteq txn[t].locks
  BY <1>1, <1>2 DEF Own, Watched
<1>5. ASSUME NEW o \in txn[u].locks PROVE Valid(u, o)'
  <2>1. Valid(u, o)
    BY <1>1 DEF Own
  <2>2. o \in OwnersSeen(u)' \cup txn'[u].added => o \in OwnersSeen(u) \cup txn[u].added
    BY CommitUntouched DEF OwnersSeen
  <2>3. Cited(o, CitesSeen(u)') = Cited(o, CitesSeen(u))
    BY CommitUntouched DEF CitesSeen, Cited
  <2> QED BY <2>1, <2>2, <2>3 DEF Valid
<1>6. txn[u].uncited \subseteq cites' /\ txn[u].added \cap owners' = {}
  BY <1>1, <1>2, <1>3 DEF Own, Apart, OwnersSeen, CitesSeen
<1>7. txn[u].removed \cup txn[u].shares \subseteq owners' \cup txn[u].added
  BY <1>1, <1>2, <1>3 DEF Own, Apart, OwnersSeen
<1>8. ASSUME NEW o \in txn[t].removed PROVE o \notin txn[u].added \cup txn[u].shares \cup txn[u].removed
  BY <1>1, <1>3 DEF Own, Apart
<1>9. txn[u].phase # "cascading" => \A row \in CitesSeen(u)' : row[1] \in OwnersSeen(u)'
  <2> SUFFICES ASSUME txn[u].phase # "cascading", NEW row \in CitesSeen(u)'
               PROVE  row[1] \in OwnersSeen(u)'
    OBVIOUS
  <2>0. \A x \in CitesSeen(u) : x[1] \in OwnersSeen(u)
    BY <1>1 DEF Own
  <2>1. CASE row \in txn[u].cited
    <3>1. row[1] \in OwnersSeen(u)
      BY <2>0, <2>1 DEF CitesSeen
    <3>2. row[1] \notin txn[t].removed
      <4>1. CASE row[1] \in txn[u].added \cup txn[u].shares
        BY <1>8, <4>1
      <4>2. CASE \E x \in txn[u].uncited : x[1] = row[1]
        <5>1. PICK x \in txn[u].uncited : x[1] = row[1]
          BY <4>2
        <5>2. x \in CitesSeen(t)
          BY <1>1, <1>3, <5>1 DEF Own, Apart, CitesSeen
        <5> QED BY <1>4, <5>1, <5>2 DEF OwnersSeen
      <4> QED BY <1>1, <2>1, <4>1, <4>2 DEF Own, Watched, Anchored
    <3> QED BY <1>2, <3>1, <3>2 DEF OwnersSeen
  <2>2. CASE row \in cites \ txn[u].cited /\ row \notin txn[t].cited
    <3>1. row \in CitesSeen(u) /\ row \in CitesSeen(t)
      BY <1>2, <2>2 DEF CitesSeen
    <3> QED BY <1>2, <1>4, <2>0, <3>1 DEF OwnersSeen
  <2>3. CASE row \in txn[t].cited
    <3>1. row[1] \in owners'
      BY <1>2, <1>4, <2>3 DEF CitesSeen
    <3>2. row[1] \notin txn[u].removed
      <4>1. CASE row[1] \in txn[t].added
        BY <1>1, <1>3, <4>1 DEF Own, Apart
      <4>2. CASE row[1] \in txn[t].shares
        BY <1>3, <4>2 DEF Apart
      <4>3. CASE \E x \in txn[t].uncited : x[1] = row[1]
        <5>1. PICK x \in txn[t].uncited : x[1] = row[1]
          BY <4>3
        <5>2. x \in CitesSeen(u)
          BY <1>1, <1>3, <5>1 DEF Own, Apart, CitesSeen
        <5> QED BY <2>0, <5>1, <5>2 DEF OwnersSeen
      <4> QED BY <1>1, <1>4, <2>3, <4>1, <4>2, <4>3 DEF Own, Anchored
    <3> QED BY <3>1, <3>2 DEF OwnersSeen
  <2> QED BY <1>2, <2>1, <2>2, <2>3 DEF CitesSeen
<1>10. \A o \in OwnersSeen(u)' : Ends[o] \subseteq OwnersSeen(u)'
  <2> SUFFICES ASSUME NEW o \in OwnersSeen(u)', NEW e \in Ends[o] PROVE e \in OwnersSeen(u)'
    OBVIOUS
  <2>1. CASE o \in txn[u].added
    <3>1. e \in OwnersSeen(u) /\ e \in txn[u].shares
      BY <1>1, <2>1 DEF Own, OwnersSeen
    <3> QED BY <1>2, <1>8, <3>1 DEF OwnersSeen
  <2>2. CASE o \in owners /\ o \notin txn[t].removed
    <3>1. e \in OwnersSeen(u) /\ e \in OwnersSeen(t)
      BY <1>1, <1>4, <2>2 DEF Own, OwnersSeen
    <3> QED BY <1>2, <3>1 DEF OwnersSeen
  <2>3. CASE o \in txn[t].added /\ o \notin txn[t].removed
    <3>1. e \in OwnersSeen(t) /\ e \in txn[t].shares
      BY <1>1, <1>4, <2>3 DEF Own, OwnersSeen
    <3> QED BY <1>2, <1>3, <3>1 DEF OwnersSeen, Apart
  <2> QED BY <1>2, <2>1, <2>2, <2>3 DEF OwnersSeen
<1>11. \A l \in txn[u].linked : {l[1], l[2]} \subseteq owners' \cup txn[u].added
  <2>1. \A l \in txn[u].linked : l \in Links /\ {l[1], l[2]} \subseteq owners \cup txn[u].added
    BY <1>1 DEF Own, Transaction
  <2>2. \A l \in Links : {l[1], l[2]} \cap txn[t].removed = {}
    BY <1>1, Kinds DEF Links, Transaction
  <2> QED BY <1>2, <2>1, <2>2 DEF OwnersSeen
<1> QED BY <1>1, <1>5, <1>6, <1>7, <1>9, <1>10, <1>11 DEF Own

LEMMA CommitKeepsInv ==
  ASSUME CitationsInv, NEW t \in Txns, Commit(t)
  PROVE  CitationsInv'
<1>1. TypeOK /\ txn[t] \in Transaction
  BY DEF CitationsInv, TypeOK
<1>2. txn'[t] = Idle /\ \A u \in Txns \ {t} : txn'[u] = txn[u]
  BY <1>1 DEF Commit, TypeOK
<1>3. TypeOK'
  BY <1>1, IdleTyped, SeenTyped DEF Commit, TypeOK
<1>4. Committed'
  BY CommitKeepsCommitted
<1>5. /\ OwnersSeen(t)' = owners' /\ CitesSeen(t)' = cites' /\ LinksSeen(t)' = links'
      /\ owners' = OwnersSeen(t) /\ links' = LinksSeen(t)
  BY <1>2 DEF Commit, OwnersSeen, CitesSeen, LinksSeen, Idle
<1>6. Own(t)'
  BY <1>2, <1>4, <1>5 DEF Own, Watched, Anchored, Idle, Committed, NothingDangles
<1>7. ASSUME NEW u \in Txns \ {t} PROVE Own(u)'
  BY <1>2, <1>4, CommitKeepsOthers
<1>8. ASSUME NEW u \in Txns, NEW x \in Txns \ {u} PROVE Apart(u, x)'
  BY <1>2 DEF CitationsInv, Apart, Idle
<1>9. ASSUME NEW u \in Txns, NEW x \in Txns PROVE OneHistory(u, x)'
  <2>1. \A y \in Txns : /\ OwnersSeen(y)' \subseteq OwnersSeen(y) \cup OwnersSeen(t)
                        /\ LinksSeen(y)' \subseteq LinksSeen(y) \cup LinksSeen(t)
    BY <1>2, <1>5 DEF OwnersSeen, LinksSeen
  <2>2. \A y, z \in Txns : OneHistory(y, z)
    BY DEF CitationsInv
  <2> QED BY <2>1, <2>2 DEF OneHistory
<1> QED BY <1>3, <1>4, <1>6, <1>7, <1>8, <1>9 DEF CitationsInv

-----------------------------------------------------------------------------
(* The theorems.                                                             *)

LEMMA InitInv == Init => CitationsInv
<1> SUFFICES ASSUME Init PROVE CitationsInv
  OBVIOUS
<1>1. TypeOK
  BY KnowledgeAssumption, IdleTyped DEF Init, TypeOK
<1>2. /\ \A o \in owners : Cited(o, cites) # {} /\ Ends[o] \subseteq owners
      /\ \A o \in owners : \A p \in Cited(o, cites) : Project[p] = Project[o]
      /\ \A row \in cites : row[1] \in owners /\ row \in Owners \X Parts
      /\ links = {}
      /\ \A v, w \in owners \cap (DOMAIN Edition) : Edition[v] = Edition[w] => v = w
  BY KnowledgeAssumption DEF Init, Cites
<1>3. EvidenceStaysHome
  <2> SUFFICES ASSUME NEW row \in cites PROVE Project[row[2]] = Project[row[1]]
    BY DEF EvidenceStaysHome
  <2>1. row[2] \in Cited(row[1], cites)
    BY <1>2 DEF Cited
  <2> QED BY <1>2, <2>1
<1>4. Committed
  BY <1>2, <1>3 DEF Committed, EveryOwnerCited, NothingDangles, HistoryIsAChain
<1>5. ASSUME NEW t \in Txns
      PROVE  txn[t] = Idle /\ OwnersSeen(t) = owners /\ CitesSeen(t) = cites /\ LinksSeen(t) = {}
  BY DEF Init, Idle, OwnersSeen, CitesSeen, LinksSeen
<1>6. \A t \in Txns : Own(t)
  BY <1>2, <1>5 DEF Own, Watched, Anchored, Idle
<1>7. \A t \in Txns : \A u \in Txns \ {t} : Apart(t, u)
  BY <1>5 DEF Apart, Idle
<1>8. \A t, u \in Txns : OneHistory(t, u)
  BY <1>2, <1>5 DEF OneHistory
<1> QED BY <1>1, <1>4, <1>6, <1>7, <1>8 DEF CitationsInv

LEMMA NextKeepsInv == CitationsInv /\ [Next]_vars => CitationsInv'
<1> SUFFICES ASSUME CitationsInv, [Next]_vars PROVE CitationsInv'
  OBVIOUS
<1>1. ASSUME NEW t \in Txns, Statement(t) PROVE CitationsInv'
  BY <1>1, StatementKeepsInv
<1>2. ASSUME NEW t \in Txns, Cascade(t) PROVE CitationsInv'
  BY <1>2, CascadeKeepsInv
<1>3. ASSUME NEW t \in Txns, StartCommit(t) PROVE CitationsInv'
  BY <1>3, StartCommitKeepsInv
<1>4. ASSUME NEW t \in Txns, NEW o \in txn[t].due, CheckOwner(t, o) PROVE CitationsInv'
  BY <1>4, CheckKeepsInv
<1>5. ASSUME NEW t \in Txns, Commit(t) PROVE CitationsInv'
  BY <1>5, CommitKeepsInv
<1>6. ASSUME NEW t \in Txns, RollsBack(t) PROVE CitationsInv'
  BY <1>6, RollbackKeepsInv
<1>7. CASE UNCHANGED vars
  <2>1. UNCHANGED <<owners, cites, links, txn, begun>>
    BY <1>7 DEF vars
  <2>2. TypeOK' /\ Committed'
    BY <2>1 DEF CitationsInv, TypeOK, Committed, EveryOwnerCited, EvidenceStaysHome,
       NothingDangles, HistoryIsAChain
  <2>3. ASSUME NEW t \in Txns
        PROVE  OwnersSeen(t)' = OwnersSeen(t) /\ CitesSeen(t)' = CitesSeen(t) /\ LinksSeen(t)' = LinksSeen(t)
    BY <2>1 DEF OwnersSeen, CitesSeen, LinksSeen
  <2>4. ASSUME NEW t \in Txns PROVE Own(t)'
    <3>1. Own(t) /\ \A o : Valid(t, o)' <=> Valid(t, o)
      BY <2>1, <2>3 DEF CitationsInv, Valid
    <3> QED BY <2>1, <2>3, <3>1 DEF Own
  <2>5. ASSUME NEW t \in Txns, NEW u \in Txns PROVE OneHistory(t, u)' /\ (t # u => Apart(t, u)')
    BY <2>1, <2>3 DEF CitationsInv, OneHistory, Apart
  <2> QED BY <2>2, <2>4, <2>5 DEF CitationsInv
<1> QED BY <1>1, <1>2, <1>3, <1>4, <1>5, <1>6, <1>7
        DEF Next, Triggers, RejectOwner, RejectLink, Rollback

LEMMA CitationsInductive == Spec => []CitationsInv
BY InitInv, NextKeepsInv, PTL DEF Spec

\* Every reachable state is well typed; in particular no transaction ever
\* deletes a published row or its evidence.
THEOREM CitationTypes == Spec => []TypeOK
BY CitationsInductive, PTL DEF CitationsInv

\* Whatever any number of sessions interleave, no owner is committed without
\* evidence: the deferred triggers of migration 0008 leave no write skew.
THEOREM OwnersAreCited == Spec => []EveryOwnerCited
BY CitationsInductive, PTL DEF CitationsInv, Committed

\* A committed citation never joins an owner to a part of another project.
THEOREM EvidenceIsLocal == Spec => []EvidenceStaysHome
BY CitationsInductive, PTL DEF CitationsInv, Committed

\* Cascades and foreign keys leave no row that refers to a missing one.
THEOREM ReferencesResolve == Spec => []NothingDangles
BY CitationsInductive, PTL DEF CitationsInv, Committed

\* Record versions form rising chains without forks or joins.
THEOREM HistoryIsLinear == Spec => []HistoryIsAChain
BY CitationsInductive, PTL DEF CitationsInv, Committed

\* A commit that only checks owners it added waits for no other transaction,
\* so extraction cannot be the victim of a deadlock here.
THEOREM OwnWorkIsFree == Spec => []OwnWorkNeverWaits
<1>1. CitationsInv => OwnWorkNeverWaits
  <2> SUFFICES ASSUME CitationsInv, NEW t \in Txns, txn[t].phase = "committing",
                      txn[t].due \cup txn[t].locks \subseteq txn[t].added,
                      NEW u \in Txns \ {t}, NEW o \in txn[t].due, Holds(u, o)
               PROVE  FALSE
    <3>1. ASSUME NEW t \in Txns, NEW u \in Txns, txn[t].phase = "committing", WaitsFor(t, u)
          PROVE  u # t /\ \E o \in txn[t].due : Holds(u, o)
      BY <3>1 DEF WaitsFor
    <3> QED BY <3>1 DEF OwnWorkNeverWaits
  <2>1. Own(t) /\ Own(u) /\ Apart(t, u) /\ NothingDangles /\ o \in txn[t].added /\ o \notin owners
    BY DEF CitationsInv, Committed, Own
  <2>2. o \notin txn[u].added /\ o \notin txn[u].removed \cup txn[u].shares
    BY <2>1 DEF Own, Apart
  <2>3. \A row \in txn[u].uncited : row[1] # o
    BY <2>1 DEF Own, NothingDangles
  <2>4. o \notin txn[u].locks
    BY <2>1, <2>2, <2>3 DEF Own, Anchored
  <2> QED BY <2>2, <2>4 DEF Holds, Exclusive
<1> QED BY <1>1, CitationsInductive, PTL

\* Published rows, their evidence and their supersessions are append-only.
THEOREM PublishedIsAppendOnly == Spec => PublishedOnlyGrows
<1> DEFINE Grows == /\ owners \cap Published \subseteq owners'
                    /\ {row \in cites : row[1] \in Published} \subseteq cites'
                    /\ links \subseteq links'
<1>1. ASSUME CitationsInv, NEW t \in Txns, Commit(t) PROVE Grows
  <2>1. txn[t] \in Transaction
    BY <1>1 DEF CitationsInv, TypeOK
  <2>2. /\ txn[t].removed \cap Published = {}
        /\ \A row \in txn[t].uncited : row[1] \notin Published
    BY <2>1, KnowledgeAssumption DEF Transaction
  <2> QED BY <1>1, <2>2 DEF Commit, OwnersSeen, CitesSeen, LinksSeen
<1>2. ASSUME CitationsInv, [Next]_vars PROVE [Grows]_vars
  <2>1. \/ UNCHANGED <<owners, cites, links>>
        \/ \E t \in Txns : Commit(t)
    <3>1. ASSUME NEW t \in Txns, NEW new, Does(t, new) PROVE UNCHANGED <<owners, cites, links>>
      BY <3>1 DEF Does
    <3>2. ASSUME NEW t \in Txns, Statement(t) PROVE UNCHANGED <<owners, cites, links>>
      BY <3>1, <3>2 DEF Statement, AddOwner, Cite, Uncite, Recite, Remove, Supersede
    <3>3. ASSUME NEW t \in Txns, Cascade(t) \/ StartCommit(t) \/ Rollback(t)
          PROVE  UNCHANGED <<owners, cites, links>>
      BY <3>3 DEF Cascade, StartCommit, Rollback, RollsBack
    <3>4. ASSUME NEW t \in Txns, Triggers(t), ~Commit(t) PROVE UNCHANGED <<owners, cites, links>>
      BY <3>4 DEF Triggers, CheckOwner, RejectOwner, RejectLink, RollsBack
    <3> QED BY <1>2, <3>2, <3>3, <3>4 DEF Next, vars
  <2> QED BY <1>1, <1>2, <2>1
<1> QED BY <1>2, CitationsInductive, PTL DEF Spec, PublishedOnlyGrows
===============================================================================
