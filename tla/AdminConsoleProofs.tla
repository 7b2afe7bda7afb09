------------------------ MODULE AdminConsoleProofs ------------------------
(***************************************************************************)
(* The catalogue's audit log tells what its rows hold, and the hosts of    *)
(* the resource console implement the catalogue.                           *)
(***************************************************************************)
EXTENDS AdminConsole, FiniteSetTheorems, TLAPS

-----------------------------------------------------------------------------
(* The catalogue. *)

\* Audit rows are about resources that exist (0 stands for none).
IdsExist == \A k \in DOMAIN audit : audit[k].id <= Len(rows)

\* What a row holds is among what the log says it has had.
AssetsAudited == \A id \in DOMAIN rows : rows[id].asset \in AssetsOf(id)

CatalogueInvariant ==
  CatalogueTypeOK /\ IdsExist /\ AssetsAudited /\ LastAuditDescribesRow

\* The initial tables: one resource, no audit rows.
LEMMA CatalogueStarts == CatalogueInit => CatalogueInvariant
<1>1. SUFFICES ASSUME CatalogueInit PROVE CatalogueInvariant
  OBVIOUS
<1>2. CatalogueTypeOK
  BY <1>1 DEF CatalogueInit, CatalogueTypeOK, Rows
<1>3. IdsExist
  BY <1>1 DEF CatalogueInit, IdsExist
<1>4. AssetsAudited
  BY <1>1 DEF CatalogueInit, AssetsAudited, AssetsOf
<1>5. LastAuditDescribesRow
  BY <1>1 DEF CatalogueInit, LastAuditDescribesRow
<1> QED
  BY <1>2, <1>3, <1>4, <1>5 DEF CatalogueInvariant

\* What is appended to the audit log is its last row, and the others stay.
LEMMA AuditGrows ==
  ASSUME CatalogueTypeOK, NEW e \in AuditRows, audit' = Append(audit, e)
  PROVE  /\ audit' \in Seq(AuditRows)
         /\ DOMAIN audit' = DOMAIN audit \cup {Len(audit) + 1}
         /\ DOMAIN audit = 1..Len(audit) /\ Len(audit) \in Nat
         /\ \A k \in DOMAIN audit : audit'[k] = audit[k]
         /\ audit'[Len(audit) + 1] = e
  BY DEF CatalogueTypeOK

\* An audit row is about a number.
LEMMA AuditIds ==
  /\ \A e \in AuditRows : e.id \in Nat
  /\ CatalogueTypeOK => \A k \in DOMAIN audit : audit[k] \in AuditRows
<1>1. \A e \in AuditRows : e.id \in Nat
  BY DEF AuditRows
<1>2. CatalogueTypeOK => \A k \in DOMAIN audit : audit[k] \in AuditRows
  BY DEF CatalogueTypeOK
<1> QED
  BY <1>1, <1>2

\* Nothing that was said of anyone or anything is unsaid.
LEMMA AuditRemembers ==
  ASSUME CatalogueTypeOK, NEW e \in AuditRows, audit' = Append(audit, e)
  PROVE  /\ \A u : SignedIn(u) => SignedIn(u)'
         /\ \A id : AssetsOf(id)' = AssetsOf(id) \cup (IF e.id = id THEN {e.after} ELSE {})
<1>1. \A u : SignedIn(u) => SignedIn(u)'
  BY AuditGrows DEF SignedIn
<1>2. ASSUME NEW id
      PROVE  AssetsOf(id)' = AssetsOf(id) \cup (IF e.id = id THEN {e.after} ELSE {})
  <2>1. {j \in DOMAIN audit' : audit'[j].id = id} =
          {j \in DOMAIN audit : audit[j].id = id}
            \cup (IF e.id = id THEN {Len(audit) + 1} ELSE {})
    BY AuditGrows
  <2> QED
    BY <2>1, AuditGrows DEF AssetsOf
<1> QED
  BY <1>1, <1>2

\* An audit row about no resource leaves the rows described as they were.
LEMMA VisitsDescribeNothing ==
  ASSUME CatalogueInvariant, rows' = rows,
         NEW e \in AuditRows, e.id = 0, audit' = Append(audit, e)
  PROVE  CatalogueInvariant'
<1> USE DEF CatalogueInvariant
<1>1. CatalogueTypeOK'
  BY AuditGrows DEF CatalogueTypeOK
<1>2. IdsExist'
  BY AuditGrows DEF IdsExist, CatalogueTypeOK
<1>3. AssetsAudited'
  <2>1. \A id : AssetsOf(id) \subseteq AssetsOf(id)'
    BY AuditRemembers
  <2> QED
    BY <2>1 DEF AssetsAudited
<1>4. LastAuditDescribesRow'
  <2>1. SUFFICES ASSUME NEW id \in DOMAIN rows
                 PROVE  {k \in DOMAIN audit' : audit'[k].id = id} =
                          {k \in DOMAIN audit : audit[k].id = id}
    BY AuditGrows DEF LastAuditDescribesRow
  <2>2. id # 0
    BY DEF CatalogueTypeOK
  <2> QED
    BY <2>2, AuditGrows
<1> QED
  BY <1>1, <1>2, <1>3, <1>4

\* A change of one row that is audited with what the row then holds.
LEMMA ChangeIsDescribed ==
  ASSUME CatalogueInvariant, NEW row \in Nat, row # 0,
         rows' \in Seq(Rows), row \in DOMAIN rows',
         Len(rows') \in {Len(rows), Len(rows) + 1},
         \A j \in DOMAIN rows' : j # row => j \in DOMAIN rows /\ rows'[j].asset = rows[j].asset,
         NEW e \in AuditRows, e.id = row, audit' = Append(audit, e),
         rows'[row].asset = e.after
  PROVE  CatalogueInvariant'
<1> USE DEF CatalogueInvariant
<1>1. CatalogueTypeOK'
  BY AuditGrows DEF CatalogueTypeOK
<1>2. IdsExist'
  <2>1. /\ Len(rows) \in Nat /\ Len(rows') \in Nat
        /\ Len(rows) <= Len(rows') /\ row <= Len(rows')
    BY DEF CatalogueTypeOK
  <2>2. e.id <= Len(rows')
    BY <2>1
  <2>3. ASSUME NEW k \in DOMAIN audit PROVE audit[k].id <= Len(rows')
    <3>1. audit[k].id <= Len(rows)
      BY <2>3 DEF IdsExist
    <3>2. audit[k].id \in Nat
      BY <2>3, AuditIds
    <3> QED
      BY <3>1, <3>2, <2>1
  <2> QED
    BY <2>2, <2>3, AuditGrows DEF IdsExist
<1>3. AssetsAudited'
  <2>1. SUFFICES ASSUME NEW j \in DOMAIN rows' PROVE rows'[j].asset \in AssetsOf(j)'
    BY DEF AssetsAudited
  <2>2. AssetsOf(j)' = AssetsOf(j) \cup (IF e.id = j THEN {e.after} ELSE {})
    BY AuditRemembers
  <2>3. CASE j = row
    BY <2>2, <2>3
  <2>4. CASE j # row
    BY <2>2, <2>4 DEF AssetsAudited
  <2> QED
    BY <2>3, <2>4
<1>4. LastAuditDescribesRow'
  <2> DEFINE about(j) == {k \in DOMAIN audit : audit[k].id = j}
  <2> DEFINE later(j) == {k \in DOMAIN audit' : audit'[k].id = j}
  <2>1. SUFFICES ASSUME NEW j \in DOMAIN rows'
                 PROVE  /\ later(j) = {} => rows'[j].asset = NoAsset
                        /\ \A k \in later(j) :
                             (\A i \in later(j) : i <= k) => rows'[j].asset = audit'[k].after
    BY DEF LastAuditDescribesRow
  <2>2. CASE j # row
    <3>1. later(j) = about(j)
      BY <2>2, AuditGrows
    <3>2. j \in DOMAIN rows /\ rows'[j].asset = rows[j].asset
      BY <2>2
    <3>3. \A k \in about(j) : audit'[k] = audit[k]
      BY AuditGrows
    <3> QED
      BY <3>1, <3>2, <3>3 DEF LastAuditDescribesRow
  <2>3. CASE j = row
    <3>1. Len(audit) + 1 \in later(j) /\ later(j) \subseteq 1..(Len(audit) + 1)
      BY <2>3, AuditGrows
    <3>2. ASSUME NEW k \in later(j), \A i \in later(j) : i <= k
          PROVE  k = Len(audit) + 1
      BY <3>1, <3>2, AuditGrows
    <3> QED
      BY <3>1, <3>2, <2>3, AuditGrows
  <2> QED
    BY <2>2, <2>3
<1> QED
  BY <1>1, <1>2, <1>3, <1>4

\* A change that is not audited and leaves the columns of the form alone.
LEMMA StatusIsNotDescribed ==
  ASSUME CatalogueInvariant, rows' \in Seq(Rows), Len(rows') = Len(rows), audit' = audit,
         \A j \in DOMAIN rows' : rows'[j].asset = rows[j].asset
  PROVE  CatalogueInvariant'
<1>1. DOMAIN rows' = DOMAIN rows
  BY DEF CatalogueInvariant, CatalogueTypeOK
<1>2. CatalogueTypeOK' /\ IdsExist'
  BY DEF CatalogueInvariant, CatalogueTypeOK, IdsExist
<1>3. AssetsAudited'
  BY <1>1 DEF CatalogueInvariant, AssetsAudited, AssetsOf
<1>4. LastAuditDescribesRow'
  BY <1>1 DEF CatalogueInvariant, LastAuditDescribesRow
<1> QED
  BY <1>2, <1>3, <1>4 DEF CatalogueInvariant

\* The rows the console writes to the audit log.
LEMMA RowsOfTheLog ==
  /\ \A u \in Users :
       /\ Row("login_success", u, 0, NoAsset, NoAsset) \in AuditRows
       /\ Row("logout", u, 0, NoAsset, NoAsset) \in AuditRows
       /\ \A n \in Nat, asset \in Assets \cup {NoAsset} :
            /\ Row("resource.create", u, n, NoAsset, asset) \in AuditRows
            /\ \A before \in Assets \cup {NoAsset} :
                 Row("resource.update", u, n, before, asset) \in AuditRows
  /\ \A action, u, n, before, asset :
       /\ Row(action, u, n, before, asset).action = action
       /\ Row(action, u, n, before, asset).actor = u
       /\ Row(action, u, n, before, asset).id = n
       /\ Row(action, u, n, before, asset).after = asset
  BY DEF Row, AuditRows

\* A before-image is an asset number.
LEMMA AssetsAreAssets ==
  ASSUME CatalogueTypeOK
  PROVE  \A id : AssetsOf(id) \subseteq Assets \cup {NoAsset}
<1>1. \A e \in AuditRows : e.after \in Assets \cup {NoAsset}
  BY DEF AuditRows
<1> QED
  BY <1>1, AuditIds DEF AssetsOf

\* What the two routes and the lifecycle do to the rows.
LEMMA RowIsInserted ==
  ASSUME CatalogueTypeOK, NEW asset \in Assets \cup {NoAsset},
         rows' = Append(rows, [asset |-> asset, status |-> "available"])
  PROVE  /\ rows' \in Seq(Rows)
         /\ Len(rows) \in Nat /\ Len(rows') = Len(rows) + 1
         /\ DOMAIN rows' = DOMAIN rows \cup {Len(rows')}
         /\ \A j \in DOMAIN rows : rows'[j] = rows[j]
         /\ rows'[Len(rows')].asset = asset
<1>1. [asset |-> asset, status |-> "available"] \in Rows
  BY DEF Rows
<1> QED
  BY <1>1 DEF CatalogueTypeOK

LEMMA RowIsUpdated ==
  ASSUME CatalogueTypeOK, NEW id \in DOMAIN rows, NEW asset \in Assets \cup {NoAsset},
         rows' = [rows EXCEPT ![id].asset = asset]
  PROVE  /\ rows' \in Seq(Rows)
         /\ id \in Nat /\ id # 0
         /\ Len(rows') = Len(rows) /\ DOMAIN rows' = DOMAIN rows
         /\ \A j \in DOMAIN rows : rows'[j].asset = IF j = id THEN asset ELSE rows[j].asset
<1>1. rows[id] \in Rows
  BY DEF CatalogueTypeOK
<1>2. [rows[id] EXCEPT !.asset = asset] \in Rows /\ [rows[id] EXCEPT !.asset = asset].asset = asset
  BY <1>1 DEF Rows
<1>3. rows' = [rows EXCEPT ![id] = [rows[id] EXCEPT !.asset = asset]]
  OBVIOUS
<1> QED
  BY <1>2, <1>3 DEF CatalogueTypeOK

LEMMA StatusIsWritten ==
  ASSUME CatalogueTypeOK, NEW id \in DOMAIN rows, ChangeStatus(id)
  PROVE  /\ rows' \in Seq(Rows)
         /\ Len(rows') = Len(rows) /\ DOMAIN rows' = DOMAIN rows
         /\ \A j \in DOMAIN rows : rows'[j].asset = rows[j].asset
<1> DEFINE status == IF rows[id].status = "damaged" THEN "available" ELSE "damaged"
<1>1. rows[id] \in Rows
  BY DEF CatalogueTypeOK
<1>2. /\ [rows[id] EXCEPT !.status = status] \in Rows
      /\ [rows[id] EXCEPT !.status = status].asset = rows[id].asset
  BY <1>1 DEF Rows
<1>3. rows' = [rows EXCEPT ![id] = [rows[id] EXCEPT !.status = status]]
  BY DEF ChangeStatus
<1> QED
  BY <1>2, <1>3 DEF CatalogueTypeOK

\* Every step of the catalogue keeps the log true to the rows.
LEMMA CatalogueKeeps ==
  CatalogueInvariant /\ [CatalogueNext]_<<rows, audit>> => CatalogueInvariant'
<1> SUFFICES ASSUME CatalogueInvariant, [CatalogueNext]_<<rows, audit>>
             PROVE  CatalogueInvariant'
  OBVIOUS
<1>0. CatalogueTypeOK
  BY DEF CatalogueInvariant
<1>1. ASSUME NEW u \in Users, SignIn(u) \/ SignOut(u) PROVE CatalogueInvariant'
  <2>1. PICK e \in AuditRows : e.id = 0 /\ audit' = Append(audit, e)
    BY <1>1, RowsOfTheLog DEF SignIn, SignOut
  <2>2. rows' = rows
    BY <1>1 DEF SignIn, SignOut
  <2> QED
    BY <2>1, <2>2, VisitsDescribeNothing
<1>2. ASSUME NEW u \in Users, NEW asset \in Assets \cup {NoAsset}, CreateResource(u, asset)
      PROVE  CatalogueInvariant'
  <2> DEFINE e == Row("resource.create", u, Len(rows'), NoAsset, asset)
  <2>1. rows' = Append(rows, [asset |-> asset, status |-> "available"])
    BY <1>2 DEF CreateResource
  <2>2. /\ rows' \in Seq(Rows) /\ Len(rows) \in Nat /\ Len(rows') = Len(rows) + 1
        /\ DOMAIN rows' = DOMAIN rows \cup {Len(rows')}
        /\ \A j \in DOMAIN rows : rows'[j] = rows[j]
        /\ rows'[Len(rows')].asset = asset
    BY <1>0, <2>1, RowIsInserted
  <2>3. Len(rows') \in Nat /\ Len(rows') # 0
    BY <2>2
  <2>4. e \in AuditRows /\ e.id = Len(rows') /\ e.after = asset /\ audit' = Append(audit, e)
    BY <1>2, <2>3, RowsOfTheLog DEF CreateResource
  <2> HIDE DEF e
  <2> QED
    BY <2>2, <2>3, <2>4, ChangeIsDescribed
<1>3. ASSUME NEW u \in Users, NEW asset \in Assets \cup {NoAsset}, NEW id \in DOMAIN rows,
             EditResource(u, id, asset)
      PROVE  CatalogueInvariant'
  <2>1. rows' = [rows EXCEPT ![id].asset = asset]
    BY <1>3 DEF EditResource
  <2>2. /\ rows' \in Seq(Rows) /\ id \in Nat /\ id # 0
        /\ Len(rows') = Len(rows) /\ DOMAIN rows' = DOMAIN rows
        /\ \A j \in DOMAIN rows : rows'[j].asset = IF j = id THEN asset ELSE rows[j].asset
    BY <1>0, <2>1, RowIsUpdated
  <2>3. PICK before \in AssetsOf(id) :
          audit' = Append(audit, Row("resource.update", u, id, before, asset))
    BY <1>3 DEF EditResource
  <2> DEFINE e == Row("resource.update", u, id, before, asset)
  <2>4. before \in Assets \cup {NoAsset}
    BY <1>0, AssetsAreAssets
  <2>5. e \in AuditRows
    BY <2>2, <2>4, RowsOfTheLog
  <2>6. e.id = id /\ e.after = asset
    BY RowsOfTheLog
  <2>7. audit' = Append(audit, e)
    BY <2>3
  <2> HIDE DEF e
  <2> QED
    BY <2>2, <2>5, <2>6, <2>7, ChangeIsDescribed
<1>4. ASSUME NEW id \in DOMAIN rows, ChangeStatus(id) PROVE CatalogueInvariant'
  BY <1>0, <1>4, StatusIsWritten, StatusIsNotDescribed DEF ChangeStatus
<1>5. CASE UNCHANGED <<rows, audit>>
  BY <1>0, <1>5, StatusIsNotDescribed DEF CatalogueTypeOK
<1> QED
  BY <1>1, <1>2, <1>3, <1>4, <1>5 DEF CatalogueNext

\* No step takes back what was said, or a row.
LEMMA CatalogueRemembers ==
  ASSUME CatalogueInvariant, CatalogueNext
  PROVE  /\ DOMAIN rows \subseteq DOMAIN rows'
         /\ \A u : SignedIn(u) => SignedIn(u)'
         /\ \A id : AssetsOf(id) \subseteq AssetsOf(id)'
<1>0. CatalogueTypeOK
  BY DEF CatalogueInvariant
<1> DEFINE Remembers == /\ DOMAIN rows \subseteq DOMAIN rows'
                        /\ audit' = audit \/ \E e \in AuditRows : audit' = Append(audit, e)
<1>1. ASSUME NEW u \in Users, SignIn(u) \/ SignOut(u) PROVE Remembers
  BY <1>1, RowsOfTheLog DEF SignIn, SignOut
<1>2. ASSUME NEW u \in Users, NEW asset \in Assets \cup {NoAsset}, CreateResource(u, asset)
      PROVE  Remembers
  <2>1. rows' = Append(rows, [asset |-> asset, status |-> "available"])
    BY <1>2 DEF CreateResource
  <2>2. Len(rows') \in Nat /\ DOMAIN rows \subseteq DOMAIN rows'
    BY <1>0, <2>1, RowIsInserted
  <2>3. Row("resource.create", u, Len(rows'), NoAsset, asset) \in AuditRows
    BY <2>2, RowsOfTheLog
  <2> QED
    BY <1>2, <2>2, <2>3 DEF CreateResource
<1>3. ASSUME NEW u \in Users, NEW asset \in Assets \cup {NoAsset}, NEW id \in DOMAIN rows,
             EditResource(u, id, asset)
      PROVE  Remembers
  <2>1. rows' = [rows EXCEPT ![id].asset = asset]
    BY <1>3 DEF EditResource
  <2>2. id \in Nat /\ DOMAIN rows' = DOMAIN rows
    BY <1>0, <2>1, RowIsUpdated
  <2>3. PICK before \in AssetsOf(id) :
          audit' = Append(audit, Row("resource.update", u, id, before, asset))
    BY <1>3 DEF EditResource
  <2>4. before \in Assets \cup {NoAsset}
    BY <1>0, AssetsAreAssets
  <2>5. Row("resource.update", u, id, before, asset) \in AuditRows
    BY <2>2, <2>4, RowsOfTheLog
  <2> QED
    BY <2>2, <2>3, <2>5
<1>4. ASSUME NEW id \in DOMAIN rows, ChangeStatus(id) PROVE Remembers
  BY <1>0, <1>4, StatusIsWritten DEF ChangeStatus
<1>5. Remembers
  BY <1>1, <1>2, <1>3, <1>4 DEF CatalogueNext
<1>6. CASE audit' = audit
  BY <1>5, <1>6 DEF SignedIn, AssetsOf
<1>7. CASE \E e \in AuditRows : audit' = Append(audit, e)
  BY <1>0, <1>5, <1>7, AuditRemembers
<1> QED
  BY <1>5, <1>6, <1>7

\* In every behaviour of the catalogue the last audit row of a resource describes
\* it as it is.
THEOREM CatalogueIsDescribed == CatalogueSpec => []LastAuditDescribesRow
<1>1. CatalogueInvariant => LastAuditDescribesRow
  BY DEF CatalogueInvariant
<1> QED
  BY CatalogueStarts, CatalogueKeeps, <1>1, PTL DEF CatalogueSpec

-----------------------------------------------------------------------------
(* The console. *)

States == {"idle", "read", "write", "audit", "commit", "sign"}

Types ==
  /\ pc \in [Hosts -> States]
  /\ req \in [Hosts -> Requests \cup {NoRequest}]
  /\ user \in [Hosts -> Users \cup {Nobody}]
  /\ seen \in [Hosts -> Rows \cup {NoRow}]

\* Only those have a cookie of whom the log says that they have signed in.
Visitors == \A c \in issued : c.uid \in Users /\ SignedIn(c.uid)

Locked == \A h \in Hosts : pc[h] \in {"audit", "commit"} <=> writer = h

\* Host h acts for a user, who has signed in unless that is what h is about.
Acting(h) ==
  /\ pc[h] = "read" /\ user[h] # Nobody => user[h] \in Users /\ SignedIn(user[h])
  /\ pc[h] \in {"write", "audit", "commit", "sign"} => user[h] \in Users
  /\ pc[h] \in {"write", "audit", "commit"} =>
       /\ req[h].op # "login" => SignedIn(user[h])
       /\ req[h].op = "create" => CanWrite(user[h])
       /\ req[h].op = "edit" =>
            /\ req[h].id \in DOMAIN rows /\ CanManage(user[h], req[h].id)
            /\ seen[h].asset \in AssetsOf(req[h].id)
  /\ pc[h] = "sign" => SignedIn(user[h])

\* What host h has staged: the rows, and in the end the audit row.
Entry(h) ==
  IF req[h].op = "login" THEN Row("login_success", user[h], 0, NoAsset, NoAsset)
  ELSE IF req[h].op = "logout" THEN Row("logout", user[h], 0, NoAsset, NoAsset)
  ELSE IF req[h].op = "create"
    THEN Row("resource.create", user[h], Len(work.rows), NoAsset, req[h].asset)
  ELSE Row("resource.update", user[h], req[h].id, seen[h].asset, req[h].asset)

RowsStaged(h) ==
  /\ req[h].op \in {"login", "logout"} => work.rows = rows
  /\ req[h].op = "create" =>
       /\ ~Taken(req[h].asset, 0)
       /\ work.rows = Append(rows, [asset |-> req[h].asset, status |-> "available"])
  /\ req[h].op = "edit" =>
       /\ ~Taken(req[h].asset, req[h].id)
       /\ work.rows = [rows EXCEPT ![req[h].id].asset = req[h].asset]

Staged(h) ==
  /\ pc[h] = "audit" =>
       req[h].op \in {"create", "edit"} /\ RowsStaged(h) /\ work.audit = audit
  /\ pc[h] = "commit" =>
       /\ req[h].op \in {"login", "logout", "create", "edit"}
       /\ RowsStaged(h) /\ work.audit = Append(audit, Entry(h))

ConsoleInvariant ==
  /\ CatalogueInvariant /\ Types /\ Visitors /\ Locked
  /\ \A h \in Hosts : Acting(h) /\ Staged(h)

\* What a request carries.
LEMMA RequestFields ==
  \A q \in Requests \cup {NoRequest} :
    /\ q.op \in {"login", "logout", "create", "edit", "none"}
    /\ q.op = "login" => q.user \in Users
    /\ q.op \in {"create", "edit"} => q.asset \in Assets \cup {NoAsset}
  BY DEF Requests, NoRequest

-----------------------------------------------------------------------------
(* What a step leaves alone. *)

Same(h) == pc'[h] = pc[h] /\ req'[h] = req[h] /\ user'[h] = user[h] /\ seen'[h] = seen[h]

InTransaction(h) == pc[h] \in {"audit", "commit"}

\* A host that another one's step does not concern: the tables only grow, and
\* stay as they are during its own transaction.
LEMMA OthersKeep ==
  ASSUME NEW h \in Hosts, Acting(h), Staged(h), Same(h),
         DOMAIN rows \subseteq DOMAIN rows',
         \A u : SignedIn(u) => SignedIn(u)',
         \A id : AssetsOf(id) \subseteq AssetsOf(id)',
         InTransaction(h) => rows' = rows /\ audit' = audit /\ work' = work
  PROVE  Acting(h)' /\ Staged(h)'
<1>1. Acting(h)'
  BY DEF Acting, Same, CanWrite, CanManage
<1>2. Staged(h)'
  <2>1. CASE ~InTransaction(h)
    BY <2>1 DEF Staged, Same, InTransaction
  <2>2. CASE InTransaction(h)
    <3>1. rows' = rows /\ audit' = audit /\ work' = work
      BY <2>2
    <3>2. RowsStaged(h) => RowsStaged(h)'
      BY <3>1 DEF RowsStaged, Same, Taken
    <3>3. Entry(h)' = Entry(h)
      BY <3>1 DEF Entry, Same, Row
    <3> QED
      BY <3>1, <3>2, <3>3 DEF Staged, Same
  <2> QED
    BY <2>1, <2>2
<1> QED
  BY <1>1, <1>2

\* A step of host h that commits nothing.
LEMMA QuietStep ==
  ASSUME ConsoleInvariant, NEW h \in Hosts,
         rows' = rows, audit' = audit,
         \A c \in issued' : c \in issued \/ (c.uid \in Users /\ SignedIn(c.uid)),
         \A g \in Hosts : g # h => Same(g) /\ (InTransaction(g) => work' = work),
         Types', Locked', Acting(h)', Staged(h)'
  PROVE  ConsoleInvariant'
<1>1. CatalogueInvariant'
  BY CatalogueKeeps DEF ConsoleInvariant
<1>2. (\A u : SignedIn(u)' = SignedIn(u)) /\ \A id : AssetsOf(id)' = AssetsOf(id)
  BY DEF SignedIn, AssetsOf
<1>3. Visitors'
  BY <1>2 DEF Visitors, ConsoleInvariant
<1>4. ASSUME NEW g \in Hosts PROVE Acting(g)' /\ Staged(g)'
  <2>1. CASE g = h
    BY <2>1
  <2>2. CASE g # h
    <3>1. Acting(g) /\ Staged(g)
      BY DEF ConsoleInvariant
    <3>2. Same(g) /\ (InTransaction(g) => rows' = rows /\ audit' = audit /\ work' = work)
      BY <2>2
    <3> QED
      BY <1>2, <3>1, <3>2, OthersKeep
  <2> QED
    BY <2>1, <2>2
<1> QED
  BY <1>1, <1>3, <1>4 DEF ConsoleInvariant

-----------------------------------------------------------------------------
(* The steps of a host. *)

\* At the start nobody is at work.
LEMMA ConsoleStarts ==
  ASSUME ConsoleInit
  PROVE  ConsoleInvariant
<1>1. CatalogueInvariant
  BY CatalogueStarts DEF ConsoleInit
<1>2. Types
  BY DEF ConsoleInit, Types, States
<1>3. Visitors
  BY DEF ConsoleInit, Visitors, SessionsInit
<1>4. Locked
  BY HostsAssumption DEF ConsoleInit, Locked
<1>5. \A h \in Hosts : Acting(h) /\ Staged(h)
  BY DEF ConsoleInit, Acting, Staged
<1> QED
  BY <1>1, <1>2, <1>3, <1>4, <1>5 DEF ConsoleInvariant

\* A handler that answers without a commit.
LEMMA AnswerKeeps ==
  ASSUME ConsoleInvariant, NEW h \in Hosts, Answer(h)
  PROVE  ConsoleInvariant'
<1>1. Types'
  BY DEF ConsoleInvariant, Types, Answer, Goto, States
<1>2. Locked'
  BY HostsAssumption DEF ConsoleInvariant, Types, Locked, Answer, Goto
<1>3. \A g \in Hosts : g # h => Same(g) /\ (InTransaction(g) => work' = work)
  BY HostsAssumption DEF ConsoleInvariant, Types, Locked, Answer, Goto, Same, InTransaction
<1>4. pc'[h] = "idle"
  BY DEF ConsoleInvariant, Types, Answer, Goto
<1>5. Acting(h)' /\ Staged(h)'
  BY <1>4 DEF Acting, Staged
<1>6. rows' = rows /\ audit' = audit /\ issued' = issued
  BY DEF Answer, sessionVars
<1> QED
  BY <1>1, <1>2, <1>3, <1>5, <1>6, QuietStep

\* A request comes in; whoever it comes from has signed in.
LEMMA ReceiveKeeps ==
  ASSUME ConsoleInvariant, NEW h \in Hosts, Receive(h)
  PROVE  ConsoleInvariant'
<1>1. PICK q \in Requests, c \in issued \cup {NoCookie} :
        req' = [req EXCEPT ![h] = q] /\ user' = [user EXCEPT ![h] = CurrentUser(h, c)]
  BY DEF Receive
<1>2. \/ CurrentUser(h, c) = Nobody
      \/ CurrentUser(h, c) \in Users /\ SignedIn(CurrentUser(h, c))
  BY DEF CurrentUser, VerifySession, ConsoleInvariant, Visitors
<1>3. /\ pc[h] = "idle" /\ pc' = [pc EXCEPT ![h] = "read"]
      /\ UNCHANGED <<rows, audit, writer, work, seen, issued>>
  BY DEF Receive, Goto, sessionVars
<1>4. Types'
  BY <1>1, <1>2, <1>3 DEF ConsoleInvariant, Types, States
<1>5. Locked'
  BY HostsAssumption, <1>3 DEF ConsoleInvariant, Types, Locked
<1>6. \A g \in Hosts : g # h => Same(g) /\ (InTransaction(g) => work' = work)
  BY <1>1, <1>3 DEF ConsoleInvariant, Types, Same
<1>7. pc'[h] = "read" /\ user'[h] = CurrentUser(h, c)
  BY <1>1, <1>3 DEF ConsoleInvariant, Types
<1>8. SignedIn(CurrentUser(h, c)) => SignedIn(user[h])'
  BY <1>3, <1>7 DEF SignedIn
<1>9. Acting(h)' /\ Staged(h)'
  BY <1>2, <1>7, <1>8 DEF Acting, Staged
<1> QED
  BY <1>3, <1>4, <1>5, <1>6, <1>9, QuietStep

\* The reads go on with a request of someone who may make it.
LEMMA ProceedKeeps ==
  ASSUME ConsoleInvariant, NEW h \in Hosts, pc[h] = "read",
         NEW u \in Users, NEW row \in Rows \cup {NoRow}, Proceed(h, u, row),
         req[h].op # "login" => SignedIn(u),
         req[h].op = "create" => CanWrite(u),
         req[h].op = "edit" =>
           /\ req[h].id \in DOMAIN rows /\ CanManage(u, req[h].id)
           /\ row.asset \in AssetsOf(req[h].id)
  PROVE  ConsoleInvariant'
<1>1. /\ pc' = [pc EXCEPT ![h] = "write"]
      /\ user' = [user EXCEPT ![h] = u] /\ seen' = [seen EXCEPT ![h] = row]
      /\ UNCHANGED <<rows, audit, writer, work, req, issued>>
  BY DEF Proceed, Goto, sessionVars
<1>2. Types'
  BY <1>1 DEF ConsoleInvariant, Types, States
<1>3. Locked'
  BY HostsAssumption, <1>1 DEF ConsoleInvariant, Types, Locked
<1>4. \A g \in Hosts : g # h => Same(g) /\ (InTransaction(g) => work' = work)
  BY <1>1 DEF ConsoleInvariant, Types, Same
<1>5. pc'[h] = "write" /\ user'[h] = u /\ seen'[h] = row /\ req'[h] = req[h]
  BY <1>1 DEF ConsoleInvariant, Types
<1>6. (SignedIn(u) => SignedIn(user[h])') /\ \A id : AssetsOf(id)' = AssetsOf(id)
  BY <1>1, <1>5 DEF SignedIn, AssetsOf
<1>7. Acting(h)'
  BY <1>1, <1>5, <1>6 DEF Acting, CanWrite, CanManage
<1>8. Staged(h)'
  BY <1>5 DEF Staged
<1> QED
  BY <1>1, <1>2, <1>3, <1>4, <1>7, <1>8, QuietStep

\* The four reads.
LEMMA ReadsKeep ==
  ASSUME ConsoleInvariant, NEW h \in Hosts,
         ReadForLogin(h) \/ ReadForLogout(h) \/ ReadForCreate(h) \/ ReadForEdit(h)
  PROVE  ConsoleInvariant'
<1>1. CASE Answer(h)
  BY <1>1, AnswerKeeps
<1>2. pc[h] = "read" /\ req[h] \in Requests \cup {NoRequest}
  BY DEF ReadForLogin, ReadForLogout, ReadForCreate, ReadForEdit, ConsoleInvariant, Types
<1>3. user[h] # Nobody => user[h] \in Users /\ SignedIn(user[h])
  BY <1>2 DEF ConsoleInvariant, Acting
<1>4. NoRow \in Rows \cup {NoRow}
  OBVIOUS
<1>5. CASE ReadForLogin(h) /\ ~Answer(h)
  <2>1. req[h].op = "login" /\ Proceed(h, req[h].user, NoRow)
    BY <1>5 DEF ReadForLogin
  <2>2. req[h].user \in Users
    BY <1>2, <2>1, RequestFields
  <2> QED
    BY <1>2, <1>4, <2>1, <2>2, ProceedKeeps
<1>6. CASE ReadForLogout(h) /\ ~Answer(h)
  <2>1. req[h].op = "logout" /\ user[h] # Nobody /\ Proceed(h, user[h], NoRow)
    BY <1>6 DEF ReadForLogout
  <2> QED
    BY <1>2, <1>3, <1>4, <2>1, ProceedKeeps
<1>7. CASE ReadForCreate(h) /\ ~Answer(h)
  <2>1. /\ req[h].op = "create" /\ user[h] # Nobody /\ CanWrite(user[h])
        /\ Proceed(h, user[h], NoRow)
    BY <1>7 DEF ReadForCreate
  <2> QED
    BY <1>2, <1>3, <1>4, <2>1, ProceedKeeps
<1>8. CASE ReadForEdit(h) /\ ~Answer(h)
  <2>1. /\ req[h].op = "edit" /\ user[h] # Nobody
        /\ req[h].id \in DOMAIN rows /\ CanManage(user[h], req[h].id)
        /\ Proceed(h, user[h], rows[req[h].id])
    BY <1>8 DEF ReadForEdit
  <2>2. rows[req[h].id] \in Rows
    BY <2>1 DEF ConsoleInvariant, CatalogueInvariant, CatalogueTypeOK
  <2>3. rows[req[h].id].asset \in AssetsOf(req[h].id)
    BY <2>1 DEF ConsoleInvariant, CatalogueInvariant, AssetsAudited
  <2> QED
    BY <1>2, <1>3, <2>1, <2>2, <2>3, ProceedKeeps
<1> QED
  BY <1>1, <1>5, <1>6, <1>7, <1>8

\* The first statement takes the lock; nobody else has anything staged.
LEMMA WriteKeeps ==
  ASSUME ConsoleInvariant, NEW h \in Hosts, pc[h] = "write",
         NEW tables, NEW next \in {"audit", "commit"}, Write(h, tables, next),
         Staged(h)'
  PROVE  ConsoleInvariant'
<1>1. /\ writer = NoHost /\ writer' = h /\ pc' = [pc EXCEPT ![h] = next]
      /\ UNCHANGED <<rows, audit, req, user, seen, issued>>
  BY DEF Write, Goto, sessionVars
<1>2. \A g \in Hosts : ~InTransaction(g)
  BY <1>1, HostsAssumption DEF ConsoleInvariant, Locked, InTransaction
<1>3. Types'
  BY <1>1 DEF ConsoleInvariant, Types, States
<1>4. Locked'
  BY HostsAssumption, <1>1, <1>2 DEF ConsoleInvariant, Types, Locked, InTransaction
<1>5. \A g \in Hosts : g # h => Same(g) /\ (InTransaction(g) => work' = work)
  BY <1>1, <1>2 DEF ConsoleInvariant, Types, Same
<1>6. pc'[h] = next
  BY <1>1 DEF ConsoleInvariant, Types
<1>7. (SignedIn(user[h]) => SignedIn(user[h])') /\ \A id : AssetsOf(id)' = AssetsOf(id)
  BY <1>1 DEF SignedIn, AssetsOf
<1>8. Acting(h)'
  BY <1>1, <1>6, <1>7 DEF ConsoleInvariant, Acting, CanWrite, CanManage
<1> QED
  BY <1>1, <1>3, <1>4, <1>5, <1>8, QuietStep

LEMMA WriteVisitKeeps ==
  ASSUME ConsoleInvariant, NEW h \in Hosts, WriteVisit(h)
  PROVE  ConsoleInvariant'
<1> DEFINE action == IF req[h].op = "login" THEN "login_success" ELSE "logout"
<1> DEFINE tables == [Tables EXCEPT !.audit = Append(@, Row(action, user[h], 0, NoAsset, NoAsset))]
<1>1. pc[h] = "write" /\ req[h].op \in {"login", "logout"} /\ Write(h, tables, "commit")
  BY DEF WriteVisit
<1>2. tables.rows = rows /\ tables.audit = Append(audit, Row(action, user[h], 0, NoAsset, NoAsset))
  BY DEF Tables
<1>3. /\ pc'[h] = "commit" /\ work' = tables
      /\ UNCHANGED <<rows, audit, req, user, seen>>
  BY <1>1 DEF Write, Goto, ConsoleInvariant, Types
<1> HIDE DEF tables
<1>4. Staged(h)'
  BY <1>1, <1>2, <1>3 DEF Staged, RowsStaged, Entry
<1> QED
  BY <1>1, <1>4, WriteKeeps

LEMMA InsertKeeps ==
  ASSUME ConsoleInvariant, NEW h \in Hosts, InsertResource(h)
  PROVE  ConsoleInvariant'
<1> DEFINE row == [asset |-> req[h].asset, status |-> "available"]
<1> DEFINE tables == [Tables EXCEPT !.rows = Append(@, row)]
<1>1. /\ pc[h] = "write" /\ req[h].op = "create" /\ ~Taken(req[h].asset, 0)
      /\ Write(h, tables, "audit")
  BY DEF InsertResource
<1>2. tables.rows = Append(rows, row) /\ tables.audit = audit
  BY DEF Tables
<1>3. /\ pc'[h] = "audit" /\ work' = tables
      /\ UNCHANGED <<rows, audit, req, user, seen>>
  BY <1>1 DEF Write, Goto, ConsoleInvariant, Types
<1> HIDE DEF tables
<1>4. Staged(h)'
  BY <1>1, <1>2, <1>3 DEF Staged, RowsStaged, Taken
<1> QED
  BY <1>1, <1>4, WriteKeeps

LEMMA UpdateKeeps ==
  ASSUME ConsoleInvariant, NEW h \in Hosts, UpdateResource(h)
  PROVE  ConsoleInvariant'
<1> DEFINE changed == [rows EXCEPT ![req[h].id].asset = req[h].asset]
<1> DEFINE tables == [Tables EXCEPT !.rows[req[h].id].asset = req[h].asset]
<1>1. /\ pc[h] = "write" /\ req[h].op = "edit" /\ ~Taken(req[h].asset, req[h].id)
      /\ Write(h, tables, "audit")
  BY DEF UpdateResource
<1>2. tables.rows = changed /\ tables.audit = audit
  BY DEF Tables
<1>3. /\ pc'[h] = "audit" /\ work' = tables
      /\ UNCHANGED <<rows, audit, req, user, seen>>
  BY <1>1 DEF Write, Goto, ConsoleInvariant, Types
<1> HIDE DEF tables
<1>4. Staged(h)'
  BY <1>1, <1>2, <1>3 DEF Staged, RowsStaged, Taken
<1> QED
  BY <1>1, <1>4, WriteKeeps

\* The audit row joins what is staged.
LEMMA AuditKeeps ==
  ASSUME ConsoleInvariant, NEW h \in Hosts, Audit(h)
  PROVE  ConsoleInvariant'
<1>1. /\ pc[h] = "audit" /\ pc' = [pc EXCEPT ![h] = "commit"]
      /\ UNCHANGED <<rows, audit, writer, req, user, seen, issued>>
  BY DEF Audit, Goto, sessionVars
<1>2. req[h].op \in {"create", "edit"} /\ RowsStaged(h) /\ work.audit = audit
  BY <1>1 DEF ConsoleInvariant, Staged
<1>3. pc'[h] = "commit"
  BY <1>1 DEF ConsoleInvariant, Types
<1>4. work'.rows = work.rows /\ work'.audit = Append(audit, Entry(h))
  BY <1>2 DEF Audit, Entry
<1>5. Types'
  BY <1>1 DEF ConsoleInvariant, Types, States
<1>6. Locked'
  BY HostsAssumption, <1>1 DEF ConsoleInvariant, Types, Locked
<1>7. \A g \in Hosts : g # h => Same(g) /\ (InTransaction(g) => work' = work)
  BY <1>1 DEF ConsoleInvariant, Types, Locked, Same, InTransaction
<1>8. (SignedIn(user[h]) => SignedIn(user[h])') /\ \A id : AssetsOf(id)' = AssetsOf(id)
  BY <1>1 DEF SignedIn, AssetsOf
<1>9. Acting(h)'
  BY <1>1, <1>3, <1>8 DEF ConsoleInvariant, Acting, CanWrite, CanManage
<1>10. RowsStaged(h)' /\ Entry(h)' = Entry(h)
  BY <1>1, <1>2, <1>4 DEF RowsStaged, Entry, Taken
<1>11. Staged(h)'
  BY <1>1, <1>2, <1>3, <1>4, <1>10 DEF Staged
<1> QED
  BY <1>1, <1>5, <1>6, <1>7, <1>9, <1>11, QuietStep

\* The cookie of a login that is recorded.
LEMMA SignKeeps ==
  ASSUME ConsoleInvariant, NEW h \in Hosts, Sign(h)
  PROVE  ConsoleInvariant'
<1>1. /\ pc[h] = "sign" /\ pc' = [pc EXCEPT ![h] = "idle"]
      /\ req' = [req EXCEPT ![h] = NoRequest] /\ user' = [user EXCEPT ![h] = Nobody]
      /\ UNCHANGED <<rows, audit, writer, work, seen>>
      /\ issued' = issued \cup {SignSession(h, user[h])}
  BY DEF Sign, Goto, Issue
<1>2. SignSession(h, user[h]).uid = user[h]
  BY DEF SignSession
<1>3. user[h] \in Users /\ SignedIn(user[h])
  BY <1>1 DEF ConsoleInvariant, Acting
<1>4. \A c \in issued' : c \in issued \/ (c.uid \in Users /\ SignedIn(c.uid))
  BY <1>1, <1>2, <1>3
<1>5. Types'
  BY <1>1 DEF ConsoleInvariant, Types, States
<1>6. Locked'
  BY HostsAssumption, <1>1 DEF ConsoleInvariant, Types, Locked
<1>7. \A g \in Hosts : g # h => Same(g) /\ (InTransaction(g) => work' = work)
  BY <1>1 DEF ConsoleInvariant, Types, Same
<1>8. pc'[h] = "idle"
  BY <1>1 DEF ConsoleInvariant, Types
<1>9. Acting(h)' /\ Staged(h)'
  BY <1>8 DEF Acting, Staged
<1> QED
  BY <1>1, <1>4, <1>5, <1>6, <1>7, <1>9, QuietStep

-----------------------------------------------------------------------------
(* The steps that change the tables. *)

\* A commit is the step of the catalogue that the request stands for.
LEMMA CommitIsStep ==
  ASSUME ConsoleInvariant, NEW h \in Hosts, Commit(h)
  PROVE  CatalogueNext
<1>1. /\ pc[h] = "commit" /\ rows' = work.rows /\ audit' = work.audit
  BY DEF Commit
<1>2. /\ req[h].op \in {"login", "logout", "create", "edit"} /\ RowsStaged(h)
      /\ audit' = Append(audit, Entry(h))
  BY <1>1 DEF ConsoleInvariant, Staged
<1>3. /\ user[h] \in Users
      /\ req[h].op # "login" => SignedIn(user[h])
      /\ req[h].op = "create" => CanWrite(user[h])
      /\ req[h].op = "edit" =>
           /\ req[h].id \in DOMAIN rows /\ CanManage(user[h], req[h].id)
           /\ seen[h].asset \in AssetsOf(req[h].id)
  BY <1>1 DEF ConsoleInvariant, Acting
<1>4. req[h].op \in {"create", "edit"} => req[h].asset \in Assets \cup {NoAsset}
  BY RequestFields DEF ConsoleInvariant, Types
<1>5. CASE req[h].op = "login"
  <2>1. SignIn(user[h])
    BY <1>1, <1>2, <1>5 DEF SignIn, RowsStaged, Entry
  <2> QED
    BY <1>3, <2>1 DEF CatalogueNext
<1>6. CASE req[h].op = "logout"
  <2>1. SignOut(user[h])
    BY <1>1, <1>2, <1>3, <1>6 DEF SignOut, RowsStaged, Entry
  <2> QED
    BY <1>3, <2>1 DEF CatalogueNext
<1>7. CASE req[h].op = "create"
  <2>1. CreateResource(user[h], req[h].asset)
    BY <1>1, <1>2, <1>3, <1>7 DEF CreateResource, RowsStaged, Entry
  <2> QED
    BY <1>3, <1>4, <1>7, <2>1 DEF CatalogueNext
<1>8. CASE req[h].op = "edit"
  <2>1. EditResource(user[h], req[h].id, req[h].asset)
    BY <1>1, <1>2, <1>3, <1>8 DEF EditResource, RowsStaged, Entry
  <2> QED
    BY <1>3, <1>4, <1>8, <2>1 DEF CatalogueNext
<1> QED
  BY <1>2, <1>5, <1>6, <1>7, <1>8

LEMMA CommitKeeps ==
  ASSUME ConsoleInvariant, NEW h \in Hosts, Commit(h)
  PROVE  ConsoleInvariant'
<1> DEFINE login == req[h].op = "login"
<1>1. /\ pc[h] = "commit" /\ audit' = work.audit /\ writer' = NoHost
      /\ pc' = [pc EXCEPT ![h] = IF login THEN "sign" ELSE "idle"]
      /\ req' = [req EXCEPT ![h] = IF @.op = "login" THEN @ ELSE NoRequest]
      /\ user' = [user EXCEPT ![h] = IF login THEN @ ELSE Nobody]
      /\ seen' = [seen EXCEPT ![h] = NoRow]
      /\ UNCHANGED <<work, issued>>
  BY DEF Commit, Goto, sessionVars
<1>2. CatalogueNext
  BY CommitIsStep
<1>3. CatalogueInvariant
  BY DEF ConsoleInvariant
<1>4. /\ DOMAIN rows \subseteq DOMAIN rows'
      /\ \A u : SignedIn(u) => SignedIn(u)'
      /\ \A id : AssetsOf(id) \subseteq AssetsOf(id)'
  BY <1>2, <1>3, CatalogueRemembers
<1>5. CatalogueInvariant'
  BY <1>2, <1>3, CatalogueKeeps
<1>6. Types'
  BY <1>1 DEF ConsoleInvariant, Types, States
<1>7. Visitors'
  BY <1>1, <1>4 DEF ConsoleInvariant, Visitors
<1>8. Locked'
  BY HostsAssumption, <1>1 DEF ConsoleInvariant, Types, Locked
<1>9. ASSUME NEW g \in Hosts, g # h PROVE Acting(g)' /\ Staged(g)'
  <2>1. Acting(g) /\ Staged(g)
    BY DEF ConsoleInvariant
  <2>2. Same(g)
    BY <1>1, <1>9 DEF ConsoleInvariant, Types, Same
  <2>3. ~InTransaction(g)
    BY HostsAssumption, <1>1, <1>9 DEF ConsoleInvariant, Locked, InTransaction
  <2> QED
    BY <1>4, <2>1, <2>2, <2>3, OthersKeep
<1>10. pc'[h] = IF login THEN "sign" ELSE "idle"
  BY <1>1 DEF ConsoleInvariant, Types
<1>11. Staged(h)'
  BY <1>10 DEF Staged
<1>12. CASE login
  <2>1. pc'[h] = "sign" /\ user'[h] = user[h] /\ user[h] \in Users
    BY <1>1, <1>10, <1>12 DEF ConsoleInvariant, Types, Acting
  <2>2. audit' = Append(audit, Row("login_success", user[h], 0, NoAsset, NoAsset))
    BY <1>1, <1>12 DEF ConsoleInvariant, Staged, Entry
  <2>3. SignedIn(user[h])'
    <3> DEFINE e == Row("login_success", user[h], 0, NoAsset, NoAsset)
    <3>1. e \in AuditRows /\ e.action = "login_success" /\ e.actor = user[h]
      BY <2>1, RowsOfTheLog
    <3>2. audit' = Append(audit, e)
      BY <2>2
    <3> HIDE DEF e
    <3>3. Len(audit) + 1 \in DOMAIN audit' /\ audit'[Len(audit) + 1] = e
      BY <1>3, <3>1, <3>2, AuditGrows DEF CatalogueInvariant
    <3> QED
      BY <2>1, <3>1, <3>3 DEF SignedIn
  <2>4. Acting(h)'
    BY <2>1, <2>3 DEF Acting
  <2> QED
    BY <1>5, <1>6, <1>7, <1>8, <1>9, <1>11, <2>4 DEF ConsoleInvariant
<1>13. CASE ~login
  <2>1. Acting(h)'
    BY <1>10, <1>13 DEF Acting
  <2> QED
    BY <1>5, <1>6, <1>7, <1>8, <1>9, <1>11, <2>1 DEF ConsoleInvariant
<1> QED
  BY <1>12, <1>13

\* A lifecycle route writes while nobody here does.
LEMMA StatusKeeps ==
  ASSUME ConsoleInvariant, NEW id \in DOMAIN rows, StatusChanges(id)
  PROVE  CatalogueNext /\ ConsoleInvariant'
<1>1. /\ writer = NoHost
      /\ UNCHANGED <<audit, writer, pc, req, user, seen, issued>>
  BY DEF StatusChanges, ChangeStatus, sessionVars
<1>2. CatalogueNext
  BY DEF StatusChanges, CatalogueNext
<1>3. CatalogueInvariant
  BY DEF ConsoleInvariant
<1>4. /\ DOMAIN rows \subseteq DOMAIN rows'
      /\ \A u : SignedIn(u) => SignedIn(u)'
      /\ \A n : AssetsOf(n) \subseteq AssetsOf(n)'
  BY <1>2, <1>3, CatalogueRemembers
<1>5. CatalogueInvariant'
  BY <1>2, <1>3, CatalogueKeeps
<1>6. Types' /\ Locked'
  BY <1>1 DEF ConsoleInvariant, Types, Locked
<1>7. Visitors'
  BY <1>1, <1>4 DEF ConsoleInvariant, Visitors
<1>8. ASSUME NEW g \in Hosts PROVE Acting(g)' /\ Staged(g)'
  <2>1. Acting(g) /\ Staged(g)
    BY DEF ConsoleInvariant
  <2>2. Same(g)
    BY <1>1 DEF Same
  <2>3. ~InTransaction(g)
    BY HostsAssumption, <1>1 DEF ConsoleInvariant, Locked, InTransaction
  <2> QED
    BY <1>4, <2>1, <2>2, <2>3, OthersKeep
<1> QED
  BY <1>2, <1>5, <1>6, <1>7, <1>8 DEF ConsoleInvariant

\* Time and accounts: no host and no table takes part.
LEMMA ElsewhereKeeps ==
  ASSUME ConsoleInvariant, UNCHANGED <<consoleVars, issued>>
  PROVE  ConsoleInvariant'
<1>1. UNCHANGED <<rows, audit, writer, work, pc, req, user, seen, issued>>
  BY DEF consoleVars
<1>2. CatalogueInvariant'
  BY <1>1, CatalogueKeeps DEF ConsoleInvariant
<1>3. (\A u : SignedIn(u)' = SignedIn(u)) /\ \A id : AssetsOf(id)' = AssetsOf(id)
  BY <1>1 DEF SignedIn, AssetsOf
<1>4. Types' /\ Visitors' /\ Locked'
  BY <1>1, <1>3 DEF ConsoleInvariant, Types, Visitors, Locked
<1>5. ASSUME NEW g \in Hosts PROVE Acting(g)' /\ Staged(g)'
  <2>1. Acting(g) /\ Staged(g)
    BY DEF ConsoleInvariant
  <2>2. Same(g)
    BY <1>1 DEF Same
  <2> QED
    BY <1>1, <1>3, <2>1, <2>2, OthersKeep
<1> QED
  BY <1>2, <1>4, <1>5 DEF ConsoleInvariant

\* Every step keeps the invariant, and is one of the catalogue or none.
LEMMA ConsoleSteps ==
  ASSUME ConsoleInvariant, [ConsoleNext]_<<sessionVars, consoleVars>>
  PROVE  ConsoleInvariant' /\ [CatalogueNext]_<<rows, audit>>
<1>1. ASSUME NEW h \in Hosts, Step(h)
      PROVE  ConsoleInvariant' /\ [CatalogueNext]_<<rows, audit>>
  <2>1. CASE Receive(h)
    <3>1. UNCHANGED <<rows, audit>>
      BY <2>1 DEF Receive
    <3> QED
      BY <2>1, <3>1, ReceiveKeeps
  <2>2. CASE Answer(h)
    <3>1. UNCHANGED <<rows, audit>>
      BY <2>2 DEF Answer
    <3> QED
      BY <2>2, <3>1, AnswerKeeps
  <2>3. CASE ReadForLogin(h) \/ ReadForLogout(h) \/ ReadForCreate(h) \/ ReadForEdit(h)
    <3>1. UNCHANGED <<rows, audit>>
      BY <2>3 DEF ReadForLogin, ReadForLogout, ReadForCreate, ReadForEdit, Answer, Proceed
    <3> QED
      BY <2>3, <3>1, ReadsKeep
  <2>4. CASE WriteVisit(h) \/ InsertResource(h) \/ UpdateResource(h)
    <3>1. UNCHANGED <<rows, audit>>
      BY <2>4 DEF WriteVisit, InsertResource, UpdateResource, Write
    <3> QED
      BY <2>4, <3>1, WriteVisitKeeps, InsertKeeps, UpdateKeeps
  <2>5. CASE Audit(h)
    <3>1. UNCHANGED <<rows, audit>>
      BY <2>5 DEF Audit
    <3> QED
      BY <2>5, <3>1, AuditKeeps
  <2>6. CASE Commit(h)
    BY <2>6, CommitIsStep, CommitKeeps
  <2>7. CASE Sign(h)
    <3>1. UNCHANGED <<rows, audit>>
      BY <2>7 DEF Sign
    <3> QED
      BY <2>7, <3>1, SignKeeps
  <2> QED
    BY <1>1, <2>1, <2>2, <2>3, <2>4, <2>5, <2>6, <2>7 DEF Step, Constraint, Busy, Fail
<1>2. ASSUME NEW id \in DOMAIN rows, StatusChanges(id)
      PROVE  ConsoleInvariant' /\ [CatalogueNext]_<<rows, audit>>
  BY <1>2, StatusKeeps
<1>3. CASE (Tick \/ \E u \in Users : SetAccount(u)) /\ UNCHANGED consoleVars
  <2>1. UNCHANGED <<consoleVars, issued>> /\ UNCHANGED <<rows, audit>>
    BY <1>3 DEF Tick, SetAccount, consoleVars
  <2> QED
    BY <2>1, ElsewhereKeeps
<1>4. CASE UNCHANGED <<sessionVars, consoleVars>>
  <2>1. UNCHANGED <<consoleVars, issued>> /\ UNCHANGED <<rows, audit>>
    BY <1>4 DEF sessionVars, consoleVars
  <2> QED
    BY <2>1, ElsewhereKeeps
<1> QED
  BY <1>1, <1>2, <1>3, <1>4 DEF ConsoleNext, Environment

-----------------------------------------------------------------------------

\* With any number of hosts, users, assets and cookies, with every interleaving,
\* failure and crash, the console does to the tables what the catalogue does.
THEOREM ConsoleImplementsCatalogue == ConsoleSpec => ImplementsCatalogue
<1>1. ConsoleInit => ConsoleInvariant /\ CatalogueInit
  BY ConsoleStarts DEF ConsoleInit
<1>2. ConsoleInvariant /\ [ConsoleNext]_<<sessionVars, consoleVars>> => ConsoleInvariant' /\ [CatalogueNext]_<<rows, audit>>
  BY ConsoleSteps
<1> QED
  BY <1>1, <1>2, PTL DEF ConsoleSpec, ImplementsCatalogue, CatalogueSpec

\* So the audit log of the console ends with what the tables say.
THEOREM ConsoleIsDescribed == ConsoleSpec => []LastAuditDescribesRow
  BY ConsoleImplementsCatalogue, CatalogueIsDescribed, PTL DEF ImplementsCatalogue

-----------------------------------------------------------------------------
(* Types and bounds of the console. *)

\* The hosts whose request may still write a row to the audit log, and those of them
\* that may insert a resource.
Owing == {h \in Hosts : pc[h] \in {"read", "write", "audit", "commit"}}
Creating == {h \in Owing : req[h].op = "create"}

\* Each has had room for its rows since it came in.
Bounded ==
  /\ Len(audit) + Cardinality(Owing) <= MaxAudit
  /\ Len(rows) + Cardinality(Creating) <= MaxRows

Workspace ==
  /\ writer \in Hosts \cup {NoHost}
  /\ work = [rows |-> work.rows, audit |-> work.audit]
  /\ writer = NoHost => work = Tables

\* What the bounds are: on sets and sequences of any size.
Sizes ==
  /\ IsFiniteSet(Hosts) /\ MaxTime \in Nat /\ MaxSkew \in Nat
  /\ MaxAudit \in Nat /\ MaxRows \in Nat \ {0}

ConsoleTypes == ConsoleInvariant /\ SessionsTypeOK /\ Workspace /\ Bounded

LEMMA Counts ==
  ASSUME Sizes, NEW S \in SUBSET Hosts
  PROVE  /\ IsFiniteSet(S) /\ Cardinality(S) \in Nat
         /\ \A T \in SUBSET S : Cardinality(T) \in Nat /\ Cardinality(T) <= Cardinality(S)
<1>1. IsFiniteSet(S)
  BY FS_Subset DEF Sizes
<1>. QED
  BY <1>1, FS_Subset, FS_CardinalityType

LEMMA TableLengths == ASSUME ConsoleInvariant PROVE Len(rows) \in Nat /\ Len(audit) \in Nat
BY DEF ConsoleInvariant, CatalogueInvariant, CatalogueTypeOK

\* A step after which no more is owed, and that adds nothing.
LEMMA NothingAdded ==
  ASSUME Sizes, ConsoleInvariant, Bounded,
         Len(rows') = Len(rows), Len(audit') = Len(audit),
         Owing' \subseteq Owing, Creating' \subseteq Creating
  PROVE  Bounded'
<1>1. /\ Cardinality(Owing) \in Nat /\ Cardinality(Owing') \in Nat
      /\ Cardinality(Owing') <= Cardinality(Owing)
  <2>1. Owing \in SUBSET Hosts /\ Owing' \in SUBSET Owing
    BY DEF Owing
  <2>. QED
    BY <2>1, Counts
<1>2. /\ Cardinality(Creating) \in Nat /\ Cardinality(Creating') \in Nat
      /\ Cardinality(Creating') <= Cardinality(Creating)
  <2>1. Creating \in SUBSET Hosts /\ Creating' \in SUBSET Creating
    BY DEF Creating, Owing
  <2>. QED
    BY <2>1, Counts
<1>3. Len(rows) \in Nat /\ Len(audit) \in Nat
  BY TableLengths
<1>. QED
  BY <1>1, <1>2, <1>3 DEF Bounded, Sizes

LEMMA ReceiveBounded ==
  ASSUME Sizes, ConsoleTypes, NEW h \in Hosts, Receive(h)
  PROVE  Bounded'
<1>1. /\ pc[h] = "idle" /\ pc' = [pc EXCEPT ![h] = "read"]
      /\ Len(audit) + Cardinality(InFlight) < MaxAudit
      /\ rows' = rows /\ audit' = audit
  BY DEF Receive, Goto
<1>2. PICK q \in Requests :
        /\ q.op = "create" => Len(rows) + Cardinality(InFlight) < MaxRows
        /\ req' = [req EXCEPT ![h] = q]
  BY DEF Receive
<1>3. pc \in [Hosts -> States] /\ req \in [Hosts -> Requests \cup {NoRequest}]
  BY DEF ConsoleTypes, ConsoleInvariant, Types
<1>4. Len(rows) \in Nat /\ Len(audit) \in Nat
  BY TableLengths DEF ConsoleTypes
<1>5. /\ InFlight \in SUBSET Hosts /\ Owing \in SUBSET InFlight /\ Creating \in SUBSET InFlight
      /\ Owing \in SUBSET Hosts /\ Creating \in SUBSET Hosts
      /\ h \notin Owing /\ h \notin Creating
  BY <1>1 DEF InFlight, Owing, Creating
<1>6. Owing' = Owing \cup {h}
  BY <1>1, <1>3 DEF Owing, States
<1>7. Creating' = IF q.op = "create" THEN Creating \cup {h} ELSE Creating
  BY <1>1, <1>2, <1>3, <1>6 DEF Creating, Owing
<1>8. /\ Cardinality(InFlight) \in Nat
      /\ Cardinality(Owing) \in Nat /\ Cardinality(Owing) <= Cardinality(InFlight)
      /\ Cardinality(Creating) \in Nat /\ Cardinality(Creating) <= Cardinality(InFlight)
      /\ IsFiniteSet(Owing) /\ IsFiniteSet(Creating)
  BY <1>5, Counts
<1>9. Cardinality(Owing \cup {h}) = Cardinality(Owing) + 1
  BY <1>5, <1>8, FS_AddElement
<1>10. Cardinality(Creating \cup {h}) = Cardinality(Creating) + 1
  BY <1>5, <1>8, FS_AddElement
<1>11. Len(audit') + Cardinality(Owing') <= MaxAudit
  BY <1>1, <1>4, <1>6, <1>8, <1>9 DEF Sizes
<1>12. Len(rows') + Cardinality(Creating') <= MaxRows
  <2>1. CASE q.op = "create"
    BY <1>1, <1>2, <1>4, <1>7, <1>8, <1>10, <2>1 DEF Sizes
  <2>2. CASE q.op # "create"
    BY <1>1, <1>7, <2>2 DEF ConsoleTypes, Bounded
  <2>. QED
    BY <2>1, <2>2
<1>. QED
  BY <1>11, <1>12 DEF Bounded

LEMMA CommitBounded ==
  ASSUME Sizes, ConsoleTypes, NEW h \in Hosts, Commit(h)
  PROVE  Bounded' /\ Workspace'
<1>1. /\ pc[h] = "commit" /\ rows' = work.rows /\ audit' = work.audit
      /\ writer' = NoHost /\ work' = work
      /\ pc' = [pc EXCEPT ![h] = IF req[h].op = "login" THEN "sign" ELSE "idle"]
      /\ \A g \in Hosts \ {h} : req'[g] = req[g]
  BY DEF Commit, Goto, ConsoleTypes, ConsoleInvariant, Types
<1>2. /\ req[h].op \in {"login", "logout", "create", "edit"}
      /\ RowsStaged(h) /\ work.audit = Append(audit, Entry(h))
  BY <1>1 DEF ConsoleTypes, ConsoleInvariant, Staged
<1>3. pc \in [Hosts -> States]
  BY DEF ConsoleTypes, ConsoleInvariant, Types
<1>4. rows \in Seq(Rows) /\ audit \in Seq(AuditRows) /\ Len(rows) \in Nat /\ Len(audit) \in Nat
  BY TableLengths DEF ConsoleTypes, ConsoleInvariant, CatalogueInvariant, CatalogueTypeOK
<1>5. /\ Owing \in SUBSET Hosts /\ Creating \in SUBSET Hosts
      /\ h \in Owing /\ (req[h].op = "create" => h \in Creating)
  BY <1>1 DEF Owing, Creating
<1>6. Owing' = Owing \ {h}
  BY <1>1, <1>3 DEF Owing, States
<1>7. Creating' \subseteq Creating \ {h}
  BY <1>1, <1>6 DEF Creating, Owing
<1>8. /\ IsFiniteSet(Owing) /\ Cardinality(Owing) \in Nat
      /\ IsFiniteSet(Creating) /\ Cardinality(Creating) \in Nat
  BY <1>5, Counts
<1>9. Cardinality(Owing \ {h}) = Cardinality(Owing) - 1
  BY <1>5, <1>8, FS_RemoveElement
<1>10. Cardinality(Creating') \in Nat /\ Cardinality(Creating') <= Cardinality(Creating \ {h})
  <2>1. Creating \ {h} \in SUBSET Hosts
    BY <1>5
  <2>. QED
    BY <1>7, <2>1, Counts
<1>11. Cardinality(Creating \ {h}) =
         IF h \in Creating THEN Cardinality(Creating) - 1 ELSE Cardinality(Creating)
  BY <1>8, FS_RemoveElement
<1>12. Len(audit') = Len(audit) + 1
  BY <1>1, <1>2, <1>4
<1>13. Len(rows') = IF req[h].op = "create" THEN Len(rows) + 1 ELSE Len(rows)
  BY <1>1, <1>2, <1>4 DEF RowsStaged
<1>14. Bounded'
  BY <1>4, <1>5, <1>6, <1>8, <1>9, <1>10, <1>11, <1>12, <1>13 DEF ConsoleTypes, Bounded, Sizes
<1>15. Workspace'
  BY <1>1 DEF ConsoleTypes, Workspace, Tables
<1>. QED
  BY <1>14, <1>15

\* A step of a host that commits nothing and was not received in it.
LEMMA QuietTypes ==
  ASSUME Sizes, ConsoleTypes, NEW h \in Hosts,
         UNCHANGED <<rows, audit>>, \A g \in Hosts \ {h} : pc'[g] = pc[g] /\ req'[g] = req[g],
         \/ pc'[h] \in {"idle", "sign"}
         \/ h \in Owing /\ req'[h] = req[h]
  PROVE  Bounded'
<1>1. Owing' \subseteq Owing
  BY DEF Owing
<1>2. Creating' \subseteq Creating
  BY <1>1 DEF Creating, Owing
<1>. QED
  BY <1>1, <1>2, NothingAdded DEF ConsoleTypes

LEMMA StepTypes ==
  ASSUME Sizes, ConsoleTypes, NEW h \in Hosts, Step(h)
  PROVE  SessionsTypeOK' /\ Workspace' /\ Bounded'
<1>0. /\ pc \in [Hosts -> States] /\ req \in [Hosts -> Requests \cup {NoRequest}]
      /\ user \in [Hosts -> Users \cup {Nobody}]
      /\ Workspace /\ SessionsTypeOK
  BY DEF ConsoleTypes, ConsoleInvariant, Types
<1>1. ASSUME UNCHANGED sessionVars PROVE SessionsTypeOK'
  BY <1>0, <1>1 DEF sessionVars, SessionsTypeOK
<1>2. CASE Receive(h)
  BY <1>0, <1>1, <1>2, ReceiveBounded DEF Receive, Workspace, Tables
<1>3. CASE Answer(h)
  <2>1. Workspace'
    BY <1>0, <1>3 DEF Answer, Workspace, Tables
  <2>2. Bounded'
    BY <1>0, <1>3, QuietTypes DEF Answer, Goto
  <2>. QED
    BY <1>1, <1>3, <2>1, <2>2 DEF Answer
<1>4. ASSUME NEW u, NEW row, pc[h] = "read", Proceed(h, u, row)
      PROVE  SessionsTypeOK' /\ Workspace' /\ Bounded'
  <2>1. Workspace'
    BY <1>0, <1>4 DEF Proceed, Workspace, Tables
  <2>2. Bounded'
    BY <1>0, <1>4, QuietTypes DEF Proceed, Goto, Owing
  <2>. QED
    BY <1>1, <1>4, <2>1, <2>2 DEF Proceed
<1>5. ASSUME NEW tables, NEW next, pc[h] = "write", Write(h, tables, next),
             tables = [rows |-> tables.rows, audit |-> tables.audit]
      PROVE  SessionsTypeOK' /\ Workspace' /\ Bounded'
  <2>1. Workspace'
    BY <1>0, <1>5, HostsAssumption DEF Write, Workspace
  <2>2. Bounded'
    BY <1>0, <1>5, QuietTypes DEF Write, Goto, Owing
  <2>. QED
    BY <1>1, <1>5, <2>1, <2>2 DEF Write
<1>6. CASE WriteVisit(h) \/ InsertResource(h) \/ UpdateResource(h)
  BY <1>5, <1>6 DEF WriteVisit, InsertResource, UpdateResource, Tables
<1>7. CASE Audit(h)
  <2>1. writer = h
    BY <1>7 DEF Audit, ConsoleTypes, ConsoleInvariant, Locked
  <2>2. Workspace'
    BY <1>0, <1>7, <2>1, HostsAssumption DEF Audit, Workspace
  <2>3. Bounded'
    BY <1>0, <1>7, QuietTypes DEF Audit, Goto, Owing
  <2>. QED
    BY <1>1, <1>7, <2>2, <2>3 DEF Audit
<1>8. CASE Commit(h)
  BY <1>1, <1>8, CommitBounded DEF Commit
<1>9. CASE Sign(h)
  <2>1. user[h] \in Users
    BY <1>9 DEF Sign, ConsoleTypes, ConsoleInvariant, Acting
  <2>2. SignSession(h, user[h]) \in Cookies
    BY <1>0, <2>1 DEF SignSession, HostTime, Cookies, SessionsTypeOK, Sizes
  <2>3. SessionsTypeOK'
    BY <1>0, <1>9, <2>2 DEF Sign, Issue, SessionsTypeOK
  <2>4. Workspace'
    BY <1>0, <1>9 DEF Sign, Workspace, Tables
  <2>5. Bounded'
    BY <1>0, <1>9, QuietTypes DEF Sign, Goto
  <2>. QED
    BY <2>3, <2>4, <2>5
<1>. QED
  BY <1>2, <1>3, <1>4, <1>6, <1>7, <1>8, <1>9
     DEF Step, ReadForLogin, ReadForLogout, ReadForCreate, ReadForEdit, Constraint, Busy, Fail

\* Every step keeps the types.
LEMMA TypesKept ==
  ASSUME Sizes, ConsoleTypes, [ConsoleNext]_<<sessionVars, consoleVars>>
  PROVE  ConsoleTypes'
<1>0. ConsoleInvariant'
  BY ConsoleSteps DEF ConsoleTypes
<1>1. ASSUME NEW h \in Hosts, Step(h) PROVE ConsoleTypes'
  BY <1>0, <1>1, StepTypes DEF ConsoleTypes
<1>2. ASSUME NEW id \in DOMAIN rows, StatusChanges(id) PROVE ConsoleTypes'
  <2>1. /\ writer' = NoHost /\ writer = NoHost /\ UNCHANGED <<audit, pc, req, sessionVars>>
        /\ rows' = [rows EXCEPT ![id].status = IF @ = "damaged" THEN "available" ELSE "damaged"]
        /\ work' = [work EXCEPT !.rows = rows']
    BY <1>2 DEF StatusChanges, ChangeStatus
  <2>2. Workspace'
    BY <2>1 DEF ConsoleTypes, Workspace, Tables
  <2>3. rows \in Seq(Rows)
    BY DEF ConsoleTypes, ConsoleInvariant, CatalogueInvariant, CatalogueTypeOK
  <2>4. Len(rows') = Len(rows)
    BY <2>1, <2>3
  <2>5. Bounded'
    BY <2>1, <2>4, NothingAdded DEF ConsoleTypes, Owing, Creating
  <2>6. SessionsTypeOK'
    BY <2>1 DEF ConsoleTypes, SessionsTypeOK, sessionVars
  <2>. QED
    BY <1>0, <2>2, <2>5, <2>6 DEF ConsoleTypes
<1>3. CASE (Tick \/ \E u \in Users : SetAccount(u)) /\ UNCHANGED consoleVars
  <2>1. SessionsTypeOK'
    BY <1>3 DEF Tick, SetAccount, ConsoleTypes, SessionsTypeOK, Sizes
  <2>2. Workspace' /\ Bounded'
    BY <1>3 DEF consoleVars, ConsoleTypes, Workspace, Tables, Bounded, Owing, Creating
  <2>. QED
    BY <1>0, <2>1, <2>2 DEF ConsoleTypes
<1>4. CASE UNCHANGED <<sessionVars, consoleVars>>
  BY <1>0, <1>4
     DEF sessionVars, consoleVars, ConsoleTypes, SessionsTypeOK, Workspace, Tables, Bounded,
         Owing, Creating
<1>. QED
  BY <1>1, <1>2, <1>3, <1>4 DEF ConsoleNext, Environment

LEMMA TypesStart == ASSUME Sizes, ConsoleInit PROVE ConsoleTypes
<1>1. SessionsTypeOK
  BY DEF ConsoleInit, SessionsInit, SessionsTypeOK, Sizes
<1>2. Workspace
  BY DEF ConsoleInit, Workspace, Tables
<1>3. Owing = {} /\ Creating = {} /\ Len(rows) = 1 /\ Len(audit) = 0
  BY DEF ConsoleInit, CatalogueInit, Owing, Creating
<1>4. Cardinality({}) = 0
  BY FS_EmptySet
<1>5. Bounded
  BY <1>3, <1>4 DEF Bounded, Sizes
<1>. QED
  BY <1>1, <1>2, <1>5, ConsoleStarts DEF ConsoleTypes

LEMMA TypesOK == ASSUME Sizes, ConsoleTypes PROVE ConsoleTypeOK
<1>1. Len(rows) \in Nat /\ Len(audit) \in Nat
  BY TableLengths DEF ConsoleTypes
<1>2. Cardinality(Owing) \in Nat /\ Cardinality(Creating) \in Nat
  <2>1. Owing \in SUBSET Hosts /\ Creating \in SUBSET Hosts
    BY DEF Owing, Creating
  <2>. QED
    BY <2>1, Counts
<1>3. Len(rows) <= MaxRows /\ Len(audit) <= MaxAudit
  BY <1>1, <1>2 DEF ConsoleTypes, Bounded, Sizes
<1>. QED
  BY <1>3 DEF ConsoleTypes, ConsoleInvariant, CatalogueInvariant, Types, States, Workspace,
              ConsoleTypeOK

\* The types of the console: no table outgrows its bound, though several requests that
\* may add to it are under way, and without a writer nothing is uncommitted.
THEOREM ConsoleIsTyped == ASSUME Sizes PROVE ConsoleSpec => []ConsoleTypeOK
<1>1. ConsoleInit => ConsoleTypes
  BY TypesStart
<1>2. ConsoleTypes /\ [ConsoleNext]_<<sessionVars, consoleVars>> => ConsoleTypes'
  BY TypesKept
<1>3. ConsoleTypes => ConsoleTypeOK
  BY TypesOK
<1>. QED
  BY <1>1, <1>2, <1>3, PTL DEF ConsoleSpec

=============================================================================
