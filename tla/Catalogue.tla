----------------------------- MODULE Catalogue -----------------------------
(***************************************************************************)
(* What the resource console promises: people sign in and out, and managers *)
(* create and edit resources, each in one step together with the row of    *)
(* audit_logs that tells of it.  The steps are those of AdminConsole that   *)
(* commit; there are no hosts, no lock and no failures here.               *)
(***************************************************************************)
EXTENDS Integers, Sequences

CONSTANTS
  Users, Admins, Managers,
  Responsible,  \* who answers for resource 1, the one there is at the start
  Assets, NoAsset

VARIABLES
  rows,  \* the resources: what the form edits, and the status it does not
  audit  \* audit_logs

\* All columns of the form (type, name, description, asset number) stand or
\* fall together; the asset number is the one with a constraint.
Rows == [asset : Assets \cup {NoAsset}, status : {"available", "damaged"}]

AuditRows ==
  [action : {"login_success", "logout", "resource.create", "resource.update"},
   actor : Users, id : Nat,
   before : Assets \cup {NoAsset}, after : Assets \cup {NoAsset}]

Row(action, u, id, before, after) ==
  [action |-> action, actor |-> u, id |-> id, before |-> before, after |-> after]

CanWrite(u) == u \in Admins \cup Managers

CanManage(u, id) == u \in Admins \/ (u \in Managers /\ id = 1 /\ u = Responsible)

Taken(asset, id) ==
  asset # NoAsset /\ \E k \in DOMAIN rows : k # id /\ rows[k].asset = asset

CatalogueTypeOK ==
  /\ rows \in Seq(Rows)
  /\ audit \in Seq(AuditRows)

CatalogueInit ==
  /\ rows = <<[asset |-> NoAsset, status |-> "available"]>>
  /\ audit = <<>>

-----------------------------------------------------------------------------

SignedIn(u) ==
  \E k \in DOMAIN audit : audit[k].action = "login_success" /\ audit[k].actor = u

\* The assets resource id has had, as the audit log tells it.
AssetsOf(id) ==
  {NoAsset} \cup {audit[k].after : k \in {j \in DOMAIN audit : audit[j].id = id}}

SignIn(u) ==
  /\ audit' = Append(audit, Row("login_success", u, 0, NoAsset, NoAsset))
  /\ UNCHANGED rows

SignOut(u) ==
  /\ SignedIn(u)
  /\ audit' = Append(audit, Row("logout", u, 0, NoAsset, NoAsset))
  /\ UNCHANGED rows

CreateResource(u, asset) ==
  /\ SignedIn(u) /\ CanWrite(u) /\ ~Taken(asset, 0)
  /\ rows' = Append(rows, [asset |-> asset, status |-> "available"])
  /\ audit' = Append(audit, Row("resource.create", u, Len(rows'), NoAsset, asset))

\* The before-image is one the resource has had, not always the last.
EditResource(u, id, asset) ==
  /\ SignedIn(u) /\ CanManage(u, id) /\ ~Taken(asset, id)
  /\ rows' = [rows EXCEPT ![id].asset = asset]
  /\ \E before \in AssetsOf(id) :
       audit' = Append(audit, Row("resource.update", u, id, before, asset))

\* A lifecycle route writes the status of a resource: see RequestWorkers.
ChangeStatus(id) ==
  /\ rows' = [rows EXCEPT ![id].status = IF @ = "damaged" THEN "available" ELSE "damaged"]
  /\ UNCHANGED audit

CatalogueNext ==
  \/ \E u \in Users :
       \/ SignIn(u) \/ SignOut(u)
       \/ \E asset \in Assets \cup {NoAsset} :
            \/ CreateResource(u, asset)
            \/ \E id \in DOMAIN rows : EditResource(u, id, asset)
  \/ \E id \in DOMAIN rows : ChangeStatus(id)

CatalogueSpec == CatalogueInit /\ [][CatalogueNext]_<<rows, audit>>

-----------------------------------------------------------------------------

\* The last audit row of a resource describes it as it is, however the edits of
\* several hosts interleave and wherever one of them fails.
LastAuditDescribesRow ==
  \A id \in DOMAIN rows :
    LET about == {k \in DOMAIN audit : audit[k].id = id}
    IN  /\ about = {} => rows[id].asset = NoAsset
        /\ \A k \in about : (\A j \in about : j <= k) => rows[id].asset = audit[k].after

=============================================================================
