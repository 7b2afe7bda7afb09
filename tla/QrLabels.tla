------------------------------- MODULE QrLabels -------------------------------
(***************************************************************************)
(* The QR label routes of application.py: print and regenerate, served by  *)
(* concurrent workers whose processes may be restarted with another        *)
(* encryption key.                                                         *)
(*                                                                         *)
(* A token is 256 random bits and never repeats, so it is named by the id  *)
(* of its row.  What the row stores of it is a hash, by which a scan finds *)
(* it, and a ciphertext, from which a print restores it: with the key it   *)
(* was made with, and no other.                                            *)
(***************************************************************************)
EXTENDS Naturals, Sequences, FiniteSets

CONSTANTS
  Workers, NoWorker,
  Resources,
  Keys,       \* valid Fernet keys
  NoKey,      \* none configured; the "key" of a row older than migration 0007
  MaxTokens   \* bound on the rows of qr_tokens

ASSUME LabelsAssumption ==
  NoWorker \notin Workers /\ NoKey \notin Keys /\ MaxTokens \in Nat \ {0}

VARIABLES
  tokens,  \* the committed rows of qr_tokens
  work,    \* the writer's uncommitted rows
  writer,  \* who holds the write lock
  key,     \* settings.qr_token_encryption_key of each worker's process
  pc, req,
  token,   \* the token a worker is about to put on a label
  reply

vars == <<tokens, work, writer, key, pc, req, token, reply>>

\* A token the application makes is stored encrypted; the column was added to
\* rows that had none.
TokenRows ==
  [resource : Resources, key : Keys, live : BOOLEAN, by : {"print", "regenerate"}]
  \cup [resource : Resources, key : {NoKey}, live : BOOLEAN, by : {"migration"}]

Requests == [op : {"print", "regenerate"}, resource : Resources]

NoRequest == [op |-> "none"]
NoToken == 0

\* The rows that say invalidated_at IS NULL.
Live(rows, r) == {t \in DOMAIN rows : rows[t].resource = r /\ rows[t].live}

\* encrypt_token raises without a valid key.
CanEncrypt(k) == k # NoKey

\* decrypt_token gives nothing for a row without ciphertext, or with another key.
CanDecrypt(row, k) == k # NoKey /\ row.key = k

\* A resource may have been labelled before its token was stored encrypted.
Legacy == {<<>>} \cup {<<[resource |-> r, key |-> NoKey, live |-> TRUE, by |-> "migration"]>> :
                         r \in Resources}

Init ==
  /\ tokens \in Legacy
  /\ work = tokens
  /\ writer = NoWorker
  /\ key \in [Workers -> Keys \cup {NoKey}]
  /\ pc = [w \in Workers |-> "idle"]
  /\ req = [w \in Workers |-> NoRequest]
  /\ token = [w \in Workers |-> NoToken]
  /\ reply = [w \in Workers |-> "none"]

Goto(w, p) == pc' = [pc EXCEPT ![w] = p]

\* An administrator's request for a resource that exists and is not archived;
\* the others are refused without a transaction.
Receive(w) ==
  /\ pc[w] = "idle"
  /\ \E q \in Requests : req' = [req EXCEPT ![w] = q]
  /\ Goto(w, "begin")
  /\ UNCHANGED <<tokens, work, writer, key, token, reply>>

BeginDeferred(w) ==  \* Mutant: a BEGIN that takes no lock
  /\ pc[w] = "begin" /\ writer' = w /\ Goto(w, "look")
  /\ UNCHANGED <<tokens, work, key, req, token, reply>>

Begin(w) ==
  /\ pc[w] = "begin"
  /\ writer = NoWorker
  /\ writer' = w
  /\ Goto(w, "look")
  /\ UNCHANGED <<tokens, work, key, req, token, reply>>

\* The answer without a label; whatever was written is rolled back.
GiveUp(w, r) ==
  /\ Goto(w, "done")
  /\ reply' = [reply EXCEPT ![w] = r]
  /\ token' = [token EXCEPT ![w] = NoToken]
  /\ IF writer = w THEN writer' = NoWorker /\ work' = tokens ELSE UNCHANGED <<writer, work>>
  /\ UNCHANGED <<tokens, key, req>>

\* "database is locked": these routes have no handler for it, so it is a 500.
Busy(w) == pc[w] = "begin" /\ writer # NoWorker /\ GiveUp(w, "error")

\* Mutant: a label that cannot be printed is replaced by a new one.
LookRotates(w) ==
  LET live == Live(work, req[w].resource)
      usable == {t \in live : CanDecrypt(work[t], key[w])}
  IN
  /\ pc[w] = "look"
  /\ IF req[w].op = "regenerate" \/ usable = {}
       THEN /\ Goto(w, "invalidate")
            /\ UNCHANGED <<tokens, work, writer, key, req, token, reply>>
       ELSE /\ token' = [token EXCEPT ![w] = CHOOSE t \in live : \A u \in live : u <= t]
            /\ Goto(w, "commit")
            /\ UNCHANGED <<tokens, work, writer, key, req, reply>>

\* A print looks for the live token and decrypts it; without one, it makes one.
Look(w) ==
  LET live == Live(work, req[w].resource)
      last == CHOOSE t \in live : \A u \in live : u <= t
  IN
  /\ pc[w] = "look"
  /\ \/ /\ req[w].op = "regenerate" \/ live = {}
        /\ Goto(w, "invalidate")
        /\ UNCHANGED <<tokens, work, writer, key, req, token, reply>>
     \/ /\ req[w].op = "print" /\ live # {}
        /\ CanDecrypt(work[last], key[w])
        /\ token' = [token EXCEPT ![w] = last]
        /\ Goto(w, "commit")
        /\ UNCHANGED <<tokens, work, writer, key, req, reply>>
     \/ /\ req[w].op = "print" /\ live # {}
        /\ ~CanDecrypt(work[last], key[w])
        /\ GiveUp(w, "unavailable")

InvalidateNothing(w) ==  \* Mutant: the UPDATE of _new_qr is forgotten
  /\ pc[w] = "invalidate" /\ Goto(w, "insert")
  /\ UNCHANGED <<tokens, work, writer, key, req, token, reply>>

\* _new_qr: the UPDATE.
Invalidate(w) ==
  /\ pc[w] = "invalidate"
  /\ work' = [t \in DOMAIN work |->
                [work[t] EXCEPT !.live = @ /\ work[t].resource # req[w].resource]]
  /\ Goto(w, "insert")
  /\ UNCHANGED <<tokens, writer, key, req, token, reply>>

\* Mutant: without a key the token is stored all the same.
InsertUnencrypted(w) ==
  LET r == req[w].resource
      row == [resource |-> r, key |-> key[w], live |-> TRUE, by |-> req[w].op]
  IN
  /\ pc[w] = "insert"
  /\ Live(work, r) = {} /\ Len(work) < MaxTokens
  /\ work' = Append(work, row)
  /\ token' = [token EXCEPT ![w] = Len(work) + 1]
  /\ Goto(w, "commit")
  /\ UNCHANGED <<tokens, writer, key, req, reply>>

\* _new_qr: the INSERT, for which encrypt_token needs a key; idx_qr_active_resource
\* allows one live row.
Insert(w) ==
  LET r == req[w].resource
      row == [resource |-> r, key |-> key[w], live |-> TRUE, by |-> req[w].op]
  IN
  /\ pc[w] = "insert"
  /\ \/ ~CanEncrypt(key[w]) /\ GiveUp(w, "error")
     \/ CanEncrypt(key[w]) /\ Live(work, r) # {} /\ GiveUp(w, "constraint")
     \/ /\ CanEncrypt(key[w]) /\ Live(work, r) = {} /\ Len(work) < MaxTokens
        /\ work' = Append(work, row)
        /\ token' = [token EXCEPT ![w] = Len(work) + 1]
        /\ Goto(w, "commit")
        /\ UNCHANGED <<tokens, writer, key, req, reply>>

CommitForgotten(w) ==  \* Mutant
  /\ pc[w] = "commit" /\ work' = tokens /\ writer' = NoWorker
  /\ Goto(w, "done") /\ reply' = [reply EXCEPT ![w] = "label"]
  /\ UNCHANGED <<tokens, key, req, token>>

\* The audit row, the commit, and the label with the token on it, whose drawing
\* may yet raise: the token is recorded, and nobody has the label.
Commit(w) ==
  /\ pc[w] = "commit"
  /\ tokens' = work
  /\ writer' = NoWorker
  /\ Goto(w, "done")
  /\ \E r \in {"label", "error"} : reply' = [reply EXCEPT ![w] = r]
  /\ UNCHANGED <<work, key, req, token>>

\* A statement or the COMMIT raises.
Fail(w) ==
  /\ pc[w] \in {"look", "invalidate", "insert", "commit"}
  /\ GiveUp(w, "error")

Reset(w) ==
  /\ Goto(w, "idle")
  /\ req' = [req EXCEPT ![w] = NoRequest]
  /\ token' = [token EXCEPT ![w] = NoToken]
  /\ reply' = [reply EXCEPT ![w] = "none"]

Respond(w) ==
  /\ pc[w] = "done"
  /\ Reset(w)
  /\ UNCHANGED <<tokens, work, writer, key>>

\* The process dies, or is stopped, and starts with the key it is then given.
Restart(w) ==
  /\ Reset(w)
  /\ \E k \in Keys \cup {NoKey} : key' = [key EXCEPT ![w] = k]
  /\ IF writer = w THEN writer' = NoWorker /\ work' = tokens ELSE UNCHANGED <<writer, work>>
  /\ UNCHANGED tokens

Next ==
  \E w \in Workers :
    \/ Receive(w) \/ Begin(w) \/ Busy(w) \/ Look(w) \/ Invalidate(w) \/ Insert(w)
    \/ Commit(w) \/ Fail(w) \/ Respond(w) \/ Restart(w)

Spec == Init /\ [][Next]_vars

-----------------------------------------------------------------------------

TypeOK ==
  /\ tokens \in Seq(TokenRows) /\ work \in Seq(TokenRows)
  /\ writer \in Workers \cup {NoWorker}
  /\ key \in [Workers -> Keys \cup {NoKey}]
  /\ pc \in [Workers -> {"idle", "begin", "look", "invalidate", "insert", "commit", "done"}]
  /\ req \in [Workers -> Requests \cup {NoRequest}]
  /\ token \in [Workers -> 0..MaxTokens]
  /\ reply \in [Workers -> {"none", "label", "unavailable", "constraint", "error"}]

\* The unique index idx_qr_active_resource never has to refuse a token: the old
\* one is out before the new one is in, and nobody else is in between.
IndexIsABackstop == \A w \in Workers : reply[w] # "constraint"

\* A label is handed out only for a token that is committed for that resource,
\* and that scans unless it was replaced since.
LabelsAreRecorded ==
  \A w \in Workers :
    reply[w] = "label" =>
      /\ token[w] \in DOMAIN tokens
      /\ tokens[token[w]].resource = req[w].resource
      /\ \/ tokens[token[w]].live
         \/ \E t \in Live(tokens, req[w].resource) : t > token[w]

\* "Printing reuses an active token; only the explicit regeneration action
\* invalidates it" (README.md:124): a label on the wall stops scanning only when
\* a regeneration of that resource commits its successor, under whatever keys the
\* processes run.
OnlyRegenerationReplaces ==
  [][\A t \in DOMAIN tokens :
       tokens[t].live /\ ~(t \in DOMAIN tokens' /\ tokens'[t].live) =>
         \E s \in DOMAIN tokens' \ DOMAIN tokens :
           tokens'[s].live /\ tokens'[s].by = "regenerate"
           /\ tokens'[s].resource = tokens[t].resource
    ]_vars

\* The token that scans, of each resource.
LabelOf == [r \in Resources |->
              LET live == Live(tokens, r) IN
              IF live = {} THEN NoToken ELSE CHOOSE t \in live : \A u \in live : u <= t]

Registry == INSTANCE LabelRegistry WITH NoLabel <- NoToken, label <- LabelOf, made <- Len(tokens)

\* Two first prints at once issue one label, not two; a regeneration replaces one
\* label by one label, and a request that fails or dies replaces none.
ImplementsRegistry == Registry!Spec

=============================================================================
