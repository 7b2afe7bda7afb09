---------------------------- MODULE QrLabelsProofs ----------------------------
(***************************************************************************)
(* Concurrent prints and regenerations of QR labels keep the promise of    *)
(* LabelRegistry, for any number of workers, resources, keys and tokens.   *)
(***************************************************************************)
EXTENDS QrLabels, SequenceTheorems, TLAPS

-----------------------------------------------------------------------------
(* The rows of qr_tokens. *)

\* The rows after the UPDATE of _new_qr.
Invalidated(d, r) ==
  [t \in DOMAIN d |-> [d[t] EXCEPT !.live = @ /\ d[t].resource # r]]

NewRow(r, k, op) == [resource |-> r, key |-> k, live |-> TRUE, by |-> op]

\* The rows after its INSERT.
Relabelled(d, r, k, op) == Append(Invalidated(d, r), NewRow(r, k, op))

\* What one request does to the rows: a new label for r, which replaces one only
\* if that was asked for.
Labelled(d, e, r, k, op) ==
  /\ e = Relabelled(d, r, k, op)
  /\ op = "regenerate" \/ Live(d, r) = {}

RowsStep(d, e) ==
  \/ e = d
  \/ \E r \in Resources, k \in Keys, op \in {"print", "regenerate"} : Labelled(d, e, r, k, op)

\* A resource has at most one token that scans: idx_qr_active_resource.
OneLive(d) ==
  \A t, u \in DOMAIN d :
    d[t].live /\ d[u].live /\ d[t].resource = d[u].resource => t = u

LEMMA RowFields ==
  ASSUME NEW d \in Seq(TokenRows), NEW t \in DOMAIN d
  PROVE  /\ d[t] \in TokenRows /\ d[t].resource \in Resources /\ d[t].live \in BOOLEAN
         /\ t \in 1..Len(d) /\ Len(d) \in Nat
BY DEF TokenRows

LEMMA InvalidatedRows ==
  ASSUME NEW d \in Seq(TokenRows), NEW r \in Resources
  PROVE  /\ Invalidated(d, r) \in Seq(TokenRows)
         /\ Len(Invalidated(d, r)) = Len(d) /\ DOMAIN Invalidated(d, r) = DOMAIN d
         /\ \A t \in DOMAIN d :
              /\ Invalidated(d, r)[t].resource = d[t].resource
              /\ Invalidated(d, r)[t].by = d[t].by
              /\ Invalidated(d, r)[t].live <=> (d[t].live /\ d[t].resource # r)
<1>. DEFINE Ended(t) == [d[t] EXCEPT !.live = @ /\ d[t].resource # r]
<1>1. ASSUME NEW t \in DOMAIN d
      PROVE  /\ Ended(t) \in TokenRows
             /\ Ended(t).resource = d[t].resource /\ Ended(t).by = d[t].by
             /\ Ended(t).live <=> (d[t].live /\ d[t].resource # r)
  <2>1. d[t] \in TokenRows
    BY RowFields
  <2>. QED
    BY <2>1 DEF TokenRows
<1>2. DOMAIN d = 1..Len(d) /\ Len(d) \in Nat
  OBVIOUS
<1>3. Invalidated(d, r) = [t \in 1..Len(d) |-> Ended(t)]
  BY <1>2 DEF Invalidated
<1>. HIDE DEF Ended
<1>4. /\ Invalidated(d, r) \in Seq(TokenRows)
      /\ Len(Invalidated(d, r)) = Len(d)
  BY <1>1, <1>2, <1>3
<1>. QED
  BY <1>1, <1>2, <1>3, <1>4

LEMMA NewRowFields ==
  ASSUME NEW r, NEW k, NEW op
  PROVE  /\ NewRow(r, k, op).resource = r /\ NewRow(r, k, op).live
         /\ NewRow(r, k, op).by = op /\ NewRow(r, k, op).key = k
BY DEF NewRow

LEMMA LabelledRows ==
  ASSUME NEW d \in Seq(TokenRows), NEW r \in Resources, NEW k \in Keys,
         NEW op \in {"print", "regenerate"}, NEW e, Labelled(d, e, r, k, op)
  PROVE  /\ e \in Seq(TokenRows) /\ Len(e) = Len(d) + 1
         /\ e[Len(d) + 1].resource = r /\ e[Len(d) + 1].live /\ e[Len(d) + 1].by = op
         /\ \A t \in DOMAIN d :
              /\ e[t].resource = d[t].resource
              /\ e[t].by = d[t].by
              /\ e[t].live <=> (d[t].live /\ d[t].resource # r)
<1>. DEFINE i == Invalidated(d, r)
            new == NewRow(r, k, op)
<1>1. i \in Seq(TokenRows) /\ Len(i) = Len(d) /\ DOMAIN i = DOMAIN d
  BY InvalidatedRows
<1>2. new \in TokenRows
  BY DEF NewRow, TokenRows
<1>3. e = Append(i, new)
  BY DEF Labelled, Relabelled
<1>4. \A t \in DOMAIN d : /\ i[t].resource = d[t].resource
                          /\ i[t].by = d[t].by
                          /\ i[t].live <=> (d[t].live /\ d[t].resource # r)
  BY InvalidatedRows
<1>5. new.resource = r /\ new.live /\ new.by = op
  BY NewRowFields
<1>. HIDE DEF i, new
<1>6. /\ e \in Seq(TokenRows) /\ Len(e) = Len(d) + 1
      /\ DOMAIN e = DOMAIN d \cup {Len(d) + 1} /\ Len(d) + 1 \notin DOMAIN d
      /\ e[Len(d) + 1] = new
      /\ \A t \in DOMAIN d : e[t] = i[t]
  BY <1>1, <1>2, <1>3, AppendProperties
<1>. QED
  BY <1>4, <1>5, <1>6

\* One label per resource before, one after.
LEMMA OneLiveKept ==
  ASSUME NEW d \in Seq(TokenRows), NEW e, OneLive(d), RowsStep(d, e)
  PROVE  OneLive(e) /\ e \in Seq(TokenRows)
<1>1. CASE e = d
  BY <1>1
<1>2. ASSUME NEW r \in Resources, NEW k \in Keys, NEW op \in {"print", "regenerate"},
             Labelled(d, e, r, k, op)
      PROVE  OneLive(e) /\ e \in Seq(TokenRows)
  <2>. DEFINE n == Len(d) + 1
  <2>1. /\ e \in Seq(TokenRows)
        /\ Len(e) = n /\ e[n].resource = r
        /\ \A u \in DOMAIN d : /\ e[u].resource = d[u].resource
                               /\ e[u].live <=> (d[u].live /\ d[u].resource # r)
    BY <1>2, LabelledRows
  <2>2. DOMAIN e = 1..n /\ DOMAIN d = 1..(n - 1) /\ n \in Nat
    BY <2>1, RowFields
  <2>3. \A u \in DOMAIN d : e[u].live => d[u].live /\ e[u].resource # r
    BY <2>1
  <2>. HIDE DEF n
  <2>. QED
    BY <2>1, <2>2, <2>3 DEF OneLive
<1>. QED
  BY <1>1, <1>2 DEF RowsStep

\* A label that was handed out is in the rows: its token is that of the resource,
\* and scans unless a later one does.
Scans(d, t, r) ==
  /\ t \in DOMAIN d
  /\ d[t].resource = r
  /\ d[t].live \/ \E u \in Live(d, r) : u > t

LEMMA ScansStill ==
  ASSUME NEW d \in Seq(TokenRows), NEW e, RowsStep(d, e), NEW t, NEW r, Scans(d, t, r)
  PROVE  Scans(e, t, r)
<1>1. CASE e = d
  BY <1>1
<1>2. ASSUME NEW q \in Resources, NEW k \in Keys, NEW op \in {"print", "regenerate"},
             Labelled(d, e, q, k, op)
      PROVE  Scans(e, t, r)
  <2>. DEFINE n == Len(d) + 1
  <2>1. /\ e \in Seq(TokenRows) /\ Len(e) = n
        /\ e[n].live /\ e[n].resource = q
        /\ \A u \in DOMAIN d : /\ e[u].resource = d[u].resource
                               /\ e[u].live <=> (d[u].live /\ d[u].resource # q)
    BY <1>2, LabelledRows
  <2>2. DOMAIN e = 1..n /\ DOMAIN d = 1..(n - 1) /\ n \in Nat
    BY <2>1
  <2>3. CASE q = r
    BY <2>1, <2>2, <2>3 DEF Scans, Live
  <2>4. CASE q # r
    BY <2>1, <2>4 DEF Scans, Live
  <2>. QED
    BY <2>3, <2>4
<1>. QED
  BY <1>1, <1>2 DEF RowsStep

-----------------------------------------------------------------------------
(* The inductive invariant. *)

InTx == {"look", "invalidate", "insert", "commit"}

\* What each step of a request has made of the committed rows.
Works(w) ==
  LET r == req[w].resource
      op == req[w].op
  IN
  /\ pc[w] \in {"look", "invalidate"} => work = tokens
  /\ pc[w] \in {"invalidate", "insert"} => op = "regenerate" \/ Live(tokens, r) = {}
  /\ pc[w] = "insert" => work = Invalidated(tokens, r)
  /\ pc[w] = "commit" =>
       \/ work = tokens /\ token[w] \in Live(tokens, r)
       \/ \E k \in Keys : Labelled(tokens, work, r, k, op) /\ token[w] = Len(work)

\* What was handed out still scans, or its successor does.
Handed(w) ==
  /\ reply[w] # "constraint"
  /\ reply[w] = "label" =>
       pc[w] = "done" /\ req[w] \in Requests /\ Scans(tokens, token[w], req[w].resource)

WorkerInv(w) ==
  /\ pc[w] \in InTx <=> writer = w
  /\ pc[w] \in InTx \cup {"begin"} => req[w] \in Requests
  /\ Works(w)
  /\ Handed(w)

Fits == Len(tokens) <= MaxTokens /\ Len(work) <= MaxTokens

\* Nothing is left uncommitted when nobody writes.
Settled == writer = NoWorker => work = tokens

IInv ==
  /\ TypeOK /\ Fits /\ Settled
  /\ OneLive(tokens)
  /\ \A w \in Workers : WorkerInv(w)

LEMMA InitInv == Init => IInv
<1>. SUFFICES ASSUME Init PROVE IInv
  OBVIOUS
<1>1. /\ tokens \in Seq(TokenRows) /\ Len(tokens) <= 1
      /\ \A t \in DOMAIN tokens : t = 1
  <2>1. CASE tokens = <<>>
    BY <2>1
  <2>2. ASSUME NEW r \in Resources,
               tokens = <<[resource |-> r, key |-> NoKey, live |-> TRUE, by |-> "migration"]>>
        PROVE  /\ tokens \in Seq(TokenRows) /\ Len(tokens) <= 1
               /\ \A t \in DOMAIN tokens : t = 1
    BY <2>2 DEF TokenRows
  <2>. QED
    BY <2>1, <2>2 DEF Init, Legacy
<1>2. TypeOK /\ Len(tokens) <= MaxTokens /\ Len(work) <= MaxTokens
  BY <1>1, LabelsAssumption DEF Init, TypeOK, NoToken
<1>3. OneLive(tokens)
  BY <1>1 DEF OneLive
<1>4. ASSUME NEW w \in Workers PROVE WorkerInv(w)
  BY LabelsAssumption DEF Init, WorkerInv, Works, Handed, InTx
<1>. QED
  BY <1>2, <1>3, <1>4 DEF IInv, Init, Fits, Settled

\* A step of worker w does nothing in the name of another, and writes only with
\* the write lock.
Alone(w) ==
  /\ \A u \in Workers \ {w} : /\ pc'[u] = pc[u] /\ req'[u] = req[u]
                              /\ token'[u] = token[u] /\ reply'[u] = reply[u]
                              /\ writer' = u <=> writer = u
  /\ writer = w \/ UNCHANGED <<tokens, work>>

\* So it leaves what holds of the other, who without the lock is in no transaction.
LEMMA OthersKeep ==
  ASSUME IInv, NEW w \in Workers, NEW u \in Workers, u # w, Alone(w),
         RowsStep(tokens, tokens')
  PROVE  WorkerInv(u)'
<1>1. WorkerInv(u)
  BY DEF IInv
<1>2. Handed(u)'
  BY <1>1, ScansStill DEF Alone, WorkerInv, Handed, IInv, TypeOK
<1>3. CASE writer = w
  BY <1>1, <1>2, <1>3 DEF Alone, WorkerInv, Works, InTx
<1>4. CASE tokens' = tokens /\ work' = work
  BY <1>1, <1>2, <1>4 DEF Alone, WorkerInv, Works
<1>. QED
  BY <1>3, <1>4 DEF Alone

\* What is left to show of a step of worker w.
LEMMA StepKeeps ==
  ASSUME IInv, NEW w \in Workers, Alone(w), RowsStep(tokens, tokens'),
         TypeOK', Fits', Settled', WorkerInv(w)'
  PROVE  IInv'
<1>1. ASSUME NEW u \in Workers, u # w PROVE WorkerInv(u)'
  BY <1>1, OthersKeep
<1>2. OneLive(tokens')
  BY OneLiveKept DEF IInv, TypeOK
<1>. QED
  BY <1>1, <1>2 DEF IInv

\* Most steps leave the committed rows.
LEMMA SameRows == ASSUME tokens' = tokens PROVE RowsStep(tokens, tokens')
BY DEF RowsStep

LEMMA ReceiveKeeps ==
  ASSUME IInv, NEW w \in Workers, Receive(w) PROVE IInv'
<1>1. TypeOK /\ WorkerInv(w) /\ UNCHANGED <<tokens, work, writer, token, reply>>
  BY DEF IInv, Receive
<1>2. TypeOK' /\ pc'[w] = "begin" /\ req'[w] \in Requests
  BY <1>1 DEF Receive, Goto, TypeOK
<1>3. WorkerInv(w)'
  BY <1>1, <1>2 DEF WorkerInv, Works, Handed, InTx, Receive
<1>4. Alone(w) /\ Fits' /\ Settled'
  BY <1>1 DEF Alone, Fits, Settled, IInv, TypeOK, Receive, Goto
<1>. QED
  BY <1>1, <1>2, <1>3, <1>4, StepKeeps, SameRows

LEMMA BeginKeeps ==
  ASSUME IInv, NEW w \in Workers, Begin(w) PROVE IInv'
<1>1. /\ TypeOK /\ WorkerInv(w) /\ work = tokens /\ writer' = w
      /\ UNCHANGED <<tokens, work, req, token, reply>>
  BY DEF IInv, Settled, Begin
<1>2. TypeOK' /\ pc'[w] = "look"
  BY <1>1 DEF Begin, Goto, TypeOK
<1>3. WorkerInv(w)'
  BY <1>1, <1>2 DEF WorkerInv, Works, Handed, InTx, Begin
<1>4. Alone(w) /\ Fits' /\ Settled'
  BY <1>1, LabelsAssumption DEF Alone, Fits, Settled, IInv, TypeOK, Begin, Goto
<1>. QED
  BY <1>1, <1>2, <1>3, <1>4, StepKeeps, SameRows

\* The write lock is given back, and what was not committed is gone.
Abandon(w) ==
  IF writer = w THEN writer' = NoWorker /\ work' = tokens ELSE UNCHANGED <<writer, work>>

LEMMA AbandonSettles ==
  ASSUME IInv, NEW w \in Workers, Abandon(w), tokens' = tokens
  PROVE  /\ Fits' /\ Settled' /\ writer' # w
         /\ work' \in Seq(TokenRows) /\ writer' \in Workers \cup {NoWorker}
         /\ writer = w \/ work' = work
         /\ \A u \in Workers \ {w} : writer' = u <=> writer = u
<1>1. CASE writer = w
  BY <1>1, LabelsAssumption DEF Abandon, IInv, TypeOK, Fits, Settled
<1>2. CASE writer # w
  BY <1>2 DEF Abandon, IInv, TypeOK, Fits, Settled
<1>. QED
  BY <1>1, <1>2

\* Giving up leaves the committed rows.
LEMMA GiveUpKeeps ==
  ASSUME IInv, NEW w \in Workers, NEW r \in {"unavailable", "error"}, GiveUp(w, r)
  PROVE  IInv'
<1>1. TypeOK /\ WorkerInv(w) /\ Abandon(w) /\ tokens' = tokens
  BY DEF IInv, GiveUp, Abandon
<1>2. pc'[w] = "done" /\ reply'[w] \in {"unavailable", "error"}
  BY <1>1 DEF GiveUp, Goto, TypeOK
<1>3. TypeOK'
  <2>1. work' \in Seq(TokenRows) /\ writer' \in Workers \cup {NoWorker}
    BY <1>1, AbandonSettles
  <2>2. pc' \in [Workers -> {"idle", "begin", "look", "invalidate", "insert", "commit", "done"}]
    BY <1>1 DEF GiveUp, Goto, TypeOK
  <2>3. token' \in [Workers -> 0..MaxTokens]
    BY <1>1, LabelsAssumption DEF GiveUp, TypeOK, NoToken
  <2>4. reply' \in [Workers -> {"none", "label", "unavailable", "constraint", "error"}]
    BY <1>1 DEF GiveUp, TypeOK
  <2>. QED
    BY <1>1, <2>1, <2>2, <2>3, <2>4 DEF GiveUp, TypeOK
<1>4. WorkerInv(w)'
  <2>1. writer' # w
    BY <1>1, AbandonSettles
  <2>. QED
    BY <1>2, <2>1 DEF WorkerInv, Works, Handed, InTx
<1>5. Alone(w)
  BY <1>1, AbandonSettles DEF Alone, GiveUp, Goto, TypeOK
<1>. QED
  BY <1>1, <1>3, <1>4, <1>5, AbandonSettles, StepKeeps, SameRows

\* The one live token is the last.
LEMMA LastLive ==
  ASSUME NEW d \in Seq(TokenRows), OneLive(d), NEW r, Live(d, r) # {}
  PROVE  (CHOOSE t \in Live(d, r) : \A u \in Live(d, r) : u <= t) \in Live(d, r)
<1>1. PICK t \in Live(d, r) : TRUE
  OBVIOUS
<1>2. \A u \in Live(d, r) : u = t
  BY <1>1 DEF OneLive, Live
<1>3. \A u \in Live(d, r) : u <= t
  BY <1>2 DEF Live
<1>. QED
  BY <1>1, <1>3

LEMMA LookKeeps ==
  ASSUME IInv, NEW w \in Workers, Look(w) PROVE IInv'
<1>. DEFINE r == req[w].resource
            live == Live(work, r)
            last == CHOOSE t \in live : \A u \in live : u <= t
<1>1. /\ TypeOK /\ WorkerInv(w) /\ OneLive(tokens)
      /\ pc[w] = "look" /\ writer = w /\ work = tokens /\ req[w] \in Requests
  BY DEF IInv, Look, WorkerInv, Works, InTx
<1>2. CASE /\ req[w].op = "regenerate" \/ live = {}
           /\ Goto(w, "invalidate")
           /\ UNCHANGED <<tokens, work, writer, key, req, token, reply>>
  <2>1. TypeOK' /\ pc'[w] = "invalidate"
    BY <1>1, <1>2 DEF Goto, TypeOK
  <2>2. WorkerInv(w)'
    BY <1>1, <1>2, <2>1 DEF WorkerInv, Works, Handed, InTx
  <2>3. Alone(w) /\ Fits' /\ Settled'
    BY <1>1, <1>2 DEF Alone, Fits, Settled, Goto, IInv, TypeOK
  <2>. QED
    BY <1>2, <2>1, <2>2, <2>3, StepKeeps, SameRows
<1>3. CASE /\ live # {}
           /\ token' = [token EXCEPT ![w] = last]
           /\ Goto(w, "commit")
           /\ UNCHANGED <<tokens, work, writer, key, req, reply>>
  <2>1. last \in Live(tokens, r) /\ last \in 1..MaxTokens
    <3>1. last \in Live(tokens, r)
      BY <1>1, <1>3, LastLive DEF TypeOK
    <3>2. Len(tokens) <= MaxTokens /\ Len(tokens) \in Nat /\ DOMAIN tokens = 1..Len(tokens)
      BY <1>1 DEF IInv, Fits, TypeOK
    <3>. QED
      BY <3>1, <3>2, LabelsAssumption DEF Live
  <2>. HIDE DEF last, live
  <2>2. TypeOK' /\ pc'[w] = "commit" /\ token'[w] = last
    BY <1>1, <1>3, <2>1 DEF Goto, TypeOK
  <2>3. WorkerInv(w)'
    BY <1>1, <1>3, <2>1, <2>2 DEF WorkerInv, Works, Handed, InTx
  <2>4. Alone(w) /\ Fits' /\ Settled'
    BY <1>1, <1>3 DEF Alone, Fits, Settled, Goto, IInv, TypeOK
  <2>. QED
    BY <1>3, <2>2, <2>3, <2>4, StepKeeps, SameRows
<1>4. CASE GiveUp(w, "unavailable")
  BY <1>4, GiveUpKeeps
<1>. QED
  BY <1>2, <1>3, <1>4 DEF Look

LEMMA InvalidateKeeps ==
  ASSUME IInv, NEW w \in Workers, Invalidate(w) PROVE IInv'
<1>. DEFINE r == req[w].resource
<1>1. /\ TypeOK /\ WorkerInv(w) /\ Fits
      /\ pc[w] = "invalidate" /\ writer = w /\ work = tokens /\ r \in Resources
      /\ req[w].op = "regenerate" \/ Live(tokens, r) = {}
  BY DEF IInv, Invalidate, WorkerInv, Works, InTx, Requests
<1>2. work' = Invalidated(tokens, r) /\ tokens' = tokens
  BY <1>1 DEF Invalidate, Invalidated
<1>3. work' \in Seq(TokenRows) /\ Fits'
  BY <1>1, <1>2, InvalidatedRows DEF TypeOK, Fits
<1>4. TypeOK' /\ pc'[w] = "insert"
  BY <1>1, <1>3 DEF Invalidate, Goto, TypeOK
<1>5. WorkerInv(w)'
  BY <1>1, <1>2, <1>4 DEF Invalidate, WorkerInv, Works, Handed, InTx
<1>6. Alone(w) /\ Settled'
  BY <1>1, LabelsAssumption DEF Alone, Settled, Invalidate, Goto, TypeOK
<1>. QED
  BY <1>2, <1>3, <1>4, <1>5, <1>6, StepKeeps, SameRows

LEMMA InsertKeeps ==
  ASSUME IInv, NEW w \in Workers, Insert(w) PROVE IInv'
<1>. DEFINE r == req[w].resource
            op == req[w].op
            row == [resource |-> r, key |-> key[w], live |-> TRUE, by |-> op]
<1>1. /\ TypeOK /\ WorkerInv(w) /\ Fits
      /\ pc[w] = "insert" /\ writer = w /\ work = Invalidated(tokens, r)
      /\ r \in Resources /\ op \in {"print", "regenerate"}
      /\ op = "regenerate" \/ Live(tokens, r) = {}
  BY DEF IInv, Insert, WorkerInv, Works, InTx, Requests
<1>2. CASE GiveUp(w, "error")
  BY <1>2, GiveUpKeeps
\* The UPDATE has left no live row.
<1>3. Live(work, r) = {}
  <2>1. /\ DOMAIN work = DOMAIN tokens
        /\ \A t \in DOMAIN tokens : work[t].live => work[t].resource # r
    BY <1>1, InvalidatedRows DEF TypeOK
  <2>. QED
    BY <2>1 DEF Live
<1>4. CASE /\ CanEncrypt(key[w]) /\ Len(work) < MaxTokens
           /\ work' = Append(work, row)
           /\ token' = [token EXCEPT ![w] = Len(work) + 1]
           /\ Goto(w, "commit")
           /\ UNCHANGED <<tokens, writer, key, req, reply>>
  <2>1. key[w] \in Keys
    BY <1>1, <1>4 DEF CanEncrypt, TypeOK
  <2>2. Labelled(tokens, work', r, key[w], op)
    BY <1>1, <1>4 DEF Labelled, Relabelled, NewRow
  <2>3. work' \in Seq(TokenRows) /\ Len(work') = Len(work) + 1
    <3>1. row \in TokenRows
      BY <1>1, <2>1 DEF TokenRows
    <3>. QED
      BY <1>1, <1>4, <3>1 DEF TypeOK
  <2>4. Fits' /\ Len(work) + 1 \in 0..MaxTokens
    BY <1>1, <1>4, <2>3, LabelsAssumption DEF Fits, TypeOK
  <2>. HIDE DEF r, op, row
  <2>5. TypeOK' /\ pc'[w] = "commit" /\ token'[w] = Len(work')
    BY <1>1, <1>4, <2>3, <2>4 DEF Goto, TypeOK
  <2>6. Works(w)'
    BY <1>4, <2>1, <2>2, <2>5 DEF Works, r, op
  <2>7. WorkerInv(w)'
    BY <1>1, <1>4, <2>5, <2>6 DEF WorkerInv, Handed, InTx
  <2>8. Alone(w) /\ Settled'
    BY <1>1, <1>4, LabelsAssumption DEF Alone, Settled, Goto, TypeOK
  <2>. QED
    BY <1>4, <2>4, <2>5, <2>7, <2>8, StepKeeps, SameRows
<1>. QED
  BY <1>2, <1>3, <1>4 DEF Insert

\* A commit makes one label, or none.
LEMMA CommitRows ==
  ASSUME IInv, NEW w \in Workers, Commit(w)
  PROVE  \/ tokens' = tokens /\ token[w] \in Live(tokens, req[w].resource)
         \/ \E k \in Keys : /\ Labelled(tokens, tokens', req[w].resource, k, req[w].op)
                          /\ token[w] = Len(tokens')
BY DEF IInv, WorkerInv, Works, Commit

LEMMA CommitRowsStep ==
  ASSUME IInv, NEW w \in Workers, Commit(w) PROVE RowsStep(tokens, tokens')
<1>1. req[w] \in Requests
  BY DEF IInv, WorkerInv, InTx, Commit
<1>2. req[w].resource \in Resources /\ req[w].op \in {"print", "regenerate"}
  BY <1>1 DEF Requests
<1>. QED
  BY <1>2, CommitRows DEF RowsStep

LEMMA CommitKeeps ==
  ASSUME IInv, NEW w \in Workers, Commit(w) PROVE IInv'
<1>. DEFINE r == req[w].resource
<1>1. /\ TypeOK /\ WorkerInv(w) /\ Fits /\ writer = w /\ tokens' = work
      /\ UNCHANGED <<work, req, token>> /\ writer' = NoWorker
      /\ req[w] \in Requests
  BY DEF IInv, Commit, WorkerInv, InTx
<1>2. TypeOK' /\ pc'[w] = "done"
  BY <1>1 DEF Commit, Goto, TypeOK
<1>3. Fits' /\ Settled' /\ Alone(w)
  BY <1>1, LabelsAssumption DEF Fits, Settled, Alone, Commit, Goto, TypeOK
<1>4. Scans(tokens', token[w], r)
  <2>1. CASE tokens' = tokens /\ token[w] \in Live(tokens, r)
    BY <2>1 DEF Scans, Live
  <2>2. ASSUME NEW k \in Keys, Labelled(tokens, tokens', r, k, req[w].op), token[w] = Len(tokens')
        PROVE  Scans(tokens', token[w], r)
    <3>. DEFINE n == Len(tokens) + 1
    <3>1. r \in Resources /\ req[w].op \in {"print", "regenerate"}
      BY <1>1 DEF Requests
    <3>2. /\ tokens' \in Seq(TokenRows) /\ Len(tokens') = n
          /\ tokens'[n].resource = r /\ tokens'[n].live
      BY <1>1, <2>2, <3>1, LabelledRows DEF TypeOK
    <3>3. n \in 1..n
      BY <1>1 DEF TypeOK
    <3>. QED
      BY <2>2, <3>2, <3>3 DEF Scans
  <2>. QED
    BY <2>1, <2>2, CommitRows
<1>5. WorkerInv(w)'
  BY <1>1, <1>2, <1>4, LabelsAssumption DEF WorkerInv, Works, Handed, InTx, Commit, TypeOK
<1>. QED
  BY <1>2, <1>3, <1>5, CommitRowsStep, StepKeeps

LEMMA RespondKeeps ==
  ASSUME IInv, NEW w \in Workers, Respond(w) PROVE IInv'
<1>1. /\ TypeOK /\ WorkerInv(w) /\ UNCHANGED <<tokens, work, writer>>
      /\ pc[w] = "done" /\ writer # w
  BY DEF IInv, Respond, WorkerInv, InTx
<1>2. TypeOK' /\ pc'[w] = "idle" /\ reply'[w] = "none"
  BY <1>1, LabelsAssumption DEF Respond, Reset, Goto, TypeOK, NoToken
<1>3. WorkerInv(w)'
  BY <1>1, <1>2 DEF WorkerInv, Works, Handed, InTx
<1>4. Alone(w) /\ Fits' /\ Settled'
  BY <1>1 DEF Alone, Fits, Settled, IInv, TypeOK, Respond, Reset, Goto
<1>. QED
  BY <1>1, <1>2, <1>3, <1>4, StepKeeps, SameRows

LEMMA RestartKeeps ==
  ASSUME IInv, NEW w \in Workers, Restart(w) PROVE IInv'
<1>1. TypeOK /\ WorkerInv(w) /\ Abandon(w) /\ tokens' = tokens /\ Reset(w)
  BY DEF IInv, Restart, Abandon
<1>2. /\ work' \in Seq(TokenRows) /\ writer' \in Workers \cup {NoWorker}
      /\ writer' # w /\ Fits' /\ Settled'
      /\ writer = w \/ UNCHANGED <<tokens, work>>
      /\ \A u \in Workers \ {w} : writer' = u <=> writer = u
  BY <1>1, AbandonSettles
<1>3. pc'[w] = "idle" /\ reply'[w] = "none"
  BY <1>1 DEF Reset, Goto, TypeOK
<1>4. TypeOK'
  <2>1. /\ pc' \in [Workers -> {"idle", "begin", "look", "invalidate", "insert", "commit", "done"}]
        /\ req' \in [Workers -> Requests \cup {NoRequest}]
        /\ token' \in [Workers -> 0..MaxTokens]
        /\ reply' \in [Workers -> {"none", "label", "unavailable", "constraint", "error"}]
    BY <1>1, LabelsAssumption DEF Reset, Goto, TypeOK, NoToken
  <2>2. key' \in [Workers -> Keys \cup {NoKey}]
    BY <1>1 DEF Restart, TypeOK
  <2>. QED
    BY <1>1, <1>2, <2>1, <2>2 DEF TypeOK
<1>5. WorkerInv(w)'
  BY <1>2, <1>3 DEF WorkerInv, Works, Handed, InTx
<1>6. Alone(w)
  BY <1>1, <1>2 DEF Alone, Reset, Goto, TypeOK
<1>. QED
  BY <1>1, <1>2, <1>4, <1>5, <1>6, StepKeeps, SameRows

LEMMA StepInv == IInv /\ [Next]_vars => IInv'
<1>. SUFFICES ASSUME IInv, [Next]_vars PROVE IInv'
  OBVIOUS
<1>1. ASSUME NEW w \in Workers,
             \/ Receive(w) \/ Begin(w) \/ Busy(w) \/ Look(w) \/ Invalidate(w) \/ Insert(w)
             \/ Commit(w) \/ Fail(w) \/ Respond(w) \/ Restart(w)
      PROVE  IInv'
  <2>1. CASE Busy(w) \/ Fail(w)
    BY <2>1, GiveUpKeeps DEF Busy, Fail
  <2>. QED
    BY <1>1, <2>1, ReceiveKeeps, BeginKeeps, LookKeeps, InvalidateKeeps, InsertKeeps,
       CommitKeeps, RespondKeeps, RestartKeeps
<1>2. CASE UNCHANGED vars
  BY <1>2 DEF vars, IInv, TypeOK, Fits, Settled, OneLive, WorkerInv, Works, Handed
<1>. QED
  BY <1>1, <1>2 DEF Next

THEOREM Inductive == Spec => []IInv
BY InitInv, StepInv, PTL DEF Spec

-----------------------------------------------------------------------------
(* What the routes promise. *)

\* The values of the variables, whoever works on what.
THEOREM LabelsTyped == Spec => []TypeOK
<1>1. IInv => TypeOK
  BY DEF IInv
<1>. QED
  BY <1>1, Inductive, PTL

\* The unique index never refuses a token: the UPDATE of _new_qr and its INSERT
\* are under one write lock.
THEOREM IndexNeverRefuses == Spec => []IndexIsABackstop
<1>1. IInv => IndexIsABackstop
  BY DEF IInv, WorkerInv, Handed, IndexIsABackstop
<1>. QED
  BY <1>1, Inductive, PTL

\* Whoever was handed a label has one that scans, or one that was replaced since.
THEOREM LabelsScan == Spec => []LabelsAreRecorded
<1>1. IInv => LabelsAreRecorded
  BY DEF IInv, WorkerInv, Handed, Scans, LabelsAreRecorded
<1>. QED
  BY <1>1, Inductive, PTL

-----------------------------------------------------------------------------
(* What a step does to the committed rows. *)

LEMMA NextRows ==
  ASSUME IInv, [Next]_vars PROVE RowsStep(tokens, tokens')
<1>1. CASE UNCHANGED vars
  BY <1>1, SameRows DEF vars
<1>2. ASSUME NEW w \in Workers, Commit(w) PROVE RowsStep(tokens, tokens')
  BY <1>2, CommitRowsStep
<1>3. ASSUME NEW w \in Workers,
             \/ Receive(w) \/ Begin(w) \/ Busy(w) \/ Look(w) \/ Invalidate(w) \/ Insert(w)
             \/ Fail(w) \/ Respond(w) \/ Restart(w)
      PROVE  RowsStep(tokens, tokens')
  <2>1. tokens' = tokens
    BY <1>3 DEF Receive, Begin, Busy, Look, Invalidate, Insert, GiveUp, Fail, Respond, Restart
  <2>. QED
    BY <2>1, SameRows
<1>. QED
  BY <1>1, <1>2, <1>3 DEF Next

\* Only a regeneration ends a label, and it leaves its successor.
LEMMA EndedByRegeneration ==
  ASSUME NEW d \in Seq(TokenRows), NEW e, RowsStep(d, e), NEW t \in DOMAIN d,
         d[t].live, ~(t \in DOMAIN e /\ e[t].live)
  PROVE  \E s \in DOMAIN e \ DOMAIN d :
           e[s].live /\ e[s].by = "regenerate" /\ e[s].resource = d[t].resource
<1>1. ASSUME NEW r \in Resources, NEW k \in Keys, NEW op \in {"print", "regenerate"},
             Labelled(d, e, r, k, op)
      PROVE  \E s \in DOMAIN e \ DOMAIN d :
               e[s].live /\ e[s].by = "regenerate" /\ e[s].resource = d[t].resource
  <2>. DEFINE n == Len(d) + 1
  <2>1. /\ e \in Seq(TokenRows) /\ Len(e) = n
        /\ e[n].live /\ e[n].resource = r /\ e[n].by = op
        /\ e[t].live <=> (d[t].live /\ d[t].resource # r)
    BY <1>1, LabelledRows
  <2>2. n \in DOMAIN e \ DOMAIN d /\ t \in DOMAIN e
    BY <2>1
  <2>3. d[t].resource = r
    BY <2>1, <2>2
  <2>4. op = "regenerate"
    BY <1>1, <2>3 DEF Labelled, Live
  <2>. QED
    BY <2>1, <2>2, <2>3, <2>4
<1>. QED
  BY <1>1 DEF RowsStep

\* README.md:124, for any number of workers and restarts with any keys.
THEOREM OnlyRegenerationEnds == Spec => OnlyRegenerationReplaces
<1>1. IInv /\ [Next]_vars =>
        [\A t \in DOMAIN tokens :
           tokens[t].live /\ ~(t \in DOMAIN tokens' /\ tokens'[t].live) =>
             \E s \in DOMAIN tokens' \ DOMAIN tokens :
               tokens'[s].live /\ tokens'[s].by = "regenerate"
               /\ tokens'[s].resource = tokens[t].resource
        ]_vars
  BY NextRows, EndedByRegeneration DEF IInv, TypeOK
<1>. QED
  BY <1>1, Inductive, PTL DEF Spec, OnlyRegenerationReplaces

-----------------------------------------------------------------------------
(* The routes implement LabelRegistry. *)

\* LabelOf, of any rows.
LabelIn(d, r) ==
  LET live == Live(d, r) IN
  IF live = {} THEN NoToken ELSE CHOOSE t \in live : \A u \in live : u <= t

LEMMA LabelInLive ==
  ASSUME NEW d \in Seq(TokenRows), OneLive(d), NEW r
  PROVE  /\ Live(d, r) = {} => LabelIn(d, r) = NoToken
         /\ Live(d, r) # {} => LabelIn(d, r) \in Live(d, r)
         /\ \A t \in Live(d, r) : LabelIn(d, r) = t
<1>1. Live(d, r) # {} => LabelIn(d, r) \in Live(d, r)
  BY LastLive DEF LabelIn
<1>2. \A t, u \in Live(d, r) : t = u
  BY DEF Live, OneLive
<1>. QED
  BY <1>1, <1>2 DEF LabelIn

LEMMA LabelInRange ==
  ASSUME NEW d \in Seq(TokenRows), OneLive(d), NEW r
  PROVE  /\ LabelIn(d, r) \in {NoToken} \cup 1..Len(d)
         /\ LabelIn(d, r) # NoToken => LabelIn(d, r) \in Live(d, r)
<1>1. Live(d, r) \subseteq 1..Len(d)
  BY DEF Live
<1>. QED
  BY <1>1, LabelInLive

LEMMA LabelInStep ==
  ASSUME NEW d \in Seq(TokenRows), OneLive(d), NEW e,
         NEW r \in Resources, NEW k \in Keys, NEW op \in {"print", "regenerate"},
         Labelled(d, e, r, k, op)
  PROVE  /\ Len(e) = Len(d) + 1
         /\ LabelIn(e, r) = Len(d) + 1
         /\ \A q \in Resources \ {r} : LabelIn(e, q) = LabelIn(d, q)
<1>. DEFINE n == Len(d) + 1
<1>1. /\ e \in Seq(TokenRows) /\ Len(e) = n
      /\ e[n].live /\ e[n].resource = r
      /\ \A t \in DOMAIN d : /\ e[t].resource = d[t].resource
                             /\ e[t].live <=> (d[t].live /\ d[t].resource # r)
  BY LabelledRows
<1>2. OneLive(e)
  BY OneLiveKept DEF RowsStep
<1>3. DOMAIN e = 1..n /\ DOMAIN d = 1..(n - 1) /\ n \in Nat \ {0}
  BY <1>1
<1>4. n \in Live(e, r)
  BY <1>1, <1>3 DEF Live
<1>5. LabelIn(e, r) = n
  BY <1>1, <1>2, <1>4, LabelInLive
<1>6. ASSUME NEW q \in Resources, q # r PROVE LabelIn(e, q) = LabelIn(d, q)
  <2>1. Live(e, q) = Live(d, q)
    BY <1>1, <1>3, <1>6 DEF Live
  <2>. QED
    BY <2>1 DEF LabelIn
<1>. QED
  BY <1>1, <1>5, <1>6

LEMMA RegistryInit == IInv => Registry!Init
<1>. SUFFICES ASSUME IInv PROVE Registry!Init
  OBVIOUS
<1>1. tokens \in Seq(TokenRows) /\ OneLive(tokens)
  BY DEF IInv, TypeOK
<1>2. LabelOf = [r \in Resources |-> LabelIn(tokens, r)]
  BY DEF LabelOf, LabelIn
<1>3. LabelOf \in [Resources -> {NoToken} \cup 1..Len(tokens)]
  BY <1>1, <1>2, LabelInRange
<1>4. ASSUME NEW r1 \in Resources, NEW r2 \in Resources,
             LabelOf[r1] = LabelOf[r2], LabelOf[r1] # NoToken
      PROVE  r1 = r2
  <2>1. LabelOf[r1] \in Live(tokens, r1) /\ LabelOf[r2] \in Live(tokens, r2)
    BY <1>1, <1>2, <1>4, LabelInRange
  <2>. QED
    BY <1>4, <2>1 DEF Live
<1>5. Len(tokens) \in Nat
  BY <1>1
<1>. QED
  BY <1>3, <1>4, <1>5 DEF Registry!Init

LEMMA RegistryStep ==
  IInv /\ IInv' /\ [Next]_vars =>
    [\E r \in Resources : Registry!Issue(r) \/ Registry!Replace(r)]_<<LabelOf, Len(tokens)>>
<1>. SUFFICES ASSUME IInv, IInv', [Next]_vars
              PROVE  [\E r \in Resources : Registry!Issue(r) \/ Registry!Replace(r)
                     ]_<<LabelOf, Len(tokens)>>
  OBVIOUS
<1>1. tokens \in Seq(TokenRows) /\ OneLive(tokens)
  BY DEF IInv, TypeOK
<1>2. /\ LabelOf = [r \in Resources |-> LabelIn(tokens, r)]
      /\ LabelOf' = [r \in Resources |-> LabelIn(tokens', r)]
  BY DEF LabelOf, LabelIn
<1>3. CASE tokens' = tokens
  BY <1>2, <1>3
<1>4. ASSUME NEW r \in Resources, NEW k \in Keys, NEW op \in {"print", "regenerate"},
             Labelled(tokens, tokens', r, k, op)
      PROVE  Registry!Issue(r) \/ Registry!Replace(r)
  <2>1. /\ Len(tokens') = Len(tokens) + 1
        /\ LabelIn(tokens', r) = Len(tokens')
        /\ \A q \in Resources \ {r} : LabelIn(tokens', q) = LabelIn(tokens, q)
    BY <1>1, <1>4, LabelInStep
  <2>2. LabelOf' = [LabelOf EXCEPT ![r] = Len(tokens')]
    BY <1>2, <2>1
  <2>. QED
    BY <2>1, <2>2 DEF Registry!Issue, Registry!Replace
<1>. QED
  BY <1>3, <1>4, NextRows DEF RowsStep

\* Two first prints at once issue one label, a regeneration replaces one by one,
\* and a request that fails or dies does neither.
THEOREM LabelsImplementRegistry == Spec => ImplementsRegistry
<1>1. Init => Registry!Init
  BY InitInv, RegistryInit
<1>. QED
  BY <1>1, RegistryStep, Inductive, PTL DEF Spec, ImplementsRegistry, Registry!Spec

=============================================================================
