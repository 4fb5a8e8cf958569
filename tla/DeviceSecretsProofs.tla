------------------------- MODULE DeviceSecretsProofs -------------------------
(***************************************************************************)
(* Proofs about DeviceSecrets, for any devices, miners, users and bounds:   *)
(* the types; a row goes back only by a race of uploads; and, while the     *)
(* server works on one request at a time, secrets open with the key they    *)
(* are labelled with and counters tell what has changed.                    *)
(***************************************************************************)
EXTENDS DeviceSecrets, TLAPS

\* What holds however requests overlap.
Base == TypeOK /\ Named /\ Identified

\* What holds besides while they do not.
Calm == OneRequest /\ Informed /\ FormsTrue /\ SecretsTrue /\ FreshDevices

\* The step of a user or a device.
UserSteps(u) ==
    \/ \E d \in Devices : Register(u, d) \/ RotateLoad(u, d) \/ Revoke(u, d) \/ GetPubkey(u, d)
    \/ \E m \in Miners : UploadLoad(u, m)
    \/ \E d \in Devices, m \in Miners : DeleteSecret(u, d, m)
    \/ RotateCommit(u) \/ UploadCommit(u) \/ RequestDies(u)

PullSteps == \E d \in Devices, S \in SUBSET Miners : Receives(d, S)

\* Whatever is pulled, a device receives the rows of some miners.
LEMMA Steps == Next => PullSteps \/ \E u \in Users : UserSteps(u)
<1>1. ASSUME NEW d \in Devices, NEW n, Pull(d, n)
      PROVE  PullSteps
  BY <1>1 DEF Pull, PullSteps, StoredFor
<1>2. ASSUME NEW d \in Devices, NEW m \in Miners, PullOne(d, m)
      PROVE  PullSteps
  BY <1>2 DEF PullOne, PullSteps
<1> QED
  BY <1>1, <1>2 DEF Next, UserSteps

LEMMA Constants ==
    /\ NoSecret \in SecretRows
    /\ NoForm \in Forms
    /\ Idle \in Requests
    /\ Unregistered \in DeviceRows
    /\ Idle.op = "idle"
    /\ 0 \in Keys /\ 0 \in Texts
<1>1. 0 \in Keys /\ 0 \in Texts
  BY BoundAssumption DEF Keys, Texts
<1>2. NoSecret \in SecretRows
  BY <1>1 DEF NoSecret, SecretRows
<1> QED
  BY <1>1, <1>2 DEF NoForm, Forms, Idle, Requests, Unregistered, DeviceRows

\* A request that is given to a user leaves the types.
LEMMA SetRequest ==
    ASSUME Base, NEW u \in Users, NEW r \in Requests, req' = [req EXCEPT ![u] = r]
    PROVE  /\ req' \in [Users -> Requests]
           /\ req'[u] = r
           /\ \A w \in Users \ {u} : req'[w] = req[w]
BY DEF Base, TypeOK

\* What an upload stores in a row is a row, with the request's key and text.
LEMMA StoredRow ==
    ASSUME NEW r \in Requests, r.text > 0, NEW cur \in SecretRows, cur.id = r.snap.id,
           r.snap.id = 0 => r.snap = NoSecret
    PROVE  LET new == Stored(r, cur)
           IN  /\ new \in SecretRows
               /\ new.id # 0
               /\ new.text = r.text /\ new.key = r.key
               /\ new.counter = r.snap.counter + 1 \/ r.snap = NoSecret
               /\ r.snap = cur => new.version = r.version /\ new.counter = cur.counter + 1
<1>1. /\ r.text \in Texts /\ r.version \in Nat /\ r.key \in Keys /\ r.snap \in SecretRows
      /\ r.text # 0
  BY DEF Requests, Texts
<1>2. /\ cur.id \in Texts /\ cur.counter \in Nat /\ cur.version \in Nat
      /\ r.snap.counter \in Nat /\ r.snap.version \in Nat /\ r.snap.id \in Texts
  BY <1>1 DEF SecretRows
<1>3. CASE r.snap = NoSecret
  <2>1. Stored(r, cur) = [id |-> r.text, counter |-> 1, version |-> r.version, key |-> r.key,
                          text |-> r.text]
    BY <1>3 DEF Stored
  <2>2. Stored(r, cur) \in SecretRows
    BY <2>1, <1>1 DEF SecretRows
  <2>3. r.snap.counter = 0
    BY <1>3 DEF NoSecret
  <2> QED
    BY <2>1, <2>2, <2>3, <1>1, <1>3
<1>4. CASE r.snap # NoSecret
  <2> DEFINE v == IF r.version = r.snap.version THEN cur.version ELSE r.version
  <2>1. Stored(r, cur) = [cur EXCEPT !.counter = r.snap.counter + 1, !.key = r.key,
                                     !.text = r.text, !.version = v]
    BY <1>4 DEF Stored, SecretRows
  <2>2. v \in Nat
    BY <1>1, <1>2
  <2>3. r.snap = cur => v = r.version
    OBVIOUS
  <2> HIDE DEF v
  <2>4. Stored(r, cur) = [id |-> cur.id, counter |-> r.snap.counter + 1, version |-> v,
                           key |-> r.key, text |-> r.text]
    BY <2>1 DEF SecretRows
  <2>5. Stored(r, cur) \in SecretRows
    <3>1. r.snap.counter + 1 \in Nat
      BY <1>2
    <3> QED
      BY <2>4, <3>1, <2>2, <1>1, <1>2 DEF SecretRows
  <2>6. /\ Stored(r, cur).id = cur.id /\ Stored(r, cur).counter = r.snap.counter + 1
        /\ Stored(r, cur).key = r.key /\ Stored(r, cur).text = r.text /\ Stored(r, cur).version = v
    BY <2>4
  <2>7. cur.id # 0
    BY <1>4
  <2> QED
    BY <2>3, <2>5, <2>6, <2>7
<1> QED
  BY <1>3, <1>4

\* A request that is over leaves what Base says of the others.
LEMMA OverBase ==
    ASSUME Base, NEW u \in Users, req' = [req EXCEPT ![u] = Idle]
    PROVE  /\ req' \in [Users -> Requests]
           /\ \A w \in Users : /\ req'[w].op # "idle" => req'[w].dev \in Devices
                               /\ req'[w].op = "upload" => req'[w].miner \in Miners /\ req'[w].text > 0
                               /\ req'[w].snap.id = 0 => req'[w].snap = NoSecret
           /\ req'[u].op = "idle"
           /\ \A w \in Users \ {u} : req'[w] = req[w]
<1>1. /\ req' \in [Users -> Requests]
      /\ req'[u] = Idle
      /\ \A w \in Users \ {u} : req'[w] = req[w]
  BY SetRequest, Constants
<1>2. Idle.op = "idle" /\ Idle.snap = NoSecret
  BY DEF Idle
<1> QED
  BY <1>1, <1>2 DEF Base, Named, Identified

\* Steps that write to a row of a device.
LEMMA DevicesBase ==
    ASSUME Base, NEW u \in Users, NEW d \in Devices, Register(u, d) \/ Revoke(u, d)
    PROVE  Base'
<1>1. dev' \in [Devices -> DeviceRows] /\ drawn' \in Keys
  <2>1. CASE Register(u, d)
    <3>1. drawn + 1 \in Keys
      BY <2>1, BoundAssumption DEF Register, Base, TypeOK, Keys
    <3>2. [status |-> "ACTIVE", key |-> drawn + 1, version |-> 1] \in DeviceRows
      BY <3>1 DEF DeviceRows
    <3> QED
      BY <2>1, <3>1, <3>2 DEF Register, Base, TypeOK
  <2>2. CASE Revoke(u, d)
    BY <2>2 DEF Revoke, Base, TypeOK, DeviceRows
  <2> QED
    BY <2>1, <2>2
<1>2. UNCHANGED <<secret, form, req, have, wiped, sealed, overlap>>
  BY DEF Register, Revoke
<1> QED
  BY <1>1, <1>2 DEF Base, TypeOK, Named, Identified

\* A commit of a rotation.
LEMMA RotateBase ==
    ASSUME Base, NEW u \in Users, RotateCommit(u)
    PROVE  Base'
<1> DEFINE d == req[u].dev
           k == IF req[u].key = req[u].was THEN dev[d].key ELSE req[u].key
<1>1. /\ d \in Devices /\ k \in Keys /\ req[u].version + 1 \in Nat
      /\ dev[d] \in DeviceRows
  BY DEF Base, TypeOK, Named, RotateCommit, Requests, DeviceRows
<1>2. dev' = [dev EXCEPT ![d].key = k, ![d].version = req[u].version + 1]
  BY <1>1 DEF RotateCommit, Base, TypeOK, DeviceRows
<1>3. dev' \in [Devices -> DeviceRows]
  <2> HIDE DEF d, k
  <2> QED
    BY <1>1, <1>2 DEF Base, TypeOK, DeviceRows
<1>4. UNCHANGED <<secret, form, have, wiped, drawn, sealed, overlap>>
  BY DEF RotateCommit
<1>5. req' = [req EXCEPT ![u] = Idle]
  BY DEF RotateCommit
<1> QED
  BY <1>3, <1>4, <1>5, OverBase DEF Base, TypeOK, Named, Identified

\* A rotation is begun.
LEMMA RotateLoadBase ==
    ASSUME Base, NEW u \in Users, NEW d \in Devices, RotateLoad(u, d)
    PROVE  Base'
<1>1. PICK k \in {drawn + 1, dev[d].key} :
          /\ k <= MaxKeys
          /\ drawn' = IF k > drawn THEN k ELSE drawn
          /\ req' = [req EXCEPT ![u] = [op |-> "rotate", dev |-> d, miner |-> None, key |-> k,
                                     was |-> dev[d].key, version |-> dev[d].version,
                                     text |-> 0, snap |-> NoSecret]]
  BY DEF RotateLoad
<1>2. k \in Keys /\ drawn' \in Keys /\ dev[d] \in DeviceRows
  BY <1>1, BoundAssumption DEF Base, TypeOK, Keys, DeviceRows
<1> DEFINE r == [op |-> "rotate", dev |-> d, miner |-> None, key |-> k, was |-> dev[d].key,
                    version |-> dev[d].version, text |-> 0, snap |-> NoSecret]
<1>3. r \in Requests
  BY <1>2, Constants DEF Requests, DeviceRows
<1>4. /\ req' \in [Users -> Requests] /\ req'[u] = r
      /\ \A w \in Users \ {u} : req'[w] = req[w]
  <2>1. req' = [req EXCEPT ![u] = r]
    BY <1>1
  <2> HIDE DEF r
  <2> QED
    BY <2>1, <1>3, SetRequest
<1>5. r.op = "rotate" /\ r.dev = d /\ r.snap = NoSecret
  OBVIOUS
<1>6. UNCHANGED <<rows, form, have, wiped, sealed, overlap>>
  BY DEF RotateLoad
<1> HIDE DEF r
<1> QED
  BY <1>2, <1>4, <1>5, <1>6 DEF Base, TypeOK, Named, Identified, rows

\* A form is fetched.
LEMMA FormBase ==
    ASSUME Base, NEW u \in Users, NEW d \in Devices, GetPubkey(u, d)
    PROVE  Base'
<1> DEFINE f == [dev |-> d, key |-> dev[d].key, version |-> dev[d].version]
<1>1. f \in Forms /\ f.dev \in Devices
  BY DEF Base, TypeOK, DeviceRows, Forms
<1>2. form' = [form EXCEPT ![u] = f]
  BY DEF GetPubkey
<1>3. UNCHANGED <<rows, req, have, wiped, drawn, sealed, overlap>>
  BY DEF GetPubkey
<1> HIDE DEF f
<1> QED
  BY <1>1, <1>2, <1>3 DEF Base, TypeOK, Named, Identified, rows

\* The request that an upload makes of a form.
UploadOf(u, m) ==
    [op |-> "upload", dev |-> form[u].dev, miner |-> m, key |-> form[u].key, was |-> 0,
     version |-> form[u].version, text |-> sealed + 1, snap |-> secret[form[u].dev][m]]

LEMMA UploadLoadBase ==
    ASSUME Base, NEW u \in Users, NEW m \in Miners, UploadLoad(u, m)
    PROVE  /\ Base'
           /\ form[u].dev \in Devices
           /\ req'[u] = UploadOf(u, m)
           /\ \A w \in Users \ {u} : req'[w] = req[w]
<1>1. form[u].dev \in Devices
  BY DEF UploadLoad, Base, Named
<1>2. sealed + 1 \in Texts /\ sealed + 1 > 0
  BY BoundAssumption DEF UploadLoad, Base, TypeOK, Texts
<1>3. secret[form[u].dev][m] \in SecretRows
  BY <1>1 DEF Base, TypeOK
<1>4. UploadOf(u, m) \in Requests
  BY <1>1, <1>2, <1>3, Constants DEF UploadOf, Requests, Base, TypeOK, Forms
<1>5. req' = [req EXCEPT ![u] = UploadOf(u, m)]
  BY DEF UploadLoad, UploadOf
<1>6. /\ req' \in [Users -> Requests] /\ req'[u] = UploadOf(u, m)
      /\ \A w \in Users \ {u} : req'[w] = req[w]
  BY <1>4, <1>5, SetRequest
<1>7. /\ UploadOf(u, m).op = "upload" /\ UploadOf(u, m).dev = form[u].dev
      /\ UploadOf(u, m).miner = m /\ UploadOf(u, m).text = sealed + 1
      /\ UploadOf(u, m).snap = secret[form[u].dev][m]
  BY DEF UploadOf
<1>8. sealed' = sealed + 1 /\ UNCHANGED <<rows, form, have, wiped, drawn, overlap>>
  BY DEF UploadLoad
<1>9. Identified'
  BY <1>1, <1>6, <1>7, <1>8 DEF Identified, Base, rows
<1>10. Named'
  BY <1>1, <1>2, <1>6, <1>7, <1>8 DEF Named, Base
<1>11. TypeOK'
  BY <1>2, <1>6, <1>8 DEF TypeOK, Base, rows
<1> QED
  BY <1>1, <1>6, <1>9, <1>10, <1>11 DEF Base

\* What an upload that is committed does to the row it is about; any other row stays.
LEMMA UploadWrites ==
    ASSUME Base, NEW u \in Users, UploadCommit(u)
    PROVE  LET r   == req[u]
               cur == secret[r.dev][r.miner]
               new == secret'[r.dev][r.miner]
           IN  /\ r \in Requests /\ r.dev \in Devices /\ r.miner \in Miners
               /\ secret' \in [Devices -> [Miners -> SecretRows]]
               /\ \A e \in Devices, n \in Miners :
                      e # r.dev \/ n # r.miner => secret'[e][n] = secret[e][n]
               /\ \/ secret' = secret
                  \/ /\ cur.id = r.snap.id
                     /\ new.id # 0 /\ new.text = r.text /\ new.key = r.key
                     /\ r.snap = NoSecret => cur = NoSecret
                     /\ new.counter = r.snap.counter + 1 \/ r.snap = NoSecret
                     /\ r.snap = cur => new.version = r.version /\ new.counter = cur.counter + 1
<1> DEFINE r == req[u]
           d == r.dev
           m == r.miner
           cur == secret[d][m]
           new == Stored(r, cur)
<1>1. r \in Requests /\ d \in Devices /\ m \in Miners /\ r.text > 0
  BY DEF Base, TypeOK, Named, UploadCommit
<1>2. cur \in SecretRows /\ (r.snap.id = 0 => r.snap = NoSecret) /\ (cur.id = 0 => cur = NoSecret)
  BY <1>1 DEF Base, TypeOK, Identified
<1>3. CASE cur.id # r.snap.id
  <2>1. secret' = secret
    BY <1>3 DEF UploadCommit
  <2> QED
    BY <1>1, <2>1 DEF Base, TypeOK
<1>4. CASE cur.id = r.snap.id
  <2>1. /\ new \in SecretRows /\ new.id # 0 /\ new.text = r.text /\ new.key = r.key
        /\ new.counter = r.snap.counter + 1 \/ r.snap = NoSecret
        /\ r.snap = cur => new.version = r.version /\ new.counter = cur.counter + 1
    BY <1>1, <1>2, <1>4, StoredRow
  <2>2. secret' = [secret EXCEPT ![d][m] = new]
    BY <1>4 DEF UploadCommit
  <2>3. r.snap = NoSecret => cur = NoSecret
    BY <1>2, <1>4 DEF NoSecret
  <2> HIDE DEF new
  <2>4. /\ secret' \in [Devices -> [Miners -> SecretRows]]
        /\ secret'[d][m] = new
        /\ \A e \in Devices, n \in Miners : e # d \/ n # m => secret'[e][n] = secret[e][n]
    <3> HIDE DEF d, m
    <3> QED
      BY <1>1, <2>1, <2>2 DEF Base, TypeOK
  <2> QED
    BY <1>1, <1>4, <2>1, <2>3, <2>4
<1> QED
  BY <1>3, <1>4

LEMMA UploadBase ==
    ASSUME Base, NEW u \in Users, UploadCommit(u)
    PROVE  Base'
<1>1. /\ req' = [req EXCEPT ![u] = Idle]
      /\ UNCHANGED <<dev, form, have, wiped, drawn, sealed, overlap>>
  BY DEF UploadCommit
<1>2. \A e \in Devices, n \in Miners : secret'[e][n].id = 0 => secret'[e][n] = NoSecret
  BY UploadWrites DEF Base, Identified
<1> QED
  BY <1>1, <1>2, UploadWrites, OverBase DEF Base, TypeOK, Named, Identified

LEMMA DeleteBase ==
    ASSUME Base, NEW u \in Users, NEW d \in Devices, NEW m \in Miners, DeleteSecret(u, d, m)
    PROVE  Base'
<1>1. secret' = [secret EXCEPT ![d][m] = NoSecret] /\ wiped' = [wiped EXCEPT ![d][m] = TRUE]
  BY DEF DeleteSecret
<1>2. secret' \in [Devices -> [Miners -> SecretRows]] /\ wiped' \in [Devices -> [Miners -> BOOLEAN]]
  BY <1>1, Constants DEF Base, TypeOK
<1>3. \A e \in Devices, n \in Miners : secret'[e][n] = NoSecret \/ secret'[e][n] = secret[e][n]
  BY <1>1 DEF Base, TypeOK
<1>4. UNCHANGED <<dev, form, req, have, drawn, sealed, overlap>>
  BY DEF DeleteSecret
<1> QED
  BY <1>2, <1>3, <1>4 DEF Base, TypeOK, Named, Identified

\* After a pull a device has the rows of S as they are, and the others as they were.
LEMMA PullWrites ==
    ASSUME Base, NEW d \in Devices, NEW S \in SUBSET Miners, Receives(d, S)
    PROVE  /\ Base'
           /\ \A m \in S : have'[d][m] = secret[d][m]
           /\ \A e \in Devices, m \in Miners :
                  e # d \/ m \notin S => have'[e][m] = have[e][m] /\ wiped'[e][m] = wiped[e][m]
<1>1. /\ have' = [have EXCEPT ![d] = [m \in Miners |-> IF m \in S THEN secret[d][m] ELSE have[d][m]]]
      /\ wiped' = [wiped EXCEPT ![d] = [m \in Miners |-> wiped[d][m] /\ m \notin S]]
      /\ UNCHANGED <<rows, form, req, drawn, sealed, overlap>>
  BY DEF Receives, Base, TypeOK
<1>2. have' \in [Devices -> [Miners -> SecretRows]] /\ wiped' \in [Devices -> [Miners -> BOOLEAN]]
  BY <1>1 DEF Base, TypeOK
<1>3. \A m \in S : have'[d][m] = secret[d][m]
  BY <1>1 DEF Base, TypeOK
<1>4. \A e \in Devices, m \in Miners : e # d => have'[e][m] = have[e][m] /\ wiped'[e][m] = wiped[e][m]
  BY <1>1 DEF Base, TypeOK
<1>5. \A m \in Miners : m \notin S => have'[d][m] = have[d][m] /\ wiped'[d][m] = wiped[d][m]
  BY <1>1 DEF Base, TypeOK
<1>6. Base'
  BY <1>1, <1>2 DEF Base, TypeOK, Named, Identified, rows
<1> QED
  BY <1>3, <1>4, <1>5, <1>6

LEMMA BaseStep == Base /\ [Next]_vars => Base'
<1> SUFFICES ASSUME Base, [Next]_vars
             PROVE  Base'
  OBVIOUS
<1>1. CASE UNCHANGED vars
  BY <1>1 DEF vars, Base, TypeOK, Named, Identified
<1>2. ASSUME NEW u \in Users, UserSteps(u)
      PROVE  Base'
  <2>1. CASE RequestDies(u)
    BY <2>1, OverBase DEF RequestDies, Base, TypeOK, Named, Identified, rows
  <2> QED
    BY <1>2, <2>1, DevicesBase, RotateBase, RotateLoadBase, FormBase, UploadLoadBase, UploadBase,
       DeleteBase DEF UserSteps
<1> QED
  BY <1>1, <1>2, Steps, PullWrites DEF PullSteps

LEMMA BaseInit == Init => Base
<1> SUFFICES ASSUME Init
             PROVE  Base
  OBVIOUS
<1>1. TypeOK
  BY Constants, BoundAssumption DEF Init, TypeOK, Keys, Texts
<1>2. Named
  BY Constants DEF Init, Named
<1>3. Identified
  BY DEF Init, Identified, Idle
<1> QED
  BY <1>1, <1>2, <1>3 DEF Base

\* Every variable keeps its type.
THEOREM SecretsTyping == Spec => []TypeOK
<1>1. Base => TypeOK
  BY DEF Base
<1> QED
  BY <1>1, BaseInit, BaseStep, PTL DEF Spec

\* However requests overlap, a row goes back, or keeps its counter with another text,
\* only by an upload that loaded the row before another upload was committed.
THEOREM RowsGoBackByRaceOnly == Spec => GoesBackByRaceOnly
<1> DEFINE Back == \A d \in Devices, m \in Miners :
               LET old == secret[d][m]
                   new == secret'[d][m]
               IN  old # NoSecret /\ new # NoSecret /\ new.text # old.text =>
                       \/ new.counter > old.counter
                       \/ \E u \in Users : /\ req[u].op = "upload" /\ req[u].text = new.text
                                           /\ req[u].snap # old
<1>1. Base /\ [Next]_vars => [Back]_vars
  <2> SUFFICES ASSUME Base, Next, NEW d \in Devices, NEW m \in Miners,
                      secret[d][m] # NoSecret, secret'[d][m] # NoSecret,
                      secret'[d][m].text # secret[d][m].text
               PROVE  \/ secret'[d][m].counter > secret[d][m].counter
                      \/ \E u \in Users : /\ req[u].op = "upload" /\ req[u].text = secret'[d][m].text
                                          /\ req[u].snap # secret[d][m]
    BY DEF Base
  <2>1. CASE UNCHANGED secret
    BY <2>1
  <2>2. ASSUME NEW u \in Users, UploadCommit(u), ~UNCHANGED secret
        PROVE  \/ secret'[d][m].counter > secret[d][m].counter
               \/ \E w \in Users : /\ req[w].op = "upload" /\ req[w].text = secret'[d][m].text
                                   /\ req[w].snap # secret[d][m]
    <3>1. /\ d = req[u].dev /\ m = req[u].miner
          /\ secret'[d][m].text = req[u].text
          /\ req[u].snap = secret[d][m] => secret'[d][m].counter = secret[d][m].counter + 1
      BY <2>2, UploadWrites
    <3>2. secret[d][m].counter \in Nat
      BY DEF Base, TypeOK, SecretRows
    <3>3. req[u].op = "upload"
      BY <2>2 DEF UploadCommit
    <3> QED
      BY <3>1, <3>2, <3>3
  <2>3. ASSUME NEW u \in Users, NEW e \in Devices, NEW n \in Miners, DeleteSecret(u, e, n)
        PROVE  FALSE
    BY <2>3 DEF DeleteSecret, Base, TypeOK
  <2>4. ASSUME NEW e \in Devices, NEW S \in SUBSET Miners, Receives(e, S)
        PROVE  UNCHANGED secret
    BY <2>4 DEF Receives, rows
  <2>5. ASSUME NEW u \in Users, UserSteps(u), ~UploadCommit(u),
               ~\E e \in Devices, n \in Miners : DeleteSecret(u, e, n)
        PROVE  UNCHANGED secret
    BY <2>5 DEF UserSteps, Register, RotateLoad, Revoke, GetPubkey, UploadLoad, RotateCommit, RequestDies, rows
  <2> QED
    BY <2>1, <2>2, <2>3, <2>4, <2>5, Steps DEF PullSteps
<1> QED
  BY <1>1, BaseInit, BaseStep, PTL DEF Spec, GoesBackByRaceOnly

-----------------------------------------------------------------------------
(* While requests do not overlap.                                           *)

\* A user who starts finds nobody else at work.
LEMMA Alone ==
    ASSUME ~overlap, NEW u \in Users, CanStart(u)
    PROVE  \A w \in Users : req[w].op = "idle"
BY DEF CanStart

\* Who works, works alone.
LEMMA OthersIdle ==
    ASSUME Calm, NEW u \in Users, req[u].op # "idle", req' = [req EXCEPT ![u] = Idle], Base
    PROVE  \A w \in Users : req'[w].op = "idle"
<1>1. \A w \in Users \ {u} : req[w].op = "idle"
  BY DEF Calm, OneRequest
<1> QED
  BY <1>1, OverBase

\* Nothing is in flight, so nothing is claimed of it.
LEMMA IdleClaims ==
    ASSUME \A w \in Users : req[w].op = "idle"
    PROVE  OneRequest /\ Informed
BY DEF OneRequest, Informed

LEMMA DevicesCalm ==
    ASSUME Base, Calm, ~overlap, NEW u \in Users, NEW d \in Devices, Register(u, d) \/ Revoke(u, d)
    PROVE  Calm'
<1>1. \A w \in Users : req'[w].op = "idle"
  BY Alone DEF Register, Revoke
<1>2. (OneRequest /\ Informed)'
  BY <1>1 DEF OneRequest, Informed
<1>3. \A e \in Devices : e # d => dev'[e] = dev[e]
  BY DEF Register, Revoke, Base, TypeOK
<1>4. /\ \A v \in Nat : \A k : TrueTo(d, v, k) => TrueTo(d, v, k)'
      /\ dev'[d].status # "none"
  <2>1. CASE Register(u, d)
    <3>1. dev'[d] = [status |-> "ACTIVE", key |-> drawn + 1, version |-> 1]
      BY <2>1 DEF Register, Base, TypeOK
    <3>2. dev[d].version = 0
      BY <2>1 DEF Register, Calm, FreshDevices, Unregistered
    <3> QED
      BY <3>1, <3>2 DEF TrueTo
  <2>2. CASE Revoke(u, d)
    BY <2>2 DEF Revoke, Base, TypeOK, DeviceRows, TrueTo
  <2> QED
    BY <2>1, <2>2
<1>5. UNCHANGED <<secret, form>>
  BY DEF Register, Revoke
<1>6. \A e \in Devices, v \in Nat : \A k : TrueTo(e, v, k) => TrueTo(e, v, k)'
  BY <1>3, <1>4 DEF TrueTo
<1>7. /\ \A w \in Users : form[w].version \in Nat /\ (form[w] # NoForm => form[w].dev \in Devices)
      /\ \A e \in Devices, m \in Miners : secret[e][m].version \in Nat
  BY DEF Base, TypeOK, Named, Forms, SecretRows
<1>8. FormsTrue'
  BY <1>5, <1>6, <1>7 DEF FormsTrue, Calm
<1>9. SecretsTrue'
  BY <1>5, <1>6, <1>7 DEF SecretsTrue, Calm
<1>10. FreshDevices'
  BY <1>3, <1>4 DEF FreshDevices, Calm
<1> QED
  BY <1>2, <1>8, <1>9, <1>10 DEF Calm

\* A rotation takes the version beyond all that is known of the device.
LEMMA RotateCalm ==
    ASSUME Base, Calm, ~overlap, NEW u \in Users, RotateCommit(u)
    PROVE  Calm'
<1> DEFINE d == req[u].dev
<1>1. req' = [req EXCEPT ![u] = Idle] /\ req[u].op = "rotate" /\ UNCHANGED <<secret, form>>
  BY DEF RotateCommit
<1>2. (OneRequest /\ Informed)'
  <2>1. \A w \in Users : req'[w].op = "idle"
    BY <1>1, OthersIdle
  <2> QED
    BY <2>1 DEF OneRequest, Informed
<1>3. d \in Devices /\ dev[d] \in DeviceRows /\ dev[d].version = req[u].version /\ dev[d].status # "none"
  BY <1>1 DEF Base, TypeOK, Named, Calm, Informed
<1>4. /\ \A e \in Devices : e # d => dev'[e] = dev[e]
      /\ dev'[d].version = dev[d].version + 1 /\ dev'[d].status = dev[d].status
  BY <1>3 DEF RotateCommit, Base, TypeOK, DeviceRows
<1>5. dev[d].version \in Nat
  BY <1>3 DEF DeviceRows
<1>6. \A e \in Devices, v \in Nat : \A k : TrueTo(e, v, k) => TrueTo(e, v, k)'
  BY <1>4, <1>5 DEF TrueTo
<1>7. /\ \A w \in Users : form[w].version \in Nat /\ (form[w] # NoForm => form[w].dev \in Devices)
      /\ \A e \in Devices, m \in Miners : secret[e][m].version \in Nat
  BY DEF Base, TypeOK, Named, Forms, SecretRows
<1>8. FormsTrue' /\ SecretsTrue'
  BY <1>1, <1>6, <1>7 DEF FormsTrue, SecretsTrue, Calm
<1>9. FreshDevices'
  BY <1>3, <1>4 DEF FreshDevices, Calm
<1> QED
  BY <1>2, <1>8, <1>9 DEF Calm

\* Steps that leave the devices, the secrets and the forms, when nobody is at work then.
LEMMA RestCalm ==
    ASSUME Calm, UNCHANGED <<rows, form>>, \A w \in Users : req'[w].op = "idle"
    PROVE  Calm'
<1>1. (OneRequest /\ Informed)'
  BY DEF OneRequest, Informed
<1> QED
  BY <1>1 DEF Calm, FormsTrue, SecretsTrue, FreshDevices, TrueTo, rows

LEMMA RotateLoadCalm ==
    ASSUME Base, Calm, ~overlap, NEW u \in Users, NEW d \in Devices, RotateLoad(u, d)
    PROVE  Calm'
<1>1. \A w \in Users : req[w].op = "idle"
  BY Alone DEF RotateLoad
<1>2. /\ req'[u].op = "rotate" /\ req'[u].dev = d /\ req'[u].was = dev[d].key
      /\ req'[u].version = dev[d].version
      /\ \A w \in Users \ {u} : req'[w] = req[w]
  BY DEF RotateLoad, Base, TypeOK
<1>3. dev[d].status # "none" /\ UNCHANGED <<rows, form>>
  BY DEF RotateLoad, Active
<1>4. OneRequest'
  BY <1>1, <1>2 DEF OneRequest
<1>5. Informed'
  <2> SUFFICES ASSUME NEW w \in Users, req'[w].op # "idle"
               PROVE  /\ w = u
    BY <1>2, <1>3 DEF Informed, rows
  <2> QED
    BY <1>1, <1>2
<1> QED
  BY <1>3, <1>4, <1>5 DEF Calm, FormsTrue, SecretsTrue, FreshDevices, TrueTo, rows

LEMMA FormCalm ==
    ASSUME Base, Calm, ~overlap, NEW u \in Users, NEW d \in Devices, GetPubkey(u, d)
    PROVE  Calm'
<1>1. \A w \in Users : req'[w].op = "idle"
  BY Alone DEF GetPubkey
<1>2. (OneRequest /\ Informed)'
  BY <1>1 DEF OneRequest, Informed
<1>3. UNCHANGED rows
  BY DEF GetPubkey
<1>4. /\ form'[u].dev = d /\ form'[u].key = dev[d].key /\ form'[u].version = dev[d].version
      /\ \A w \in Users \ {u} : form'[w] = form[w]
  BY DEF GetPubkey, Base, TypeOK
<1>5. dev[d].version \in Nat
  BY DEF Base, TypeOK, DeviceRows
<1>6. TrueTo(d, dev[d].version, dev[d].key)
  BY <1>5 DEF TrueTo
<1>7. FormsTrue'
  BY <1>3, <1>4, <1>6 DEF Calm, FormsTrue, TrueTo, rows
<1> QED
  BY <1>2, <1>3, <1>7 DEF Calm, SecretsTrue, FreshDevices, TrueTo, rows

\* An upload that is admitted has the key and the version of the device.
LEMMA UploadLoadCalm ==
    ASSUME Base, Calm, ~overlap, NEW u \in Users, NEW m \in Miners, UploadLoad(u, m)
    PROVE  Calm'
<1>1. \A w \in Users : req[w].op = "idle"
  BY Alone DEF UploadLoad
<1>2. /\ form[u].dev \in Devices /\ req'[u] = UploadOf(u, m)
      /\ \A w \in Users \ {u} : req'[w] = req[w]
  BY UploadLoadBase
<1>3. UNCHANGED <<rows, form>>
  BY DEF UploadLoad
<1>4. form[u].version = dev[form[u].dev].version /\ form[u].key = dev[form[u].dev].key
  BY DEF UploadLoad, MayUpload, Calm, FormsTrue, TrueTo
<1>5. OneRequest'
  BY <1>1, <1>2 DEF OneRequest
<1>6. Informed'
  <2>1. /\ req'[u].op = "upload" /\ req'[u].dev = form[u].dev /\ req'[u].miner = m
        /\ req'[u].key = form[u].key /\ req'[u].version = form[u].version
        /\ req'[u].snap = secret[form[u].dev][m]
    BY <1>2 DEF UploadOf
  <2>2. \A w \in Users : req'[w].op # "idle" => w = u
    BY <1>1, <1>2
  <2> QED
    BY <2>1, <2>2, <1>3, <1>4 DEF Informed, rows
<1> QED
  BY <1>3, <1>5, <1>6 DEF Calm, FormsTrue, SecretsTrue, FreshDevices, TrueTo, rows

\* What an upload stores has the key and the version of the device.
LEMMA UploadCalm ==
    ASSUME Base, Calm, ~overlap, NEW u \in Users, UploadCommit(u)
    PROVE  /\ Calm'
           /\ \A d \in Devices, m \in Miners :
                  \/ secret'[d][m] = secret[d][m]
                  \/ /\ secret'[d][m].key = dev[d].key /\ secret'[d][m].version = dev[d].version
                     /\ secret'[d][m].counter > secret[d][m].counter
                     /\ secret'[d][m] # NoSecret
<1> DEFINE d == req[u].dev
           m == req[u].miner
<1>1. /\ req[u].op = "upload" /\ req' = [req EXCEPT ![u] = Idle]
      /\ UNCHANGED <<dev, form, have, wiped, drawn, sealed, overlap>>
  BY DEF UploadCommit
<1>2. /\ d \in Devices /\ m \in Miners /\ req[u] \in Requests
      /\ \A e \in Devices, n \in Miners : e # d \/ n # m => secret'[e][n] = secret[e][n]
  BY UploadWrites
<1>3. /\ req[u].snap = secret[d][m]
      /\ req[u].key = dev[d].key /\ req[u].version = dev[d].version
  BY <1>1 DEF Calm, Informed
<1>4. \/ secret' = secret
      \/ /\ secret'[d][m].id # 0 /\ secret'[d][m].key = dev[d].key
         /\ secret'[d][m].version = dev[d].version
         /\ secret'[d][m].counter = secret[d][m].counter + 1
  BY <1>3, UploadWrites
<1>5. dev[d].version \in Nat /\ secret[d][m].counter \in Nat
  BY <1>2 DEF Base, TypeOK, DeviceRows, SecretRows
<1>6. \A e \in Devices, n \in Miners :
          \/ secret'[e][n] = secret[e][n]
          \/ /\ secret'[e][n].key = dev[e].key /\ secret'[e][n].version = dev[e].version
             /\ secret'[e][n].counter > secret[e][n].counter
             /\ secret'[e][n] # NoSecret
  BY <1>2, <1>4, <1>5 DEF NoSecret
<1>7. \A w \in Users : req'[w].op = "idle"
  BY <1>1, OthersIdle
<1>8. (OneRequest /\ Informed)'
  BY <1>7 DEF OneRequest, Informed
<1>9. \A e \in Devices : dev[e].version \in Nat
  BY DEF Base, TypeOK, DeviceRows
<1>10. SecretsTrue'
  BY <1>1, <1>6, <1>9 DEF Calm, SecretsTrue, TrueTo
<1>11. (FormsTrue /\ FreshDevices)'
  BY <1>1 DEF Calm, FormsTrue, FreshDevices, TrueTo
<1> QED
  BY <1>6, <1>8, <1>10, <1>11 DEF Calm

LEMMA DeleteCalm ==
    ASSUME Base, Calm, ~overlap, NEW u \in Users, NEW d \in Devices, NEW m \in Miners,
           DeleteSecret(u, d, m)
    PROVE  Calm'
<1>1. \A w \in Users : req'[w].op = "idle"
  BY Alone DEF DeleteSecret
<1>2. (OneRequest /\ Informed)'
  BY <1>1 DEF OneRequest, Informed
<1>3. \A e \in Devices, n \in Miners : secret'[e][n] = NoSecret \/ secret'[e][n] = secret[e][n]
  BY DEF DeleteSecret, Base, TypeOK
<1>4. UNCHANGED <<dev, form>>
  BY DEF DeleteSecret
<1> QED
  BY <1>2, <1>3, <1>4 DEF Calm, FormsTrue, SecretsTrue, FreshDevices, TrueTo

\* A device is served while nobody is at work.
LEMMA PullsFindRest ==
    ASSUME ~overlap, Next, ~\E u \in Users : UserSteps(u)
    PROVE  \A w \in Users : req[w].op = "idle"
BY DEF Next, UserSteps, Pull, PullOne, CanServe

LEMMA CalmStep == Base /\ Calm /\ ~overlap /\ [Next]_vars => Calm' /\ ~overlap'
<1> SUFFICES ASSUME Base, Calm, ~overlap, [Next]_vars
             PROVE  Calm' /\ ~overlap'
  OBVIOUS
<1>1. CASE UNCHANGED vars
  BY <1>1 DEF vars, Calm, OneRequest, Informed, FormsTrue, SecretsTrue, FreshDevices, TrueTo
<1>2. ASSUME NEW u \in Users, UserSteps(u)
      PROVE  Calm' /\ ~overlap'
  <2>1. UNCHANGED overlap
    BY <1>2 DEF UserSteps, Register, RotateLoad, Revoke, GetPubkey, UploadLoad, DeleteSecret,
       RotateCommit, UploadCommit, RequestDies
  <2>2. CASE RequestDies(u)
    <3>1. \A w \in Users : req'[w].op = "idle"
      BY <2>2, OthersIdle DEF RequestDies
    <3> QED
      BY <2>1, <2>2, <3>1, RestCalm DEF RequestDies
  <2> QED
    BY <1>2, <2>1, <2>2, DevicesCalm, RotateCalm, RotateLoadCalm, FormCalm, UploadLoadCalm,
       UploadCalm, DeleteCalm DEF UserSteps
<1>3. CASE Next /\ ~\E u \in Users : UserSteps(u)
  <2>1. UNCHANGED <<rows, form, req, overlap>>
    BY <1>3, Steps DEF PullSteps, Receives
  <2> QED
    BY <1>3, <2>1, PullsFindRest, RestCalm
<1> QED
  BY <1>1, <1>2, <1>3

\* What a device holds falls behind its rows only by counters, or by deletions.
LEMMA TellsStep == Base /\ Calm /\ ~overlap /\ CounterTells /\ [Next]_vars => CounterTells'
<1> SUFFICES ASSUME Base, Calm, ~overlap, CounterTells, [Next]_vars,
                    NEW d \in Devices, NEW m \in Miners
             PROVE  \/ wiped'[d][m]
                    \/ have'[d][m] = secret'[d][m]
                    \/ have'[d][m].counter < secret'[d][m].counter
  BY DEF CounterTells
<1>1. \/ wiped[d][m]
      \/ have[d][m] = secret[d][m]
      \/ have[d][m].counter < secret[d][m].counter
  BY DEF CounterTells
<1>2. have[d][m].counter \in Nat /\ secret[d][m].counter \in Nat
  BY DEF Base, TypeOK, SecretRows
<1>3. CASE UNCHANGED <<secret, have, wiped>>
  BY <1>1, <1>3
<1>4. ASSUME NEW u \in Users, UploadCommit(u)
      PROVE  \/ wiped'[d][m]
             \/ have'[d][m] = secret'[d][m]
             \/ have'[d][m].counter < secret'[d][m].counter
  <2>1. UNCHANGED <<have, wiped>>
    BY <1>4 DEF UploadCommit
  <2>2. /\ secret' \in [Devices -> [Miners -> SecretRows]]
        /\ secret'[d][m] = secret[d][m] \/ secret'[d][m].counter > secret[d][m].counter
    BY <1>4, UploadWrites, UploadCalm
  <2>3. secret'[d][m].counter \in Nat
    BY <2>2 DEF SecretRows
  <2> QED
    BY <1>1, <1>2, <2>1, <2>2, <2>3
<1>5. ASSUME NEW u \in Users, NEW e \in Devices, NEW n \in Miners, DeleteSecret(u, e, n)
      PROVE  \/ wiped'[d][m]
             \/ have'[d][m] = secret'[d][m]
             \/ have'[d][m].counter < secret'[d][m].counter
  <2>1. CASE e = d /\ n = m
    BY <1>5, <2>1 DEF DeleteSecret, Base, TypeOK
  <2>2. CASE e # d \/ n # m
    <3>1. secret'[d][m] = secret[d][m] /\ wiped'[d][m] = wiped[d][m] /\ have' = have
      BY <1>5, <2>2 DEF DeleteSecret, Base, TypeOK
    <3> QED
      BY <1>1, <3>1
  <2> QED
    BY <2>1, <2>2
<1>6. ASSUME NEW e \in Devices, NEW S \in SUBSET Miners, Receives(e, S)
      PROVE  \/ wiped'[d][m]
             \/ have'[d][m] = secret'[d][m]
             \/ have'[d][m].counter < secret'[d][m].counter
  <2>1. UNCHANGED secret
    BY <1>6 DEF Receives, rows
  <2>2. CASE e = d /\ m \in S
    BY <1>6, <2>1, <2>2, PullWrites
  <2>3. CASE e # d \/ m \notin S
    BY <1>1, <1>6, <2>1, <2>3, PullWrites
  <2> QED
    BY <2>2, <2>3
<1>7. ASSUME NEW u \in Users, UserSteps(u), ~UploadCommit(u),
             ~\E e \in Devices, n \in Miners : DeleteSecret(u, e, n)
      PROVE  UNCHANGED <<secret, have, wiped>>
  BY <1>7 DEF UserSteps, Register, RotateLoad, Revoke, GetPubkey, UploadLoad, RotateCommit, RequestDies, rows
<1> QED
  BY <1>3, <1>4, <1>5, <1>6, <1>7, Steps DEF PullSteps, vars

LEMMA CalmInit == Init => (~overlap => Calm) /\ CounterTells
<1> SUFFICES ASSUME Init
             PROVE  Calm /\ CounterTells
  OBVIOUS
<1>1. OneRequest /\ Informed
  BY IdleClaims, Constants DEF Init
<1>2. FormsTrue /\ SecretsTrue /\ FreshDevices
  BY DEF Init, FormsTrue, SecretsTrue, FreshDevices
<1>3. CounterTells
  BY DEF Init, CounterTells
<1> QED
  BY <1>1, <1>2, <1>3 DEF Calm

\* The invariant is inductive.
LEMMA SecretsInvariant == Spec => []SecretsInv
<1>1. SecretsInv <=> Base /\ (~overlap => Calm) /\ CounterTells
  BY DEF SecretsInv, Base, Calm
<1>2. Init => SecretsInv
  BY <1>1, BaseInit, CalmInit
<1>3. SecretsInv /\ [Next]_vars => SecretsInv'
  <2> SUFFICES ASSUME SecretsInv, [Next]_vars
               PROVE  SecretsInv'
    OBVIOUS
  <2>1. overlap' = overlap
    BY DEF Next, Register, RotateLoad, Revoke, GetPubkey, UploadLoad, DeleteSecret, RotateCommit,
       UploadCommit, RequestDies, Pull, PullOne, Receives, vars
  <2>2. Base /\ Base' /\ (~overlap => Calm) /\ CounterTells
    BY <1>1, BaseStep
  <2>3. CASE overlap
    <3>1. (~overlap => Calm)' /\ CounterTells'
      BY <2>1, <2>3 DEF CounterTells
    <3> QED
      BY <2>2, <3>1 DEF SecretsInv, Base, Calm
  <2>4. CASE ~overlap
    <3>1. Calm' /\ CounterTells'
      BY <2>2, <2>4, CalmStep, TellsStep
    <3> QED
      BY <2>2, <3>1 DEF SecretsInv, Base, Calm
  <2> QED
    BY <2>3, <2>4
<1> QED
  BY <1>2, <1>3, PTL DEF Spec

\* While requests do not overlap, a secret that is labelled with the version of its
\* device opens with the device's key.
THEOREM CurrentSecretsOpen == Spec => []CurrentOpens
<1>1. SecretsInv => CurrentOpens
  BY DEF SecretsInv, CurrentOpens, SecretsTrue, TrueTo
<1> QED
  BY <1>1, SecretsInvariant, PTL

\* And a pull of what has a greater counter misses no change that is not a deletion.
THEOREM CountersTell == Spec => []CounterTells
<1>1. SecretsInv => CounterTells
  BY DEF SecretsInv
<1> QED
  BY <1>1, SecretsInvariant, PTL

\* And what an upload stores opens with the key of that moment.
THEOREM StoredSecretsOpen == Spec => UploadsOpen
<1> DEFINE Opens == ~overlap => \A d \in Devices, m \in Miners :
               secret'[d][m].text > secret[d][m].text
                   => secret'[d][m].key = dev[d].key /\ secret'[d][m].version = dev[d].version
<1>1. SecretsInv /\ [Next]_vars => [Opens]_vars
  <2> SUFFICES ASSUME SecretsInv, Next, ~overlap, NEW d \in Devices, NEW m \in Miners,
                      secret'[d][m].text > secret[d][m].text
               PROVE  secret'[d][m].key = dev[d].key /\ secret'[d][m].version = dev[d].version
    OBVIOUS
  <2>1. Base /\ Calm
    BY DEF SecretsInv, Base, Calm
  <2>2. secret[d][m].text \in Nat
    BY <2>1 DEF Base, TypeOK, SecretRows, Texts
  <2>3. secret'[d][m] # secret[d][m]
    BY <2>2
  <2>4. ASSUME NEW u \in Users, NEW e \in Devices, NEW n \in Miners, DeleteSecret(u, e, n)
        PROVE  FALSE
    <3>1. secret'[d][m] = NoSecret
      BY <2>1, <2>3, <2>4 DEF DeleteSecret, Base, TypeOK
    <3> QED
      BY <2>2, <3>1 DEF NoSecret
  <2>5. ASSUME NEW e \in Devices, NEW S \in SUBSET Miners, Receives(e, S)
        PROVE  FALSE
    BY <2>3, <2>5 DEF Receives, rows
  <2>6. ASSUME NEW u \in Users, UserSteps(u), ~UploadCommit(u)
        PROVE  FALSE
    BY <2>3, <2>4, <2>6 DEF UserSteps, Register, RotateLoad, Revoke, GetPubkey, UploadLoad,
       RotateCommit, RequestDies, rows
  <2>7. ASSUME NEW u \in Users, UploadCommit(u)
        PROVE  secret'[d][m].key = dev[d].key /\ secret'[d][m].version = dev[d].version
    BY <2>1, <2>3, <2>7, UploadCalm
  <2> QED
    BY <2>5, <2>6, <2>7, Steps DEF PullSteps
<1> QED
  BY <1>1, SecretsInvariant, PTL DEF Spec, UploadsOpen

=============================================================================
