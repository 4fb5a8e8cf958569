---------------------------- MODULE DeviceSecrets ----------------------------
(***************************************************************************)
(* Device envelope encryption (api/device_api.py): users register edge      *)
(* devices with a public key, seal the credentials of miners for a device   *)
(* with the key they have fetched, and upload them; devices pull what is    *)
(* sealed for them, and their keys are rotated.                             *)
(*                                                                          *)
(* An upload and a rotation read rows in one step and commit in another.    *)
(* Sealed texts are numbers: no two seals of anything are alike, and what   *)
(* counts of one is the key that opens it.  Left out are the levels and     *)
(* bindings of miners, which may keep a device from pulling (Pull and       *)
(* PullOne may not happen), and the names of devices.                       *)
(***************************************************************************)
EXTENDS Integers, FiniteSets

CONSTANTS
    Devices,   \* rows of edge_devices
    Miners,
    Users,     \* browsers, each with at most one request at a time
    None,      \* no device, no miner
    MaxKeys,     \* bound on the key pairs that devices draw
    MaxVersion,  \* bound on the key_version of a device
    MaxTexts     \* bound on the credentials that users seal

ASSUME NoneAssumption  == None \notin Devices \cup Miners
ASSUME BoundAssumption == MaxKeys \in Nat /\ MaxVersion \in Nat /\ MaxTexts \in Nat

VARIABLES
    dev,      \* dev[d]: status, public key and key_version of the row of d
    secret,   \* secret[d][m]: the row of miner_secrets for d and m
    form,     \* form[u]: the device, key and version that u's browser has fetched
    req,      \* req[u]: the request of u that the server works on
    have,     \* have[d][m]: the row of m that device d pulled last
    wiped,    \* wiped[d][m]: a row of m was deleted after that pull
    drawn,    \* how many key pairs have been drawn
    sealed,   \* how many credentials have been sealed
    overlap   \* the server works on several requests at a time; chosen once

rows == <<dev, secret>>
vars == <<dev, secret, form, req, have, wiped, drawn, sealed, overlap>>

Keys  == 0 .. MaxKeys
Texts == 0 .. MaxTexts

\* id tells a row from another one of the same device and miner; key is the key
\* that opens the text, and version the column key_version.
DeviceRows == [status : {"none", "ACTIVE", "REVOKED"}, key : Keys, version : Nat]
SecretRows == [id : Texts, counter : Nat, version : Nat, key : Keys, text : Texts]
Forms      == [dev : Devices \cup {None}, key : Keys, version : Nat]
Requests   == [op : {"idle", "upload", "rotate"}, dev : Devices \cup {None},
               miner : Miners \cup {None}, key : Keys, was : Keys, version : Nat,
               text : Texts, snap : SecretRows]

Unregistered == [status |-> "none", key |-> 0, version |-> 0]
NoSecret     == [id |-> 0, counter |-> 0, version |-> 0, key |-> 0, text |-> 0]
NoForm       == [dev |-> None, key |-> 0, version |-> 0]
Idle         == [op |-> "idle", dev |-> None, miner |-> None, key |-> 0, was |-> 0,
                 version |-> 0, text |-> 0, snap |-> NoSecret]

Active(d) == dev[d].status = "ACTIVE"

CanStart(u) == req[u].op = "idle" /\ (overlap \/ \A w \in Users : req[w].op = "idle")

\* A device's request; the server works on it in one step.
CanServe == overlap \/ \A w \in Users : req[w].op = "idle"

Init ==
    /\ dev = [d \in Devices |-> Unregistered]
    /\ secret = [d \in Devices |-> [m \in Miners |-> NoSecret]]
    /\ form = [u \in Users |-> NoForm]
    /\ req = [u \in Users |-> Idle]
    /\ have = [d \in Devices |-> [m \in Miners |-> NoSecret]]
    /\ wiped = [d \in Devices |-> [m \in Miners |-> FALSE]]
    /\ drawn = 0
    /\ sealed = 0
    /\ overlap \in BOOLEAN

-----------------------------------------------------------------------------
(* Devices.                                                                 *)

Register(u, d) ==
    /\ CanStart(u)
    /\ dev[d].status = "none"
    /\ drawn < MaxKeys
    /\ drawn' = drawn + 1
    /\ dev' = [dev EXCEPT ![d] = [status |-> "ACTIVE", key |-> drawn + 1, version |-> 1]]
    /\ UNCHANGED <<secret, form, req, have, wiped, sealed, overlap>>

\* The device has drawn a new pair, or the user repeats a rotation whose answer
\* was lost.
RotateLoad(u, d) ==
    /\ CanStart(u)
    /\ Active(d)
    /\ dev[d].version < MaxVersion
    /\ \E k \in {drawn + 1, dev[d].key} :
           /\ k <= MaxKeys
           /\ drawn' = IF k > drawn THEN k ELSE drawn
           /\ req' = [req EXCEPT ![u] =
                  [op |-> "rotate", dev |-> d, miner |-> None, key |-> k, was |-> dev[d].key,
                   version |-> dev[d].version, text |-> 0, snap |-> NoSecret]]
    /\ UNCHANGED <<rows, form, have, wiped, sealed, overlap>>

\* Fault: the key is replaced and its version stays.
RotateCommitSilent(u) ==
    LET r == req[u]
    IN  /\ r.op = "rotate"
        /\ dev' = [dev EXCEPT ![r.dev].key = r.key]
        /\ req' = [req EXCEPT ![u] = Idle]
        /\ UNCHANGED <<secret, form, have, wiped, drawn, sealed, overlap>>

\* The version follows the one that was read, and a key is written if it is another
\* one than was read; the secrets stay as they are.
RotateCommit(u) ==
    LET r == req[u]
    IN  /\ r.op = "rotate"
        /\ dev' = [dev EXCEPT ![r.dev].key = IF r.key = r.was THEN @ ELSE r.key,
                              ![r.dev].version = r.version + 1]
        /\ req' = [req EXCEPT ![u] = Idle]
        /\ UNCHANGED <<secret, form, have, wiped, drawn, sealed, overlap>>

Revoke(u, d) ==
    /\ CanStart(u)
    /\ dev[d].status # "none"
    /\ dev' = [dev EXCEPT ![d].status = "REVOKED"]
    /\ UNCHANGED <<secret, form, req, have, wiped, drawn, sealed, overlap>>

-----------------------------------------------------------------------------
(* Secrets.                                                                 *)

\* get_device_pubkey; the form may stay open for long.
GetPubkey(u, d) ==
    /\ CanStart(u)
    /\ Active(d)
    /\ form' = [form EXCEPT ![u] = [dev |-> d, key |-> dev[d].key, version |-> dev[d].version]]
    /\ UNCHANGED <<rows, req, have, wiped, drawn, sealed, overlap>>

\* Fault: the version of the key is not compared.
MayUploadAny(u) == Active(form[u].dev)

MayUpload(u) == Active(form[u].dev) /\ form[u].version = dev[form[u].dev].version

UploadLoad(u, m) ==
    /\ CanStart(u)
    /\ form[u] # NoForm
    /\ MayUpload(u)
    /\ sealed < MaxTexts
    /\ sealed' = sealed + 1
    /\ req' = [req EXCEPT ![u] =
           [op |-> "upload", dev |-> form[u].dev, miner |-> m, key |-> form[u].key, was |-> 0,
            version |-> form[u].version, text |-> sealed + 1, snap |-> secret[form[u].dev][m]]]
    /\ UNCHANGED <<rows, form, have, wiped, drawn, overlap>>

\* Fault: the counter of an update is not counted up.
StoredSame(r, cur) ==
    IF r.snap = NoSecret
    THEN [id |-> r.text, counter |-> 1, version |-> r.version, key |-> r.key, text |-> r.text]
    ELSE [cur EXCEPT !.key = r.key, !.text = r.text, !.version = r.version]

\* What the commit makes of the row cur: an INSERT, or an UPDATE of the columns
\* that differ from what was loaded.
Stored(r, cur) ==
    IF r.snap = NoSecret
    THEN [id |-> r.text, counter |-> 1, version |-> r.version, key |-> r.key, text |-> r.text]
    ELSE [cur EXCEPT !.counter = r.snap.counter + 1, !.key = r.key, !.text = r.text,
                     !.version = IF r.version = r.snap.version THEN @ ELSE r.version]

\* The commit fails if the row that was loaded is gone, or if there is one by now
\* (uq_miner_device).
UploadCommit(u) ==
    LET r   == req[u]
        cur == secret[r.dev][r.miner]
    IN  /\ r.op = "upload"
        /\ secret' = IF cur.id = r.snap.id
                     THEN [secret EXCEPT ![r.dev][r.miner] = Stored(r, cur)]
                     ELSE secret
        /\ req' = [req EXCEPT ![u] = Idle]
        /\ UNCHANGED <<dev, form, have, wiped, drawn, sealed, overlap>>

DeleteSecret(u, d, m) ==
    /\ CanStart(u)
    /\ secret[d][m] # NoSecret
    /\ secret' = [secret EXCEPT ![d][m] = NoSecret]
    /\ wiped' = [wiped EXCEPT ![d][m] = TRUE]
    /\ UNCHANGED <<dev, form, req, have, drawn, sealed, overlap>>

-----------------------------------------------------------------------------
(* Pulls.                                                                   *)

\* Fault: what was not received is forgotten.
ReceivesOnly(d, S) ==
    /\ have' = [have EXCEPT ![d] = [m \in S |-> secret[d][m]]]
    /\ wiped' = [wiped EXCEPT ![d] = [m \in Miners |-> @[m] /\ m \notin S]]
    /\ UNCHANGED <<rows, form, req, drawn, sealed, overlap>>

\* The device d receives the rows of the miners in S.
Receives(d, S) ==
    /\ have' = [have EXCEPT ![d] = [m \in Miners |-> IF m \in S THEN secret[d][m] ELSE @[m]]]
    /\ wiped' = [wiped EXCEPT ![d] = [m \in Miners |-> @[m] /\ m \notin S]]
    /\ UNCHANGED <<rows, form, req, drawn, sealed, overlap>>

StoredFor(d) == {m \in Miners : secret[d][m] # NoSecret}

\* get_edge_secrets, for all secrets or with since_counter = n.
Pull(d, n) == CanServe /\ Active(d) /\ Receives(d, {m \in StoredFor(d) : secret[d][m].counter > n})

\* get_edge_secret_for_miner
PullOne(d, m) == CanServe /\ Active(d) /\ m \in StoredFor(d) /\ Receives(d, {m})

\* The worker dies before the commit.
RequestDies(u) ==
    /\ req[u].op # "idle"
    /\ req' = [req EXCEPT ![u] = Idle]
    /\ UNCHANGED <<rows, form, have, wiped, drawn, sealed, overlap>>

-----------------------------------------------------------------------------
Next ==
    \/ \E u \in Users :
           \/ \E d \in Devices : Register(u, d) \/ RotateLoad(u, d) \/ Revoke(u, d) \/ GetPubkey(u, d)
           \/ \E m \in Miners : UploadLoad(u, m)
           \/ \E d \in Devices, m \in Miners : DeleteSecret(u, d, m)
           \/ RotateCommit(u) \/ UploadCommit(u) \/ RequestDies(u)
    \/ \E d \in Devices : \E n \in {0} \cup {have[d][m].counter : m \in Miners} : Pull(d, n)
    \/ \E d \in Devices, m \in Miners : PullOne(d, m)

Spec == Init /\ [][Next]_vars

-----------------------------------------------------------------------------
\* Requests and forms name what they are about.
Named ==
    \A u \in Users :
        /\ form[u] = NoForm \/ form[u].dev \in Devices
        /\ req[u].op # "idle" => req[u].dev \in Devices
        /\ req[u].op = "upload" => req[u].miner \in Miners /\ req[u].text > 0

\* The absent row is the only one without an id.
Identified ==
    /\ \A d \in Devices, m \in Miners : secret[d][m].id = 0 => secret[d][m] = NoSecret
    /\ \A u \in Users : req[u].snap.id = 0 => req[u].snap = NoSecret

OneRequest == \A u, w \in Users : req[u].op # "idle" /\ req[w].op # "idle" => u = w

\* A request in flight knows the rows as they are.
Informed ==
    \A u \in Users :
        LET r == req[u]
            e == dev[r.dev]
        IN  /\ r.op = "upload" => r.snap = secret[r.dev][r.miner] /\ r.key = e.key /\ r.version = e.version
            /\ r.op = "rotate" => r.was = e.key /\ r.version = e.version /\ e.status # "none"

\* A version that was fetched or stored for d is no later than d's, and the same
\* version means the same key.
TrueTo(d, version, key) ==
    version <= dev[d].version /\ (version = dev[d].version => key = dev[d].key)

FormsTrue == \A u \in Users : form[u] # NoForm => TrueTo(form[u].dev, form[u].version, form[u].key)

SecretsTrue ==
    \A d \in Devices, m \in Miners :
        secret[d][m] # NoSecret => TrueTo(d, secret[d][m].version, secret[d][m].key)

FreshDevices == \A d \in Devices : dev[d].status = "none" => dev[d] = Unregistered

-----------------------------------------------------------------------------
\* Every variable keeps its type.
TypeOK ==
    /\ dev \in [Devices -> DeviceRows]
    /\ secret \in [Devices -> [Miners -> SecretRows]]
    /\ form \in [Users -> Forms]
    /\ req \in [Users -> Requests]
    /\ have \in [Devices -> [Miners -> SecretRows]]
    /\ wiped \in [Devices -> [Miners -> BOOLEAN]]
    /\ drawn \in Keys
    /\ sealed \in Texts
    /\ overlap \in BOOLEAN

\* When the server works on one request at a time, a secret whose key_version is
\* the device's is sealed for the key the device is registered with: however old
\* the form that sealed it is, and whatever was rotated meanwhile.
CurrentOpens ==
    ~overlap => \A d \in Devices, m \in Miners :
        secret[d][m] # NoSecret /\ secret[d][m].version = dev[d].version
            => secret[d][m].key = dev[d].key

\* Likewise what an upload stores is sealed for the key that the device is registered
\* with at that moment.
UploadsOpen ==
    [][~overlap => \A d \in Devices, m \in Miners :
           secret'[d][m].text > secret[d][m].text
               => secret'[d][m].key = dev[d].key /\ secret'[d][m].version = dev[d].version]_vars

\* Likewise a pull of what has a greater counter than the row that a device holds
\* misses no change of this row, unless the row was deleted meanwhile.
CounterTells ==
    ~overlap => \A d \in Devices, m \in Miners :
        \/ wiped[d][m]
        \/ have[d][m] = secret[d][m]
        \/ have[d][m].counter < secret[d][m].counter

\* The inductive invariant: while requests do not overlap, everything that is known
\* of a device is true to it.
SecretsInv ==
    /\ TypeOK /\ Named /\ Identified
    /\ ~overlap => OneRequest /\ Informed /\ FormsTrue /\ SecretsTrue /\ FreshDevices
    /\ CounterTells

\* In any case a row goes back, or keeps its counter with another text, only by an
\* upload that has loaded the row before another upload was committed.
GoesBackByRaceOnly ==
    [][\A d \in Devices, m \in Miners :
           LET old == secret[d][m]
               new == secret'[d][m]
           IN  old # NoSecret /\ new # NoSecret /\ new.text # old.text =>
                   \/ new.counter > old.counter
                   \/ \E u \in Users : /\ req[u].op = "upload" /\ req[u].text = new.text
                                       /\ req[u].snap # old]_vars

==============================================================================
