------------------------ MODULE ConnectionLifecycle ------------------------
(***************************************************************************)
(* A seller's WhatsApp connections: rows of whatsapp_connections that      *)
(* embedded signup or the manual setup create, that a finalization brings  *)
(* to ACTIVE, alone or in the place of the ACTIVE one, and that the seller *)
(* disconnects.  Requests run side by side, in processes that may die at   *)
(* any await.  An action is one statement, one transaction's reads, one    *)
(* transaction's writes and commit (READ COMMITTED, no row is locked by a  *)
(* read), or one call of the Meta Graph API.                               *)
(***************************************************************************)
EXTENDS Naturals, FiniteSets

CONSTANTS Conns,     \* connection ids
          Sellers,
          Phones,    \* phone_number_id, each with a WABA of its own
          Pins,      \* registration PINs; two draws may agree
          Creds,     \* system user tokens of the customer's one Meta app
          Reach,     \* the phones that each of those tokens may manage
          Requests,  \* HTTP requests that may be in progress at once
          Scenarios, \* bounds: the operations, sellers and PINs of a behaviour,
                     \* how many connections, and whether requests overlap
          None

ASSUME ConnectionAssumption ==
    /\ None \notin Conns \cup Sellers \cup Phones \cup Pins \cup Creds \cup Requests
    /\ Reach \in [Creds -> SUBSET Phones]
    /\ \A k \in Scenarios : k.pins \subseteq Pins /\ k.sellers \subseteq Sellers

VARIABLES row,        \* whatsapp_connections
          registered, \* at Meta: the PIN of each phone and the connection that set it
          hooks,      \* at Meta: the webhook subscriptions of each phone's WABA
          req,        \* what each request is doing
          raced,      \* history: connections written by a request under which
                      \* another one had changed the row it works on
          asked       \* the operations this behaviour asks for

vars == <<row, registered, hooks, req, raced, asked>>

Current == {"PENDING", "VERIFYING", "ACTIVE", "REPLACEMENT_PENDING"}

NoRow == [status |-> "none", seller |-> None, manual |-> FALSE, phone |-> None,
          token |-> FALSE, cred |-> None, pin |-> None, registered |-> FALSE,
          subscribed |-> FALSE, replaces |-> None]

Idle == [op |-> "none", at |-> "none", seller |-> None, conn |-> None, phone |-> None,
         pin |-> None, active |-> None, fresh |-> TRUE]

Rows == [status : Current \cup {"none", "DISCONNECTED"}, seller : Sellers \cup {None},
         manual : BOOLEAN, phone : Phones \cup {None}, token : BOOLEAN,
         cred : Creds \cup {None}, pin : Pins \cup {None}, registered : BOOLEAN,
         subscribed : BOOLEAN, replaces : Conns \cup {None}]

Steps == {"none", "exchange", "persist", "pin", "storePin", "readPhone", "register",
          "markPhone", "readWaba", "subscribe", "markWaba", "load", "verify",
          "activate", "commit", "select", "saveAssets"}

Operations == {"none", "complete", "finalize", "select", "configure", "manual"}

TypeOK ==
    /\ row \in [Conns -> Rows]
    /\ \A c \in Conns : row[c].status = "PENDING" => row[c].phone = None /\ ~row[c].token
    /\ registered \in [Phones -> [pin : Pins \cup {None}, by : Conns \cup {None}]]
    /\ hooks \subseteq Phones \X (Conns \cup {None})
    /\ req \in [Requests -> [op : Operations, at : Steps, seller : Sellers \cup {None},
                             conn : Conns \cup {None}, phone : Phones \cup {None},
                             pin : Pins \cup {None}, active : Conns \cup {None},
                             fresh : BOOLEAN]]
    /\ raced \subseteq Conns
    /\ asked \in Scenarios

Init ==
    /\ row = [c \in Conns |-> NoRow]
    /\ registered = [p \in Phones |-> [pin |-> None, by |-> None]]
    /\ hooks = {}
    /\ req = [r \in Requests |-> Idle]
    /\ raced = {}
    /\ asked \in Scenarios

-----------------------------------------------------------------------------
(* The repository's queries and its unique indexes *)

ActiveOf(s) == {c \in Conns : row[c].seller = s /\ row[c].status = "ACTIVE"}

\* resolveByPhoneNumberId, findByPhoneNumberIdForSeller
HoldersOf(p) == {c \in Conns : row[c].phone = p /\ row[c].status \in Current}

\* findActiveBySeller answers a, None when there is no such row
Finds(s, a) == IF ActiveOf(s) = {} THEN a = None ELSE a \in ActiveOf(s)

\* Faulty: the index on the phone number looks at the seller's own rows
PhoneFreeOfSeller(c, p) == \A d \in HoldersOf(p) \ {c} : row[d].seller # row[c].seller

PhoneFree(c, p) == HoldersOf(p) \subseteq {c}

\* every UPDATE of row c sets its updated_at
Touched(c, r) == [q \in Requests |-> [req[q] EXCEPT !.fresh = @ /\ (q = r \/ req[q].conn # c)]]

\* A bound: in a scenario that says so, no two requests overlap
Begin(r, new) ==
    /\ IF asked.overlap THEN req[r] = Idle ELSE \A q \in Requests : req[q] = Idle
    /\ req' = [req EXCEPT ![r] = new]

Go(r, at) == req' = [req EXCEPT ![r].at = at]
KeepMeta == UNCHANGED <<registered, hooks>>

\* c is the id of the next INSERT
Inserts(c) == row[c] = NoRow /\ Cardinality({d \in Conns : row[d] # NoRow}) < asked.connections

\* An UPDATE of row c by request r, which goes on to step at, "none" when it is done
Update(r, c, new, at) ==
    /\ row' = [row EXCEPT ![c] = new]
    /\ req' = [Touched(c, r) EXCEPT ![r] = IF at = "none" THEN Idle ELSE [@ EXCEPT !.at = at]]
    /\ raced' = IF req[r].fresh THEN raced ELSE raced \cup {c}
    /\ UNCHANGED asked

\* A step that reads, or that waits for Meta
Reads(r) == UNCHANGED <<row, raced, asked>>

\* The request is refused, fails or its process dies: what it wrote stays.  An
\* answer of Meta that is lost is a call that took effect followed by this.
Fail(r) == req[r] # Idle /\ req' = [req EXCEPT ![r] = Idle] /\ Reads(r) /\ KeepMeta

-----------------------------------------------------------------------------
(* Embedded signup: complete *)

\* Faulty: a number whose connection is ACTIVE may sign up again
OwnNumber(s, p) == \A d \in HoldersOf(p) : row[d].seller = s

\* A number of another seller, or ACTIVE, is refused
Completable(s, p) == \A d \in HoldersOf(p) : row[d].seller = s /\ row[d].status # "ACTIVE"

\* The first look at the phone's row, before Meta exchanges the code.  A retry
\* gets the answer of the first call; nothing is changed.
Complete(r, s, p) ==
    /\ "complete" \in asked.operations /\ s \in asked.sellers
    /\ Completable(s, p)
    /\ \A d \in HoldersOf(p) : row[d].status # "PENDING" => ~row[d].token
    /\ Begin(r, [Idle EXCEPT !.op = "complete", !.at = "exchange", !.seller = s, !.phone = p])
    /\ Reads(r) /\ KeepMeta

\* persistCompletion's transaction reads
ReadForCompletion(r) ==
    /\ req[r].at = "exchange"
    /\ LET s == req[r].seller holders == HoldersOf(req[r].phone) IN
         /\ Completable(s, req[r].phone)
         /\ \E a \in Conns \cup {None}, c \in IF holders = {} THEN {None} ELSE holders :
              /\ Finds(s, a)
              /\ req' = [req EXCEPT ![r].at = "persist", ![r].active = a, ![r].conn = c]
    /\ Reads(r) /\ KeepMeta

Candidate(r, c) == [row[c] EXCEPT !.seller = req[r].seller, !.phone = req[r].phone, !.token = TRUE]

\* markReplacementPending
Replaceable(c, a) ==
    /\ row[c].status \in {"none", "PENDING", "VERIFYING", "REPLACEMENT_PENDING"}
    /\ row[a].status = "ACTIVE"

\* and writes: updateLifecycleStatus looks at no status, so a candidate that
\* was activated or disconnected meanwhile becomes VERIFYING all the same
PersistCompletion(r) ==
    /\ req[r].at = "persist"
    /\ \E c \in Conns :
         /\ IF req[r].conn = None THEN Inserts(c) ELSE c = req[r].conn
         /\ PhoneFree(c, req[r].phone)
         /\ IF req[r].active \notin {None, c}
              THEN /\ Replaceable(c, req[r].active)
                   /\ Update(r, c, [Candidate(r, c) EXCEPT !.status = "REPLACEMENT_PENDING",
                                                            !.replaces = req[r].active], "none")
              ELSE Update(r, c, [Candidate(r, c) EXCEPT !.status = "VERIFYING"], "none")
    /\ KeepMeta
-----------------------------------------------------------------------------
(* Finalization: embedded (op "finalize") and manual (op "manual") *)

\* loadActivatableConnection, the look at the ACTIVE one, decryptAccessToken
Activatable(c) ==
    /\ row[c].status \in {"VERIFYING", "REPLACEMENT_PENDING"} /\ row[c].phone # None
    /\ ActiveOf(row[c].seller) # {} => row[c].status = "REPLACEMENT_PENDING"
    /\ row[c].token

AfterRegistration(c) == IF row[c].subscribed THEN "load" ELSE "readWaba"

Finalize(r, c) ==
    /\ "finalize" \in asked.operations
    /\ Activatable(c)
    /\ Begin(r, [Idle EXCEPT !.op = "finalize", !.conn = c, !.phone = row[c].phone,
                     !.at = IF row[c].registered THEN AfterRegistration(c) ELSE "pin"])
    /\ Reads(r) /\ KeepMeta

\* assertManualFinalizable, the stored credentials, and Meta's answers about
\* the token, the WABA and the phone
FinalizeManual(r, c) ==
    /\ "manual" \in asked.operations
    /\ row[c].manual /\ row[c].status = "VERIFYING"
    /\ row[c].phone \in Reach[row[c].cred] /\ row[c].subscribed
    /\ Begin(r, [Idle EXCEPT !.op = "manual", !.conn = c, !.phone = row[c].phone, !.at = "readPhone"])
    /\ Reads(r) /\ KeepMeta

\* The embedded flow makes sure of its PIN before it asks Meta, the manual one after
PinKnown(r, p) == req' = [req EXCEPT ![r].pin = p,
                             ![r].at = IF req[r].op = "finalize" THEN "readPhone" ELSE "register"]

ReadPin(r) ==
    /\ req[r].at = "pin"
    /\ LET stored == row[req[r].conn].pin IN
         IF stored # None THEN PinKnown(r, stored)
         ELSE \E p \in asked.pins : req' = [req EXCEPT ![r].pin = p, ![r].at = "storePin"]
    /\ Reads(r) /\ KeepMeta

\* Faulty: the PIN is used before it is stored
PinForgotten(c, p) == row[c]

WithPin(c, p) == [row[c] EXCEPT !.pin = p]

StorePin(r) ==
    /\ req[r].at = "storePin"
    /\ Update(r, req[r].conn, WithPin(req[r].conn, req[r].pin),
              IF req[r].op = "finalize" THEN "readPhone" ELSE "register")
    /\ KeepMeta

ReadPhone(r) ==
    /\ req[r].at = "readPhone"
    /\ Go(r, IF registered[req[r].phone].by # None THEN "markPhone"
             ELSE IF req[r].op = "finalize" THEN "register" ELSE "pin")
    /\ Reads(r) /\ KeepMeta

\* Meta refuses another PIN for a phone that has one; the manual flow then
\* sets the PIN anew (error 133005) and registers
RegisterPhone(r) ==
    /\ req[r].at = "register"
    /\ LET was == registered[req[r].phone] IN
         /\ req[r].op = "finalize" => was.pin \in {None, req[r].pin}
         /\ registered' = [registered EXCEPT ![req[r].phone] =
                             IF was.pin = req[r].pin THEN was
                             ELSE [pin |-> req[r].pin, by |-> req[r].conn]]
    /\ Go(r, "markPhone")
    /\ Reads(r) /\ UNCHANGED hooks

\* persistFinalizationProgress looks at no status either
MarkPhone(r) ==
    /\ req[r].at = "markPhone"
    /\ LET c == req[r].conn IN
         Update(r, c, [row[c] EXCEPT !.registered = TRUE],
                IF req[r].op = "finalize" THEN AfterRegistration(c) ELSE "verify")
    /\ KeepMeta

\* A manual connection's webhook URL holds its public id
Hook(r) == <<req[r].phone, IF req[r].op = "finalize" THEN None ELSE req[r].conn>>

ReadWaba(r) ==
    /\ req[r].at = "readWaba"
    /\ Go(r, IF Hook(r) \in hooks THEN "markWaba" ELSE "subscribe")
    /\ Reads(r) /\ KeepMeta

SubscribeWaba(r) ==
    /\ req[r].at = "subscribe"
    /\ hooks' = hooks \cup {Hook(r)}
    /\ Go(r, "markWaba")
    /\ Reads(r) /\ UNCHANGED registered

MarkWaba(r) ==
    /\ req[r].at = "markWaba"
    /\ Update(r, req[r].conn, [row[req[r].conn] EXCEPT !.subscribed = TRUE],
              IF req[r].op = "finalize" THEN "load" ELSE "none")
    /\ KeepMeta

\* activateReadyConnection loads the connection again; the markers must be set
LoadReady(r) ==
    /\ req[r].at = "load"
    /\ LET c == req[r].conn IN
         /\ Activatable(c) /\ row[c].registered /\ row[c].subscribed
         /\ req' = [req EXCEPT ![r].at = "verify", ![r].phone = row[c].phone, ![r].fresh = TRUE]
    /\ Reads(r) /\ KeepMeta

\* Faulty: the markers in the row are taken for Meta's word
VerifyMarkers(r) == req[r].at = "verify" /\ Go(r, "activate") /\ Reads(r) /\ KeepMeta

\* verifyReadiness
VerifyReadiness(r) ==
    /\ req[r].at = "verify"
    /\ registered[req[r].phone].by # None /\ Hook(r) \in hooks
    /\ Go(r, "activate")
    /\ Reads(r) /\ KeepMeta

\* activateAtomically's reads
ReadForActivation(r) ==
    /\ req[r].at = "activate"
    /\ LET c == req[r].conn IN
         /\ row[c].status \in IF req[r].op = "finalize" THEN {"VERIFYING", "REPLACEMENT_PENDING"}
                              ELSE {"VERIFYING"}
         /\ \E a \in Conns \cup {None} :
              /\ Finds(row[c].seller, a)
              /\ req[r].op = "finalize" /\ a # None => row[c].status = "REPLACEMENT_PENDING"
              /\ req[r].op = "manual" =>
                    \A d \in HoldersOf(row[c].phone) : row[d].seller = row[c].seller
              /\ req' = [req EXCEPT ![r].at = "commit", ![r].active = a]
    /\ Reads(r) /\ KeepMeta
\* the manual flow marks the replacement in the transaction that carries it out
MayReplace(r, c, a) ==
    IF req[r].op = "finalize"
      THEN row[c].status = "REPLACEMENT_PENDING" /\ row[c].replaces = a
      ELSE row[c].status \in {"PENDING", "VERIFYING", "REPLACEMENT_PENDING"}

Switched(c, a) == [row EXCEPT ![c].status = "ACTIVE", ![c].replaces = a,
                              ![a].status = "DISCONNECTED"]

\* replaceActiveConnection: when one of its two rows does not match, the
\* transaction is rolled back, which is Fail
Switch(r) ==
    /\ req[r].at = "commit" /\ req[r].active \notin {None, req[r].conn}
    /\ LET c == req[r].conn a == req[r].active IN
         /\ MayReplace(r, c, a) /\ row[a].status = "ACTIVE"
         /\ row' = Switched(c, a)
         /\ req' = [q \in Requests |-> IF q = r THEN Idle
                      ELSE [req[q] EXCEPT !.fresh = @ /\ req[q].conn \notin {a, c}]]
         /\ raced' = IF req[r].fresh THEN raced ELSE raced \cup {c}
    /\ KeepMeta /\ UNCHANGED asked

\* activateConnection, under the index of one ACTIVE row per seller
Activate(r) ==
    /\ req[r].at = "commit" /\ req[r].active \in {None, req[r].conn}
    /\ LET c == req[r].conn IN
         /\ row[c].status = "VERIFYING" /\ ActiveOf(row[c].seller) = {}
         /\ Update(r, c, [row[c] EXCEPT !.status = "ACTIVE"], "none")
    /\ KeepMeta

\* disconnect: its reads decide nothing that its guarded UPDATE does not
Disconnect(c) ==
    /\ "disconnect" \in asked.operations
    /\ row[c].status = "ACTIVE"
    /\ row' = [row EXCEPT ![c].status = "DISCONNECTED"]
    /\ req' = Touched(c, None)
    /\ KeepMeta /\ UNCHANGED <<raced, asked>>

-----------------------------------------------------------------------------
(* Manual setup with the customer's own Meta app *)

Drafts(s) == {c \in Conns : row[c].manual /\ row[c].seller = s /\ row[c].status = "PENDING"}

\* Faulty: new credentials leave the chosen phone and its markers
KeptAssets(c, k) == [row[c] EXCEPT !.status = "PENDING", !.cred = k]

\* replaceManualCredentialsAndResetState, which leaves replaced_connection_id
ResetRow(c, k) == [row[c] EXCEPT !.status = "PENDING", !.cred = k, !.token = FALSE,
                                 !.phone = None, !.pin = None,
                                 !.registered = FALSE, !.subscribed = FALSE]

Reset(c, k) ==
    /\ row' = [row EXCEPT ![c] = ResetRow(c, k)]
    /\ req' = Touched(c, None)
    /\ KeepMeta /\ UNCHANGED <<raced, asked>>

\* setup, after Meta has inspected the token: the app's draft is used again
Setup(s, k) ==
    /\ "setup" \in asked.operations /\ s \in asked.sellers
    /\ IF Drafts(s) # {} THEN \E c \in Drafts(s) : Reset(c, k)
       ELSE \E c \in Conns :
              /\ Inserts(c)
              /\ row' = [row EXCEPT ![c] = [NoRow EXCEPT !.status = "PENDING", !.seller = s,
                                                         !.manual = TRUE, !.cred = k]]
              /\ KeepMeta /\ UNCHANGED <<req, raced, asked>>

\* replaceCredentials: one PENDING draft per seller and app
ReplaceCredentials(c, k) ==
    /\ "replace" \in asked.operations
    /\ row[c].manual /\ row[c].status \in {"PENDING", "VERIFYING", "REPLACEMENT_PENDING"}
    /\ Drafts(row[c].seller) \subseteq {c}
    /\ Reset(c, k)

\* validateSelection: Meta shows the phone to the stored token
SelectAssets(r, c, p) ==
    /\ "select" \in asked.operations
    /\ row[c].manual /\ row[c].status \in {"PENDING", "VERIFYING"}
    /\ \A d \in HoldersOf(p) : row[d].seller = row[c].seller
    /\ p \in Reach[row[c].cred]
    /\ Begin(r, [Idle EXCEPT !.op = "select", !.at = "select", !.conn = c, !.phone = p])
    /\ Reads(r) /\ KeepMeta

\* the transaction reads updated_at again
RereadDraft(r) ==
    /\ req[r].at = "select"
    /\ row[req[r].conn].status \in {"PENDING", "VERIFYING"} /\ req[r].fresh
    /\ Go(r, "saveAssets")
    /\ Reads(r) /\ KeepMeta

\* and writes without looking at it; the markers stay
SaveAssets(r) ==
    /\ req[r].at = "saveAssets"
    /\ PhoneFree(req[r].conn, req[r].phone)
    /\ Update(r, req[r].conn, [row[req[r].conn] EXCEPT !.phone = req[r].phone,
                                                      !.status = "VERIFYING"], "none")
    /\ KeepMeta

\* configure
ConfigureWebhook(r, c) ==
    /\ "configure" \in asked.operations
    /\ row[c].manual /\ row[c].status = "VERIFYING"
    /\ row[c].phone \in Reach[row[c].cred]
    /\ Begin(r, [Idle EXCEPT !.op = "configure", !.at = "readWaba", !.conn = c, !.phone = row[c].phone])
    /\ Reads(r) /\ KeepMeta
-----------------------------------------------------------------------------
Next ==
    \/ \E r \in Requests, s \in Sellers, p \in Phones : Complete(r, s, p)
    \/ \E r \in Requests :
          \/ Fail(r) \/ ReadForCompletion(r) \/ PersistCompletion(r)
          \/ ReadPin(r) \/ StorePin(r) \/ ReadPhone(r) \/ RegisterPhone(r) \/ MarkPhone(r)
          \/ ReadWaba(r) \/ SubscribeWaba(r) \/ MarkWaba(r)
          \/ LoadReady(r) \/ VerifyReadiness(r) \/ ReadForActivation(r)
          \/ Switch(r) \/ Activate(r)
          \/ RereadDraft(r) \/ SaveAssets(r)
    \/ \E r \in Requests, c \in Conns :
          Finalize(r, c) \/ FinalizeManual(r, c) \/ ConfigureWebhook(r, c)
    \/ \E r \in Requests, c \in Conns, p \in Phones : SelectAssets(r, c, p)
    \/ \E c \in Conns : Disconnect(c)
    \/ \E s \in Sellers, k \in Creds : Setup(s, k)
    \/ \E c \in Conns, k \in Creds : ReplaceCredentials(c, k)

Spec == Init /\ [][Next]_vars

-----------------------------------------------------------------------------
\* A seller has one ACTIVE connection at most, and a phone number is held by
\* one current connection of one seller, whatever signups, setups, switches
\* and activations overlap: replies go out, and messages are routed, by these.
OneConnectionEach ==
    /\ \A s \in Sellers : Cardinality(ActiveOf(s)) <= 1
    /\ \A p \in Phones : Cardinality(HoldersOf(p)) <= 1

\* A connection is ACTIVE only with its phone registered and its WABA subscribed
\* at Meta, however its finalization was interrupted, resumed or doubled; of a
\* manual one only when no other request wrote the row under the finalization.
ActiveIsReady ==
    \A c \in Conns :
       row[c].status = "ACTIVE" /\ (row[c].manual => c \notin raced) =>
          /\ registered[row[c].phone].by # None
          /\ {<<row[c].phone, None>>, <<row[c].phone, c>>} \cap hooks # {}

\* A finalization that is resumed after a crash never loses the PIN it gave a
\* phone: the stored PIN is the registered one, if no other request changed
\* the row between its steps.
PinKept ==
    \A c \in Conns :
       LET r == registered[row[c].phone] IN
       row[c].phone # None /\ r.by = c /\ ~row[c].manual /\ c \notin raced => row[c].pin = r.pin

\* Row c leaves ACTIVE by its end, its replacement, or a request with an old view
Leaves(c) ==
    row[c].status = "ACTIVE" /\ row'[c].status # "ACTIVE" =>
       \/ Disconnect(c)
       \/ \E d \in Conns : /\ row[d].status # "ACTIVE" /\ row'[d].status = "ACTIVE"
                            /\ row'[d].replaces = c /\ row'[c].status = "DISCONNECTED"
       \/ c \in raced'

LeftOnlyBy == \A c \in Conns : Leaves(c)

\* An ACTIVE connection stays so until the seller disconnects it, or the
\* connection that was to replace it becomes ACTIVE in the same step; apart
\* from these only a request that had read the row in an earlier state moves it.
ActiveLeftOnlyBy == [][LeftOnlyBy]_vars

\* A phone that the assets of a manual connection name is one that its stored
\* token may manage.
AssetsOfCredentials ==
    \A c \in Conns : row[c].manual /\ row[c].phone # None => row[c].phone \in Reach[row[c].cred]
=============================================================================
