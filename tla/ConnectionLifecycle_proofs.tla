--------------------- MODULE ConnectionLifecycle_proofs ---------------------
(***************************************************************************)
(* WhatsApp connections of any number of sellers, phones and overlapping   *)
(* requests: one ACTIVE connection each, ready at Meta, with the PIN that  *)
(* was registered, until the seller or a replacement ends it.              *)
(***************************************************************************)
EXTENDS ConnectionLifecycle, FiniteSetTheorems, TLAPS

ReqRecords == [op : Operations, at : Steps, seller : Sellers \cup {None},
               conn : Conns \cup {None}, phone : Phones \cup {None},
               pin : Pins \cup {None}, active : Conns \cup {None}, fresh : BOOLEAN]

Exists(c) == row[c].status # "none"

\* What the unique indexes and the transactions keep
UniqueInv ==
    /\ \A c, d \in Conns : row[c].status = "ACTIVE" /\ row[d].status = "ACTIVE"
                              /\ row[c].seller = row[d].seller => c = d
    /\ \A c, d \in Conns : row[c].status \in Current /\ row[d].status \in Current
                              /\ row[c].phone # None /\ row[c].phone = row[d].phone => c = d

RowInv ==
    /\ \A c \in Conns : row[c].manual => row[c].cred \in Creds
    /\ \A p \in Phones : registered[p].by # None =>
          registered[p].pin \in Pins /\ Exists(registered[p].by)

\* Which steps belong to which operation
StepInv(n) ==
    /\ n.at \in {"exchange", "persist"} => n.op = "complete"
    /\ n.at \in {"select", "saveAssets"} => n.op = "select"
    /\ n.at \in {"pin", "storePin", "readPhone", "register", "markPhone",
                 "verify", "activate", "commit"} => n.op \in {"finalize", "manual"}
    /\ n.at = "load" => n.op = "finalize"
    /\ n.at \in {"readWaba", "subscribe", "markWaba"} => n.op \in {"finalize", "configure"}
    /\ n.op \in {"finalize", "manual", "configure", "select"} => n.conn # None
    /\ n.op # "none" => n.phone \in Phones
    /\ n.op = "complete" => n.seller \in Sellers

\* What a request knows of its connection: all of an embedded one's phone, and
\* as long as no other request has written the row, what it has read
KnownInv(n) == n.conn # None =>
    /\ Exists(n.conn)
    /\ n.op # "select" /\ (~row[n.conn].manual \/ n.fresh) => row[n.conn].phone = n.phone
    /\ n.op \in {"manual", "configure", "select"} => row[n.conn].manual
    /\ n.op = "complete" => row[n.conn].seller = n.seller
    /\ n.at = "commit" /\ n.active # None =>
          Exists(n.active) /\ row[n.active].seller = row[n.conn].seller
    /\ n.at \in {"persist", "saveAssets"} /\ n.fresh => row[n.conn].status # "ACTIVE"

HookOf(n) == <<n.phone, IF n.op = "finalize" THEN None ELSE n.conn>>

\* What it knows of Meta, and of the PIN
MetaInv(n) ==
    /\ n.at \in {"activate", "commit"} => registered[n.phone].by # None /\ HookOf(n) \in hooks
    /\ n.at \in {"storePin", "register"} \/ (n.at = "readPhone" /\ n.op = "finalize") =>
          n.pin \in Pins
    /\ n.at = "storePin" /\ n.fresh => row[n.conn].pin = None
    /\ n.at \in {"readPhone", "register"} /\ n.op = "finalize"
          /\ ~row[n.conn].manual /\ n.conn \notin raced => row[n.conn].pin = n.pin

Sound(n) == StepInv(n) /\ KnownInv(n) /\ MetaInv(n)

IInv ==
    /\ TypeOK /\ UniqueInv /\ RowInv /\ ActiveIsReady /\ PinKept
    /\ \A r \in Requests : Sound(req[r])

-----------------------------------------------------------------------------
(* A step that only reads *)

LEMMA Types ==
    ASSUME IInv
    PROVE  /\ row \in [Conns -> Rows] /\ req \in [Requests -> ReqRecords]
           /\ registered \in [Phones -> [pin : Pins \cup {None}, by : Conns \cup {None}]]
           /\ hooks \subseteq Phones \X (Conns \cup {None})
           /\ raced \subseteq Conns /\ asked \in Scenarios
           /\ None \notin Conns /\ None \notin Sellers /\ None \notin Phones
           /\ None \notin Pins /\ None \notin Creds /\ None \notin Requests
           /\ asked.pins \subseteq Pins /\ asked.sellers \subseteq Sellers
           /\ Reach \in [Creds -> SUBSET Phones]
           /\ \A r \in Requests : Sound(req[r])
BY ConnectionAssumption DEF IInv, TypeOK, ReqRecords

LEMMA ReadKeeps ==
    ASSUME IInv, NEW r \in Requests, NEW n \in ReqRecords, Sound(n),
           req' = [req EXCEPT ![r] = n],
           UNCHANGED <<row, registered, hooks, raced, asked>>
    PROVE  IInv'
<1>1. req' \in [Requests -> ReqRecords]
  BY Types
<1>2. TypeOK'
  BY <1>1 DEF IInv, TypeOK, ReqRecords
<1>3. UniqueInv' /\ RowInv'
  BY DEF IInv, UniqueInv, RowInv, Exists
<1>4. ActiveIsReady'
  BY DEF IInv, ActiveIsReady
<1>5. PinKept'
  BY DEF IInv, PinKept
<1>6. ASSUME NEW q \in Requests PROVE Sound(req'[q])
  <2>1. CASE q = r
    BY <2>1, Types
  <2>2. CASE q # r
    BY <2>2, Types
  <2> QED
    BY <2>1, <2>2
<1>7. ASSUME NEW m, Sound(m) PROVE Sound(m)'
  <2>1. StepInv(m)'
    BY <1>7 DEF Sound, StepInv
  <2>2. KnownInv(m)'
    BY <1>7 DEF Sound, KnownInv, Exists
  <2>3. MetaInv(m)'
    BY <1>7 DEF Sound, MetaInv, HookOf
  <2> QED
    BY <2>1, <2>2, <2>3 DEF Sound
<1> QED
  BY <1>2, <1>3, <1>4, <1>5, <1>6, <1>7 DEF IInv

-----------------------------------------------------------------------------
(* A step that writes the rows W *)

\* What every UPDATE and INSERT of row c leaves as it was
Written(c) ==
    /\ Exists(c)'
    /\ row'[c].status = "PENDING" => row'[c].phone = None /\ ~row'[c].token
    /\ row'[c].manual => row'[c].cred \in Creds
    /\ Exists(c) => row'[c].manual = row[c].manual /\ row'[c].seller = row[c].seller
    /\ Exists(c) /\ ~row[c].manual => row'[c].phone = row[c].phone
    /\ Exists(c) /\ ~row[c].manual /\ c \notin raced' /\ row[c].pin # None =>
          row'[c].pin = row[c].pin
    /\ row'[c].status = "ACTIVE" /\ (row'[c].manual => c \notin raced') =>
          \/ row[c].status = "ACTIVE" /\ row'[c].phone = row[c].phone
          \/ /\ registered[row'[c].phone].by # None
             /\ {<<row'[c].phone, None>>, <<row'[c].phone, c>>} \cap hooks # {}

\* A request that looks on: what it has read of a written row is not fresh
LooksOn(q, W) ==
    /\ req'[q] \in ReqRecords
    /\ req'[q].op = req[q].op /\ req'[q].at = req[q].at /\ req'[q].seller = req[q].seller
    /\ req'[q].conn = req[q].conn /\ req'[q].phone = req[q].phone /\ req'[q].pin = req[q].pin
    /\ req'[q].active = req[q].active
    /\ req'[q].fresh => req[q].fresh /\ (req[q].conn \in W => ~Exists(req[q].conn))

LEMMA LookerKeeps ==
    ASSUME IInv, NEW W \in SUBSET Conns, NEW q \in Requests, LooksOn(q, W),
           row' \in [Conns -> Rows], \A c \in Conns \ W : row'[c] = row[c],
           \A c \in W : Written(c), raced \subseteq raced',
           UNCHANGED <<registered, hooks>>
    PROVE  Sound(req[q])'
<1>1. PICK n : n = req[q]
  OBVIOUS
<1>2. PICK m : m = req'[q]
  OBVIOUS
<1>3. /\ m.op = n.op /\ m.at = n.at /\ m.seller = n.seller /\ m.conn = n.conn
      /\ m.phone = n.phone /\ m.pin = n.pin /\ m.active = n.active
      /\ m.fresh => n.fresh /\ (n.conn \in W => ~Exists(n.conn))
      /\ n \in ReqRecords /\ m \in ReqRecords /\ Sound(n) /\ None \notin Conns
      /\ None \notin Pins
  BY <1>1, <1>2, Types DEF LooksOn
<1>4. StepInv(m)'
  BY <1>3 DEF Sound, StepInv
<1>5. /\ n.conn \in Conns \cup {None} /\ n.active \in Conns \cup {None}
      /\ n.pin \in Pins \cup {None}
  BY <1>3 DEF ReqRecords
<1>6. KnownInv(m)'
  <2>1. SUFFICES ASSUME m.conn # None PROVE KnownInv(m)'
    BY DEF KnownInv
  <2>2. n.conn \in Conns /\ Exists(n.conn)
    BY <1>3, <1>5, <2>1 DEF Sound, KnownInv
  <2>3. ASSUME NEW c \in Conns, Exists(c)
        PROVE  /\ Exists(c)' /\ row'[c].manual = row[c].manual /\ row'[c].seller = row[c].seller
               /\ ~row[c].manual => row'[c].phone = row[c].phone
    <3>1. CASE c \in W
      BY <2>3, <3>1 DEF Written
    <3>2. CASE c \notin W
      BY <2>3, <3>2 DEF Exists
    <3> QED
      BY <3>1, <3>2
  <2>4. m.fresh => row'[n.conn] = row[n.conn]
    BY <1>3, <2>2
  <2>5. m.active # None /\ m.at = "commit" => Exists(m.active)' /\ row'[m.active].seller = row'[m.conn].seller
    BY <1>3, <1>5, <2>2, <2>3 DEF Sound, KnownInv
  <2>6. m.op # "select" /\ (~row'[m.conn].manual \/ m.fresh) => row'[m.conn].phone = m.phone
    BY <1>3, <2>1, <2>2, <2>3, <2>4 DEF Sound, KnownInv
  <2>7. /\ m.op \in {"manual", "configure", "select"} => row'[m.conn].manual
        /\ m.op = "complete" => row'[m.conn].seller = m.seller
    BY <1>3, <2>1, <2>2, <2>3 DEF Sound, KnownInv
  <2>8. m.at \in {"persist", "saveAssets"} /\ m.fresh => row'[m.conn].status # "ACTIVE"
    BY <1>3, <2>1, <2>2, <2>4 DEF Sound, KnownInv
  <2> QED
    BY <1>3, <2>2, <2>3, <2>5, <2>6, <2>7, <2>8 DEF KnownInv
<1>7. MetaInv(m)'
  <2>1. m.at \in {"activate", "commit"} => registered'[m.phone].by # None /\ HookOf(m) \in hooks'
    BY <1>3 DEF Sound, MetaInv, HookOf
  <2>2. m.at \in {"storePin", "register"} \/ (m.at = "readPhone" /\ m.op = "finalize") =>
          m.pin \in Pins
    BY <1>3 DEF Sound, MetaInv
  <2>3. m.at \in {"storePin", "readPhone", "register"} => n.conn \in Conns /\ Exists(n.conn)
    BY <1>3, <1>5 DEF Sound, StepInv, KnownInv
  <2>4. m.at = "storePin" /\ m.fresh => row'[m.conn].pin = None
    BY <1>3, <2>3 DEF Sound, MetaInv
  <2>5. ASSUME m.at \in {"readPhone", "register"}, m.op = "finalize",
               ~row'[m.conn].manual, m.conn \notin raced'
        PROVE  row'[m.conn].pin = m.pin
    <3>1. n.conn \in Conns /\ Exists(n.conn) /\ n.conn \notin raced
      BY <1>3, <2>3, <2>5
    <3>2. CASE n.conn \in W
      <4>1. Written(n.conn)
        BY <3>2
      <4>2. ~row[n.conn].manual
        BY <1>3, <2>5, <3>1, <4>1 DEF Written
      <4>3. row[n.conn].pin = n.pin /\ n.pin \in Pins
        BY <1>3, <2>2, <2>5, <3>1, <4>2 DEF Sound, MetaInv
      <4> QED
        BY <1>3, <2>5, <3>1, <4>1, <4>2, <4>3 DEF Written
    <3>3. CASE n.conn \notin W
      BY <1>3, <2>5, <3>1, <3>3 DEF Sound, MetaInv
    <3> QED
      BY <3>2, <3>3
  <2> QED
    BY <2>1, <2>2, <2>4, <2>5 DEF MetaInv, HookOf
<1>8. Sound(m)'
  BY <1>4, <1>6, <1>7 DEF Sound
<1> QED
  BY <1>2, <1>8

LEMMA WriteKeeps ==
    ASSUME IInv, NEW W \in SUBSET Conns, NEW r \in Requests \cup {None},
           row' \in [Conns -> Rows], \A c \in Conns \ W : row'[c] = row[c],
           \A c \in W : Written(c),
           req' \in [Requests -> ReqRecords], \A q \in Requests \ {r} : LooksOn(q, W),
           r \in Requests => Sound(req[r])',
           raced \subseteq raced', raced' \subseteq Conns,
           UNCHANGED <<registered, hooks, asked>>, UniqueInv'
    PROVE  IInv'
<1>1. TypeOK'
  <2>1. ASSUME NEW c \in Conns, row'[c].status = "PENDING"
        PROVE  row'[c].phone = None /\ ~row'[c].token
    <3>1. CASE c \in W
      BY <2>1, <3>1 DEF Written
    <3>2. CASE c \notin W
      BY <2>1, <3>2 DEF IInv, TypeOK
    <3> QED
      BY <3>1, <3>2
  <2> QED
    BY <2>1 DEF IInv, TypeOK, ReqRecords
<1>2. RowInv'
  <2>1. ASSUME NEW c \in Conns, row'[c].manual PROVE row'[c].cred \in Creds
    <3>1. CASE c \in W
      BY <2>1, <3>1 DEF Written
    <3>2. CASE c \notin W
      BY <2>1, <3>2 DEF IInv, RowInv
    <3> QED
      BY <3>1, <3>2
  <2>2. ASSUME NEW p \in Phones, registered[p].by # None
        PROVE  registered[p].pin \in Pins /\ Exists(registered[p].by)'
    <3>1. registered[p].pin \in Pins /\ Exists(registered[p].by) /\ registered[p].by \in Conns
      BY <2>2, Types DEF IInv, RowInv
    <3>2. CASE registered[p].by \in W
      BY <3>1, <3>2 DEF Written
    <3>3. CASE registered[p].by \notin W
      BY <3>1, <3>3 DEF Exists
    <3> QED
      BY <3>1, <3>2, <3>3
  <2> QED
    BY <2>1, <2>2 DEF RowInv, Exists
<1>3. ActiveIsReady'
  <2>1. SUFFICES ASSUME NEW c \in Conns, row'[c].status = "ACTIVE", row'[c].manual => c \notin raced'
                 PROVE  /\ registered[row'[c].phone].by # None
                        /\ {<<row'[c].phone, None>>, <<row'[c].phone, c>>} \cap hooks # {}
    BY DEF ActiveIsReady
  <2>2. CASE c \in W
    <3>1. Written(c)
      BY <2>2
    <3>2. CASE row[c].status = "ACTIVE" /\ row'[c].phone = row[c].phone
      <4>1. row[c].manual => c \notin raced
        BY <2>1, <3>1, <3>2 DEF Written, Exists
      <4> QED
        BY <3>2, <4>1 DEF IInv, ActiveIsReady
    <3>3. CASE ~(row[c].status = "ACTIVE" /\ row'[c].phone = row[c].phone)
      BY <2>1, <3>1, <3>3 DEF Written
    <3> QED
      BY <3>2, <3>3
  <2>3. CASE c \notin W
    BY <2>1, <2>3 DEF IInv, ActiveIsReady
  <2> QED
    BY <2>2, <2>3
<1>4. PinKept'
  <2>1. SUFFICES ASSUME NEW c \in Conns, row'[c].phone # None, registered[row'[c].phone].by = c,
                        ~row'[c].manual, c \notin raced'
                 PROVE  row'[c].pin = registered[row'[c].phone].pin
    BY DEF PinKept
  <2>2. row'[c].phone \in Phones
    BY <2>1 DEF Rows
  <2>3. registered[row'[c].phone].pin \in Pins /\ Exists(c)
    BY <2>1, <2>2, Types DEF IInv, RowInv
  <2>4. CASE c \in W
    <3>1. Written(c)
      BY <2>4
    <3>2. ~row[c].manual /\ row'[c].phone = row[c].phone /\ c \notin raced
      BY <2>1, <2>3, <3>1 DEF Written
    <3>3. row[c].pin = registered[row'[c].phone].pin
      BY <2>1, <3>2 DEF IInv, PinKept
    <3> QED
      BY <2>1, <2>3, <3>1, <3>2, <3>3, Types DEF Written
  <2>5. CASE c \notin W
    BY <2>1, <2>5 DEF IInv, PinKept
  <2> QED
    BY <2>4, <2>5
<1>5. ASSUME NEW q \in Requests PROVE Sound(req[q])'
  <2>1. CASE q = r
    BY <2>1
  <2>2. CASE q # r
    BY <2>2, LookerKeeps
  <2> QED
    BY <2>1, <2>2
<1> QED
  BY <1>1, <1>2, <1>3, <1>4, <1>5 DEF IInv

-----------------------------------------------------------------------------
(* An UPDATE of one row *)

LEMMA UniqueKept ==
    ASSUME IInv, NEW c \in Conns, NEW new \in Rows, row' = [row EXCEPT ![c] = new],
           new.status = "ACTIVE" =>
              ActiveOf(new.seller) = {} \/ (row[c].status = "ACTIVE" /\ row[c].seller = new.seller),
           new.status \in Current /\ new.phone # None =>
              PhoneFree(c, new.phone) \/ (row[c].status \in Current /\ row[c].phone = new.phone)
    PROVE  UniqueInv'
<1>1. row'[c] = new /\ \A d \in Conns : d # c => row'[d] = row[d]
  BY Types
<1>2. ASSUME NEW d \in Conns, d # c, row'[c].status = "ACTIVE", row'[d].status = "ACTIVE",
             row'[c].seller = row'[d].seller
      PROVE  FALSE
  BY <1>1, <1>2 DEF ActiveOf, IInv, UniqueInv
<1>3. ASSUME NEW d \in Conns, d # c, row'[c].status \in Current, row'[d].status \in Current,
             row'[c].phone # None, row'[c].phone = row'[d].phone
      PROVE  FALSE
  BY <1>1, <1>3 DEF PhoneFree, HoldersOf, IInv, UniqueInv
<1>4. \A d, e \in Conns : row'[d].status = "ACTIVE" /\ row'[e].status = "ACTIVE"
                             /\ row'[d].seller = row'[e].seller => d = e
  BY <1>1, <1>2 DEF IInv, UniqueInv
<1>5. \A d, e \in Conns : row'[d].status \in Current /\ row'[e].status \in Current
                             /\ row'[d].phone # None /\ row'[d].phone = row'[e].phone => d = e
  BY <1>1, <1>3 DEF IInv, UniqueInv
<1> QED
  BY <1>4, <1>5 DEF UniqueInv

LEMMA IdleIsSound ==
    ASSUME IInv
    PROVE  Idle \in ReqRecords /\ StepInv(Idle) /\ KnownInv(Idle)' /\ MetaInv(Idle)'
BY DEF Idle, ReqRecords, Operations, Steps, StepInv, KnownInv, MetaInv

LEMMA TouchedLooksOn ==
    ASSUME IInv, NEW c \in Conns, NEW r, NEW q \in Requests \ {r},
           req'[q] = Touched(c, r)[q]
    PROVE  LooksOn(q, {c})
<1>1. PICK n : n = req[q]
  OBVIOUS
<1>2. PICK f : f = (n.fresh /\ (q = r \/ n.conn # c))
  OBVIOUS
<1>3. n \in ReqRecords
  BY <1>1, Types
<1>4. f \in BOOLEAN /\ (f => n.fresh /\ n.conn # c)
  BY <1>2
<1>5. req'[q] = [n EXCEPT !.fresh = f]
  BY <1>1, <1>2 DEF Touched
<1> QED
  BY <1>1, <1>3, <1>4, <1>5 DEF LooksOn, ReqRecords

\* Update keeps the invariant if the row written is, and the request goes on soundly
LEMMA UpdateKeeps ==
    ASSUME IInv, NEW r \in Requests, NEW c \in Conns, NEW new \in Rows, NEW at \in Steps,
           Update(r, c, new, at), UNCHANGED <<registered, hooks>>,
           Written(c), UniqueInv',
           at # "none" => \A n \in ReqRecords :
              n = [req[r] EXCEPT !.at = at] => Sound(n)'
    PROVE  IInv'
<1>1. row' \in [Conns -> Rows] /\ \A d \in Conns \ {c} : row'[d] = row[d]
  BY Types DEF Update
<1>2. ASSUME NEW q \in Requests \ {r} PROVE LooksOn(q, {c})
  <2>1. req'[q] = Touched(c, r)[q]
    BY DEF Update, Touched
  <2> QED
    BY <2>1, TouchedLooksOn
<1>3. raced \subseteq raced' /\ raced' \subseteq Conns /\ asked' = asked
  BY Types DEF Update
<1>4. PICK n : n = [req[r] EXCEPT !.at = at]
  OBVIOUS
<1>5. n \in ReqRecords
  BY <1>4, Types DEF ReqRecords
<1>6. Touched(c, r)[r] = req[r]
  <2>1. PICK m : m = req[r]
    OBVIOUS
  <2>2. PICK f : f = (m.fresh /\ (r = r \/ m.conn # c))
    OBVIOUS
  <2>3. m \in ReqRecords
    BY <2>1, Types
  <2>4. f = m.fresh
    BY <2>2, <2>3 DEF ReqRecords
  <2>5. Touched(c, r)[r] = [m EXCEPT !.fresh = f]
    BY <2>1, <2>2 DEF Touched
  <2>6. [m EXCEPT !.fresh = m.fresh] = m
    BY <2>3 DEF ReqRecords
  <2> QED
    BY <2>1, <2>4, <2>5, <2>6
<1>7. req'[r] = IF at = "none" THEN Idle ELSE n
  <2>1. Touched(c, r) = [q \in Requests |-> Touched(c, r)[q]]
    BY DEF Touched
  <2> QED
    BY <1>4, <1>6, <2>1 DEF Update
<1>8. req'[r] \in ReqRecords /\ Sound(req[r])'
  <2>1. CASE at = "none"
    <3>1. StepInv(Idle)'
      BY IdleIsSound DEF StepInv
    <3>2. Sound(Idle)'
      BY <3>1, IdleIsSound DEF Sound
    <3> QED
      BY <1>7, <2>1, <3>2, IdleIsSound
  <2>2. CASE at # "none"
    <3>1. Sound(n)'
      BY <1>4, <1>5, <2>2
    <3> QED
      BY <1>5, <1>7, <2>2, <3>1
  <2> QED
    BY <2>1, <2>2
<1>9. req' \in [Requests -> ReqRecords]
  <2>1. \A q \in Requests : req'[q] \in ReqRecords
    BY <1>2, <1>8 DEF LooksOn
  <2>2. req' = [q \in Requests |-> req'[q]]
    BY DEF Update, Touched
  <2> QED
    BY <2>1, <2>2
<1>10. \A d \in {c} : Written(d)
  OBVIOUS
<1> QED
  BY <1>1, <1>2, <1>3, <1>8, <1>9, <1>10, WriteKeeps

-----------------------------------------------------------------------------
(* Requests that begin, read and end *)

\* The fields of a record that one or two EXCEPTs leave
FieldsButAt(n, m) ==
    /\ n.op = m.op /\ n.seller = m.seller /\ n.conn = m.conn /\ n.phone = m.phone
    /\ n.pin = m.pin /\ n.active = m.active /\ n.fresh = m.fresh

LEMMA GoKeeps ==
    ASSUME IInv, NEW r \in Requests, NEW at \in Steps, Go(r, at), Reads(r), KeepMeta,
           \A n \in ReqRecords : n.at = at /\ FieldsButAt(n, req[r]) => Sound(n)
    PROVE  IInv'
<1>1. PICK m : m = req[r]
  OBVIOUS
<1>2. PICK n : n = [m EXCEPT !.at = at]
  OBVIOUS
<1>3. m \in ReqRecords
  BY <1>1, Types
<1>4. n \in ReqRecords /\ n.at = at /\ FieldsButAt(n, m)
  BY <1>2, <1>3 DEF ReqRecords, FieldsButAt
<1>5. req' = [req EXCEPT ![r] = n]
  BY <1>1, <1>2 DEF Go
<1> QED
  BY <1>1, <1>4, <1>5, ReadKeeps DEF Reads, KeepMeta

LEMMA BeginKeeps ==
    ASSUME IInv, NEW r \in Requests, NEW n \in ReqRecords, Begin(r, n), Reads(r), KeepMeta,
           Sound(n)
    PROVE  IInv'
BY ReadKeeps DEF Begin, Reads, KeepMeta

LEMMA FailKeeps ==
    ASSUME IInv, NEW r \in Requests, Fail(r)
    PROVE  IInv'
<1>1. Idle \in ReqRecords /\ Sound(Idle)
  BY Types DEF Idle, ReqRecords, Operations, Steps, Sound, StepInv, KnownInv, MetaInv
<1> QED
  BY <1>1, ReadKeeps DEF Fail, Reads, KeepMeta

LEMMA CompleteKeeps ==
    ASSUME IInv, NEW r \in Requests, NEW s \in Sellers, NEW p \in Phones, Complete(r, s, p)
    PROVE  IInv'
<1>1. PICK n : n = [Idle EXCEPT !.op = "complete", !.at = "exchange", !.seller = s, !.phone = p]
  OBVIOUS
<1>2. /\ n.op = "complete" /\ n.at = "exchange" /\ n.seller = s /\ n.conn = None /\ n.phone = p
      /\ n \in ReqRecords
  BY <1>1 DEF Idle, ReqRecords, Operations, Steps
<1>3. Sound(n)
  BY <1>2 DEF Sound, StepInv, KnownInv, MetaInv
<1> QED
  BY <1>1, <1>2, <1>3, BeginKeeps DEF Complete

LEMMA ReadForCompletionKeeps ==
    ASSUME IInv, NEW r \in Requests, ReadForCompletion(r)
    PROVE  IInv'
<1>1. PICK m : m = req[r]
  OBVIOUS
<1>2. m \in ReqRecords /\ Sound(m) /\ m.at = "exchange"
  BY <1>1, Types DEF ReadForCompletion
<1>3. m.op = "complete" /\ m.phone \in Phones /\ m.seller \in Sellers
  BY <1>2 DEF Sound, StepInv
<1>4. PICK a \in Conns \cup {None},
           c \in IF HoldersOf(m.phone) = {} THEN {None} ELSE HoldersOf(m.phone) :
           req' = [req EXCEPT ![r].at = "persist", ![r].active = a, ![r].conn = c]
  BY <1>1 DEF ReadForCompletion
<1>5. PICK n : n = [m EXCEPT !.at = "persist", !.active = a, !.conn = c]
  OBVIOUS
<1>6. c \in Conns \cup {None} /\ (c # None => c \in HoldersOf(m.phone))
  BY <1>4 DEF HoldersOf
<1>7. /\ n.op = "complete" /\ n.at = "persist" /\ n.seller = m.seller /\ n.conn = c
      /\ n.phone = m.phone /\ n.active = a /\ n \in ReqRecords
  BY <1>2, <1>3, <1>4, <1>5, <1>6 DEF ReqRecords, Steps
<1>8. req' = [req EXCEPT ![r] = n]
  BY <1>1, <1>4, <1>5
<1>9. c # None => /\ Exists(c) /\ row[c].phone = m.phone /\ row[c].seller = m.seller
                  /\ row[c].status # "ACTIVE"
  BY <1>1, <1>6 DEF ReadForCompletion, Completable, HoldersOf, Exists, Current
<1>10. Sound(n)
  BY <1>3, <1>7, <1>9 DEF Sound, StepInv, KnownInv, MetaInv
<1> QED
  BY <1>7, <1>8, <1>10, ReadKeeps DEF ReadForCompletion, Reads, KeepMeta

LEMMA FinalizeKeeps ==
    ASSUME IInv, NEW r \in Requests, NEW c \in Conns, Finalize(r, c)
    PROVE  IInv'
<1>1. PICK at : at = IF row[c].registered THEN AfterRegistration(c) ELSE "pin"
  OBVIOUS
<1>2. PICK n : n = [Idle EXCEPT !.op = "finalize", !.conn = c, !.phone = row[c].phone, !.at = at]
  OBVIOUS
<1>3. at \in {"load", "readWaba", "pin"}
  BY <1>1 DEF AfterRegistration
<1>4. Exists(c) /\ row[c].phone \in Phones
  BY Types DEF Finalize, Activatable, Rows, Exists
<1>5. /\ n.op = "finalize" /\ n.at = at /\ n.conn = c /\ n.phone = row[c].phone
      /\ n \in ReqRecords
  BY <1>2, <1>3, <1>4 DEF Idle, ReqRecords, Operations, Steps
<1>6. Sound(n)
  BY <1>3, <1>4, <1>5, Types DEF Sound, StepInv, KnownInv, MetaInv
<1> QED
  BY <1>1, <1>2, <1>5, <1>6, BeginKeeps DEF Finalize

LEMMA FinalizeManualKeeps ==
    ASSUME IInv, NEW r \in Requests, NEW c \in Conns, FinalizeManual(r, c)
    PROVE  IInv'
<1>1. PICK n : n = [Idle EXCEPT !.op = "manual", !.conn = c, !.phone = row[c].phone, !.at = "readPhone"]
  OBVIOUS
<1>2. row[c].manual /\ row[c].cred \in Creds
  BY DEF FinalizeManual, IInv, RowInv
<1>3. Exists(c) /\ row[c].phone \in Phones
  BY <1>2, Types DEF FinalizeManual, Exists
<1>4. /\ n.op = "manual" /\ n.at = "readPhone" /\ n.conn = c /\ n.phone = row[c].phone
      /\ n \in ReqRecords
  BY <1>1, <1>3 DEF Idle, ReqRecords, Operations, Steps
<1>5. Sound(n)
  BY <1>2, <1>3, <1>4, Types DEF Sound, StepInv, KnownInv, MetaInv
<1> QED
  BY <1>1, <1>4, <1>5, BeginKeeps DEF FinalizeManual

LEMMA ConfigureWebhookKeeps ==
    ASSUME IInv, NEW r \in Requests, NEW c \in Conns, ConfigureWebhook(r, c)
    PROVE  IInv'
<1>1. PICK n : n = [Idle EXCEPT !.op = "configure", !.at = "readWaba", !.conn = c,
                                !.phone = row[c].phone]
  OBVIOUS
<1>2. row[c].manual /\ row[c].cred \in Creds
  BY DEF ConfigureWebhook, IInv, RowInv
<1>3. Exists(c) /\ row[c].phone \in Phones
  BY <1>2, Types DEF ConfigureWebhook, Exists
<1>4. /\ n.op = "configure" /\ n.at = "readWaba" /\ n.conn = c /\ n.phone = row[c].phone
      /\ n \in ReqRecords
  BY <1>1, <1>3 DEF Idle, ReqRecords, Operations, Steps
<1>5. Sound(n)
  BY <1>2, <1>3, <1>4, Types DEF Sound, StepInv, KnownInv, MetaInv
<1> QED
  BY <1>1, <1>4, <1>5, BeginKeeps DEF ConfigureWebhook

LEMMA SelectAssetsKeeps ==
    ASSUME IInv, NEW r \in Requests, NEW c \in Conns, NEW p \in Phones, SelectAssets(r, c, p)
    PROVE  IInv'
<1>1. PICK n : n = [Idle EXCEPT !.op = "select", !.at = "select", !.conn = c, !.phone = p]
  OBVIOUS
<1>2. Exists(c) /\ row[c].manual
  BY DEF SelectAssets, Exists
<1>3. /\ n.op = "select" /\ n.at = "select" /\ n.conn = c /\ n.phone = p /\ n \in ReqRecords
  BY <1>1 DEF Idle, ReqRecords, Operations, Steps
<1>4. Sound(n)
  BY <1>2, <1>3, Types DEF Sound, StepInv, KnownInv, MetaInv
<1> QED
  BY <1>1, <1>3, <1>4, BeginKeeps DEF SelectAssets

-----------------------------------------------------------------------------
(* The steps of a finalization that read or call Meta *)

\* What the invariant says of a request whose connection is known
LEMMA RequestFacts ==
    ASSUME IInv, NEW r \in Requests, req[r].op \in {"finalize", "manual", "configure", "select"}
    PROVE  /\ req[r].conn \in Conns /\ req[r].phone \in Phones
           /\ StepInv(req[r]) /\ KnownInv(req[r]) /\ MetaInv(req[r])
           /\ Exists(req[r].conn)
BY Types DEF Sound, StepInv, KnownInv, ReqRecords

LEMMA ReadPinKeeps ==
    ASSUME IInv, NEW r \in Requests, ReadPin(r)
    PROVE  IInv'
<1>1. PICK m : m = req[r]
  OBVIOUS
<1>2. /\ m \in ReqRecords /\ m.at = "pin" /\ m.op \in {"finalize", "manual"} /\ m.conn \in Conns
      /\ StepInv(m) /\ KnownInv(m)
  BY <1>1, Types, RequestFacts DEF ReadPin, Sound, StepInv
<1>3. PICK pin \in Pins, at \in {"storePin", "readPhone", "register"} :
        /\ req' = [req EXCEPT ![r].pin = pin, ![r].at = at]
        /\ at = "storePin" => row[m.conn].pin = None
        /\ at # "storePin" => row[m.conn].pin = pin
  <2>1. CASE row[m.conn].pin # None
    <3>1. row[m.conn].pin \in Pins
      BY <1>2, <2>1, Types DEF Rows
    <3>2. PinKnown(r, row[m.conn].pin)
      BY <1>1, <2>1 DEF ReadPin
    <3>3. CASE m.op = "finalize"
      BY <1>1, <3>1, <3>2, <3>3 DEF PinKnown
    <3>4. CASE m.op # "finalize"
      BY <1>1, <3>1, <3>2, <3>4 DEF PinKnown
    <3> QED
      BY <3>3, <3>4
  <2>2. CASE row[m.conn].pin = None
    BY <1>1, <2>2, Types DEF ReadPin
  <2> QED
    BY <2>1, <2>2
<1>4. PICK n : n = [m EXCEPT !.pin = pin, !.at = at]
  OBVIOUS
<1>5. /\ n.op = m.op /\ n.at = at /\ n.seller = m.seller /\ n.conn = m.conn /\ n.phone = m.phone
      /\ n.pin = pin /\ n.active = m.active /\ n.fresh = m.fresh /\ n \in ReqRecords
  BY <1>2, <1>3, <1>4 DEF ReqRecords, Steps
<1>6. StepInv(n)
  BY <1>2, <1>3, <1>5 DEF StepInv
<1>7. KnownInv(n)
  BY <1>2, <1>3, <1>5 DEF KnownInv
<1>8. MetaInv(n)
  BY <1>2, <1>3, <1>5 DEF MetaInv
<1>9. req' = [req EXCEPT ![r] = n]
  BY <1>1, <1>3, <1>4
<1> QED
  BY <1>5, <1>6, <1>7, <1>8, <1>9, ReadKeeps DEF ReadPin, Reads, KeepMeta, Sound

\* A step to another point of the same request that asks for nothing more
LEMMA GoOn ==
    ASSUME IInv, NEW r \in Requests, NEW n \in ReqRecords, FieldsButAt(n, req[r]),
           req[r].op \in {"finalize", "manual", "configure", "select"},
           n.at \notin {"commit", "persist"},
           n.at = "saveAssets" /\ n.fresh => row[n.conn].status # "ACTIVE"
    PROVE  KnownInv(n)
BY RequestFacts DEF KnownInv, FieldsButAt

LEMMA ReadPhoneKeeps ==
    ASSUME IInv, NEW r \in Requests, ReadPhone(r)
    PROVE  IInv'
<1>1. PICK at : at = IF registered[req[r].phone].by # None THEN "markPhone"
                     ELSE IF req[r].op = "finalize" THEN "register" ELSE "pin"
  OBVIOUS
<1>2. req[r].at = "readPhone" /\ req[r].op \in {"finalize", "manual"}
  BY Types DEF ReadPhone, Sound, StepInv
<1>3. at \in {"markPhone", "register", "pin"} /\ (at = "register" => req[r].op = "finalize")
  BY <1>1
<1>4. ASSUME NEW n \in ReqRecords, n.at = at, FieldsButAt(n, req[r]) PROVE Sound(n)
  <2>1. StepInv(n)
    BY <1>2, <1>3, <1>4, RequestFacts DEF StepInv, FieldsButAt
  <2>2. KnownInv(n)
    BY <1>2, <1>3, <1>4, GoOn
  <2>3. MetaInv(n)
    BY <1>2, <1>3, <1>4, RequestFacts DEF MetaInv, FieldsButAt
  <2> QED
    BY <2>1, <2>2, <2>3 DEF Sound
<1>5. at \in Steps
  BY <1>3 DEF Steps
<1> QED
  BY <1>1, <1>4, <1>5, GoKeeps DEF ReadPhone

LEMMA ReadWabaKeeps ==
    ASSUME IInv, NEW r \in Requests, ReadWaba(r)
    PROVE  IInv'
<1>1. PICK at : at = IF Hook(r) \in hooks THEN "markWaba" ELSE "subscribe"
  OBVIOUS
<1>2. req[r].at = "readWaba" /\ req[r].op \in {"finalize", "configure"}
  BY Types DEF ReadWaba, Sound, StepInv
<1>3. at \in {"markWaba", "subscribe"}
  BY <1>1
<1>4. ASSUME NEW n \in ReqRecords, n.at = at, FieldsButAt(n, req[r]) PROVE Sound(n)
  <2>1. StepInv(n)
    BY <1>2, <1>3, <1>4, RequestFacts DEF StepInv, FieldsButAt
  <2>2. KnownInv(n)
    BY <1>2, <1>3, <1>4, GoOn
  <2>3. MetaInv(n)
    BY <1>3, <1>4 DEF MetaInv
  <2> QED
    BY <2>1, <2>2, <2>3 DEF Sound
<1>5. at \in Steps
  BY <1>3 DEF Steps
<1> QED
  BY <1>1, <1>4, <1>5, GoKeeps DEF ReadWaba

LEMMA VerifyReadinessKeeps ==
    ASSUME IInv, NEW r \in Requests, VerifyReadiness(r)
    PROVE  IInv'
<1>1. req[r].at = "verify" /\ req[r].op \in {"finalize", "manual"}
  BY Types DEF VerifyReadiness, Sound, StepInv
<1>2. ASSUME NEW n \in ReqRecords, n.at = "activate", FieldsButAt(n, req[r]) PROVE Sound(n)
  <2>1. StepInv(n)
    BY <1>1, <1>2, RequestFacts DEF StepInv, FieldsButAt
  <2>2. KnownInv(n)
    BY <1>1, <1>2, GoOn
  <2>3. MetaInv(n)
    BY <1>2 DEF MetaInv, FieldsButAt, VerifyReadiness, Hook, HookOf
  <2> QED
    BY <2>1, <2>2, <2>3 DEF Sound
<1> QED
  BY <1>2, GoKeeps DEF VerifyReadiness, Steps

LEMMA RereadDraftKeeps ==
    ASSUME IInv, NEW r \in Requests, RereadDraft(r)
    PROVE  IInv'
<1>1. req[r].at = "select" /\ req[r].op = "select"
  BY Types DEF RereadDraft, Sound, StepInv
<1>2. ASSUME NEW n \in ReqRecords, n.at = "saveAssets", FieldsButAt(n, req[r]) PROVE Sound(n)
  <2>1. StepInv(n)
    BY <1>1, <1>2, RequestFacts DEF StepInv, FieldsButAt
  <2>2. row[n.conn].status # "ACTIVE"
    BY <1>2 DEF FieldsButAt, RereadDraft
  <2>3. KnownInv(n)
    BY <1>1, <1>2, <2>2, GoOn
  <2>4. MetaInv(n)
    BY <1>2 DEF MetaInv
  <2> QED
    BY <2>1, <2>3, <2>4 DEF Sound
<1> QED
  BY <1>2, GoKeeps DEF RereadDraft, Steps

LEMMA LoadReadyKeeps ==
    ASSUME IInv, NEW r \in Requests, LoadReady(r)
    PROVE  IInv'
<1>1. PICK m : m = req[r]
  OBVIOUS
<1>2. m \in ReqRecords /\ m.at = "load" /\ m.op = "finalize" /\ m.conn \in Conns /\ KnownInv(m)
  BY <1>1, Types, RequestFacts DEF LoadReady, Sound, StepInv
<1>3. row[m.conn].phone \in Phones
  BY <1>1, <1>2, Types DEF LoadReady, Activatable, Rows
<1>4. PICK n : n = [m EXCEPT !.at = "verify", !.phone = row[m.conn].phone, !.fresh = TRUE]
  OBVIOUS
<1>5. /\ n.op = "finalize" /\ n.at = "verify" /\ n.conn = m.conn /\ n.phone = row[m.conn].phone
      /\ n \in ReqRecords
  BY <1>2, <1>3, <1>4 DEF ReqRecords, Steps
<1>6. Sound(n)
  BY <1>2, <1>3, <1>5, Types DEF Sound, StepInv, KnownInv, MetaInv
<1>7. req' = [req EXCEPT ![r] = n]
  BY <1>1, <1>4 DEF LoadReady
<1> QED
  BY <1>5, <1>6, <1>7, ReadKeeps DEF LoadReady, Reads, KeepMeta

LEMMA ReadForActivationKeeps ==
    ASSUME IInv, NEW r \in Requests, ReadForActivation(r)
    PROVE  IInv'
<1>1. PICK m : m = req[r]
  OBVIOUS
<1>2. /\ m \in ReqRecords /\ m.at = "activate" /\ m.op \in {"finalize", "manual"}
      /\ m.conn \in Conns /\ StepInv(m) /\ KnownInv(m) /\ MetaInv(m)
  BY <1>1, Types, RequestFacts DEF ReadForActivation, Sound, StepInv
<1>3. PICK a \in Conns \cup {None} : /\ Finds(row[m.conn].seller, a)
                                     /\ req' = [req EXCEPT ![r].at = "commit", ![r].active = a]
  BY <1>1 DEF ReadForActivation
<1>4. a # None => Exists(a) /\ row[a].seller = row[m.conn].seller
  BY <1>3 DEF Finds, ActiveOf, Exists
<1>5. PICK n : n = [m EXCEPT !.at = "commit", !.active = a]
  OBVIOUS
<1>6. /\ n.op = m.op /\ n.at = "commit" /\ n.seller = m.seller /\ n.conn = m.conn
      /\ n.phone = m.phone /\ n.pin = m.pin /\ n.active = a /\ n.fresh = m.fresh /\ n \in ReqRecords
  BY <1>2, <1>3, <1>5 DEF ReqRecords, Steps
<1>7. StepInv(n)
  BY <1>2, <1>6 DEF StepInv
<1>8. KnownInv(n)
  BY <1>2, <1>4, <1>6 DEF KnownInv
<1>9. MetaInv(n)
  BY <1>2, <1>6 DEF MetaInv, HookOf
<1>10. req' = [req EXCEPT ![r] = n]
  BY <1>1, <1>3, <1>5
<1> QED
  BY <1>6, <1>7, <1>8, <1>9, <1>10, ReadKeeps DEF ReadForActivation, Reads, KeepMeta, Sound

-----------------------------------------------------------------------------
(* The steps that change what Meta knows *)

LEMMA RegisterPhoneKeeps ==
    ASSUME IInv, NEW r \in Requests, RegisterPhone(r)
    PROVE  IInv'
<1>1. PICK m : m = req[r]
  OBVIOUS
<1>2. /\ m \in ReqRecords /\ m.at = "register" /\ m.op \in {"finalize", "manual"}
      /\ m.conn \in Conns /\ m.phone \in Phones /\ m.pin \in Pins /\ Exists(m.conn)
      /\ StepInv(m) /\ KnownInv(m) /\ MetaInv(m)
  BY <1>1, Types, RequestFacts DEF RegisterPhone, Sound, StepInv, MetaInv
<1>3. PICK new : new = IF registered[m.phone].pin = m.pin THEN registered[m.phone]
                       ELSE [pin |-> m.pin, by |-> m.conn]
  OBVIOUS
<1>4. /\ registered' = [registered EXCEPT ![m.phone] = new]
      /\ new \in [pin : Pins \cup {None}, by : Conns \cup {None}]
      /\ new = registered[m.phone] \/ (new.pin = m.pin /\ new.by = m.conn)
  BY <1>1, <1>2, <1>3, Types DEF RegisterPhone
<1>5. /\ registered' \in [Phones -> [pin : Pins \cup {None}, by : Conns \cup {None}]]
      /\ registered'[m.phone] = new /\ \A p \in Phones \ {m.phone} : registered'[p] = registered[p]
  BY <1>2, <1>4, Types
<1>6. \A p \in Phones : registered[p].by # None => registered'[p].by # None
  BY <1>2, <1>4, <1>5, Types
<1>7. PICK n : n = [m EXCEPT !.at = "markPhone"]
  OBVIOUS
<1>8. n \in ReqRecords /\ n.at = "markPhone" /\ FieldsButAt(n, m)
  BY <1>2, <1>7 DEF ReqRecords, Steps, FieldsButAt
<1>9. /\ row' = row /\ hooks' = hooks /\ raced' = raced /\ asked' = asked
      /\ req' = [req EXCEPT ![r] = n]
  BY <1>1, <1>7 DEF RegisterPhone, Go, Reads
<1>10. req' \in [Requests -> ReqRecords]
  BY <1>8, <1>9, Types
<1>11. TypeOK'
  BY <1>5, <1>9, <1>10 DEF IInv, TypeOK, ReqRecords
<1>12. UniqueInv'
  BY <1>9 DEF IInv, UniqueInv
<1>13. RowInv'
  BY <1>2, <1>4, <1>5, <1>9 DEF IInv, RowInv, Exists
<1>14. ActiveIsReady'
  <2>1. SUFFICES ASSUME NEW c \in Conns, row[c].status = "ACTIVE", row[c].manual => c \notin raced
                 PROVE  /\ registered'[row[c].phone].by # None
                        /\ {<<row[c].phone, None>>, <<row[c].phone, c>>} \cap hooks # {}
    BY <1>9 DEF ActiveIsReady
  <2>2. /\ registered[row[c].phone].by # None
        /\ {<<row[c].phone, None>>, <<row[c].phone, c>>} \cap hooks # {}
    BY <2>1 DEF IInv, ActiveIsReady
  <2>3. row[c].phone \in Phones
    BY <2>2, Types
  <2> QED
    BY <1>6, <2>2, <2>3
<1>15. PinKept'
  <2>1. SUFFICES ASSUME NEW c \in Conns, row[c].phone # None, registered'[row[c].phone].by = c,
                        ~row[c].manual, c \notin raced
                 PROVE  row[c].pin = registered'[row[c].phone].pin
    BY <1>9 DEF PinKept
  <2>2. row[c].phone \in Phones
    BY <2>1, Types DEF Rows
  <2>3. CASE registered'[row[c].phone] = registered[row[c].phone]
    BY <2>1, <2>3 DEF IInv, PinKept
  <2>4. CASE registered'[row[c].phone] # registered[row[c].phone]
    <3>1. row[c].phone = m.phone /\ c = m.conn /\ registered'[row[c].phone].pin = m.pin
      BY <1>4, <1>5, <2>1, <2>2, <2>4
    <3>2. m.op = "finalize"
      BY <1>2, <2>1, <3>1, Types DEF KnownInv
    <3> QED
      BY <1>2, <2>1, <3>1, <3>2 DEF MetaInv
  <2> QED
    BY <2>3, <2>4
<1>16. ASSUME NEW q \in Requests PROVE Sound(req[q])'
  <2>1. PICK k : k = req'[q]
    OBVIOUS
  <2>2. Sound(k)
    <3>1. CASE q = r
      <4>1. k = n
        BY <1>9, <2>1, <3>1, Types
      <4>2. StepInv(n)
        BY <1>2, <1>8 DEF StepInv, FieldsButAt
      <4>3. KnownInv(n)
        BY <1>1, <1>2, <1>8, GoOn
      <4>4. MetaInv(n)
        BY <1>8 DEF MetaInv
      <4> QED
        BY <4>1, <4>2, <4>3, <4>4 DEF Sound
    <3>2. CASE q # r
      BY <1>9, <2>1, <3>2, Types
    <3> QED
      BY <3>1, <3>2
  <2>3. StepInv(k)'
    BY <2>2 DEF Sound, StepInv
  <2>4. KnownInv(k)'
    BY <1>9, <2>2 DEF Sound, KnownInv, Exists
  <2>5. k.at \in {"activate", "commit"} => k.phone \in Phones
    BY <2>2 DEF Sound, StepInv
  <2>6. MetaInv(k)'
    BY <1>6, <1>9, <2>2, <2>5 DEF Sound, MetaInv, HookOf
  <2>7. Sound(k)'
    BY <2>3, <2>4, <2>6 DEF Sound
  <2> QED
    BY <2>1, <2>7
<1> QED
  BY <1>11, <1>12, <1>13, <1>14, <1>15, <1>16 DEF IInv

LEMMA SubscribeWabaKeeps ==
    ASSUME IInv, NEW r \in Requests, SubscribeWaba(r)
    PROVE  IInv'
<1>1. PICK m : m = req[r]
  OBVIOUS
<1>2. /\ m \in ReqRecords /\ m.at = "subscribe" /\ m.op \in {"finalize", "configure"}
      /\ m.conn \in Conns /\ m.phone \in Phones /\ StepInv(m)
  BY <1>1, Types, RequestFacts DEF SubscribeWaba, Sound, StepInv
<1>3. PICK n : n = [m EXCEPT !.at = "markWaba"]
  OBVIOUS
<1>4. n \in ReqRecords /\ n.at = "markWaba" /\ FieldsButAt(n, m)
  BY <1>2, <1>3 DEF ReqRecords, Steps, FieldsButAt
<1>5. /\ row' = row /\ registered' = registered /\ raced' = raced /\ asked' = asked
      /\ req' = [req EXCEPT ![r] = n]
  BY <1>1, <1>3 DEF SubscribeWaba, Go, Reads
<1>6. hooks \subseteq hooks' /\ hooks' \subseteq Phones \X (Conns \cup {None})
  BY <1>1, <1>2, Types DEF SubscribeWaba, Hook
<1>7. req' \in [Requests -> ReqRecords]
  BY <1>4, <1>5, Types
<1>8. TypeOK'
  BY <1>5, <1>6, <1>7 DEF IInv, TypeOK, ReqRecords
<1>9. UniqueInv' /\ RowInv'
  BY <1>5 DEF IInv, UniqueInv, RowInv, Exists
<1>10. ActiveIsReady'
  BY <1>5, <1>6 DEF IInv, ActiveIsReady
<1>11. PinKept'
  BY <1>5 DEF IInv, PinKept
<1>12. ASSUME NEW q \in Requests PROVE Sound(req[q])'
  <2>1. PICK k : k = req'[q]
    OBVIOUS
  <2>2. Sound(k)
    <3>1. CASE q = r
      <4>1. k = n
        BY <1>5, <2>1, <3>1, Types
      <4>2. StepInv(n)
        BY <1>2, <1>4 DEF StepInv, FieldsButAt
      <4>3. KnownInv(n)
        BY <1>1, <1>2, <1>4, GoOn
      <4>4. MetaInv(n)
        BY <1>4 DEF MetaInv
      <4> QED
        BY <4>1, <4>2, <4>3, <4>4 DEF Sound
    <3>2. CASE q # r
      BY <1>5, <2>1, <3>2, Types
    <3> QED
      BY <3>1, <3>2
  <2>3. StepInv(k)'
    BY <2>2 DEF Sound, StepInv
  <2>4. KnownInv(k)'
    BY <1>5, <2>2 DEF Sound, KnownInv, Exists
  <2>5. MetaInv(k)'
    BY <1>5, <1>6, <2>2 DEF Sound, MetaInv, HookOf
  <2>6. Sound(k)'
    BY <2>3, <2>4, <2>5 DEF Sound
  <2> QED
    BY <2>1, <2>6
<1> QED
  BY <1>8, <1>9, <1>10, <1>11, <1>12 DEF IInv

-----------------------------------------------------------------------------
(* The steps that write the row of a connection that exists *)

\* An UPDATE of progress, of the PIN or of the status only
KeptFields(new, old) ==
    /\ new.seller = old.seller /\ new.manual = old.manual /\ new.phone = old.phone
    /\ new.token = old.token /\ new.cred = old.cred

LEMMA ProgressWritten ==
    ASSUME IInv, NEW c \in Conns, NEW new \in Rows, row' = [row EXCEPT ![c] = new],
           KeptFields(new, row[c]), Exists(c),
           new.status = row[c].status \/ new.status = "DISCONNECTED",
           c \notin raced' /\ ~row[c].manual /\ row[c].pin # None => new.pin = row[c].pin
    PROVE  Written(c) /\ UniqueInv'
<1>1. row'[c] = new /\ row[c] \in Rows
  BY Types
<1>2. Written(c)
  BY <1>1 DEF Written, KeptFields, Exists, IInv, TypeOK, RowInv
<1>3. new.status = "ACTIVE" => row[c].status = "ACTIVE" /\ row[c].seller = new.seller
  BY DEF KeptFields
<1>4. new.status \in Current => row[c].status \in Current /\ row[c].phone = new.phone
  BY DEF KeptFields, Current
<1> QED
  BY <1>2, <1>3, <1>4, UniqueKept

\* A record that differs in its step only
LEMMA AtOf ==
    ASSUME IInv, NEW r \in Requests, NEW at \in Steps, NEW n, n = [req[r] EXCEPT !.at = at]
    PROVE  n \in ReqRecords /\ n.at = at /\ FieldsButAt(n, req[r])
<1>1. PICK m : m = req[r]
  OBVIOUS
<1>2. m \in ReqRecords
  BY <1>1, Types
<1>3. n = [m EXCEPT !.at = at]
  BY <1>1
<1> QED
  BY <1>1, <1>2, <1>3 DEF ReqRecords, FieldsButAt

\* A finalization goes on after a write that left the phone and the PIN it has
\* at hand
LEMMA GoOnWritten ==
    ASSUME IInv, NEW r \in Requests, NEW n \in ReqRecords, FieldsButAt(n, req[r]),
           req[r].op \in {"finalize", "manual", "configure"},
           n.at \in {"readPhone", "register", "readWaba", "load", "verify"}, StepInv(n),
           KeptFields(row'[n.conn], row[n.conn]), Exists(n.conn)',
           n.at \in {"readPhone", "register"} => n.pin \in Pins /\ row'[n.conn].pin = n.pin
    PROVE  Sound(n)'
<1>1. KnownInv(n)
  BY GoOn
<1>2. KnownInv(n)'
  BY <1>1, RequestFacts DEF KnownInv, KeptFields, FieldsButAt
<1>3. MetaInv(n)'
  BY DEF MetaInv
<1>4. StepInv(n)'
  BY DEF StepInv
<1> QED
  BY <1>2, <1>3, <1>4 DEF Sound

LEMMA StorePinKeeps ==
    ASSUME IInv, NEW r \in Requests, StorePin(r)
    PROVE  IInv'
<1>1. PICK c : c = req[r].conn
  OBVIOUS
<1>2. /\ req[r].at = "storePin" /\ req[r].op \in {"finalize", "manual"} /\ c \in Conns
      /\ req[r].pin \in Pins /\ MetaInv(req[r]) /\ Exists(c) /\ row[c] \in Rows
  BY <1>1, Types, RequestFacts DEF StorePin, Sound, StepInv, MetaInv
<1>3. PICK at : at = IF req[r].op = "finalize" THEN "readPhone" ELSE "register"
  OBVIOUS
<1>4. at \in {"readPhone", "register"} /\ at \in Steps /\ at # "none"
  BY <1>3 DEF Steps
<1>5. PICK new : new = WithPin(c, req[r].pin)
  OBVIOUS
<1>6. /\ new \in Rows /\ KeptFields(new, row[c]) /\ new.status = row[c].status
      /\ new.pin = req[r].pin
  BY <1>2, <1>5 DEF WithPin, Rows, KeptFields
<1>7. Update(r, c, new, at) /\ UNCHANGED <<registered, hooks>>
  BY <1>1, <1>3, <1>5 DEF StorePin, KeepMeta
<1>8. row' = [row EXCEPT ![c] = new]
  BY <1>7 DEF Update
<1>9. c \notin raced' => row[c].pin = None
  BY <1>1, <1>2, <1>7 DEF Update, MetaInv
<1>10. Written(c) /\ UniqueInv'
  BY <1>2, <1>6, <1>8, <1>9, ProgressWritten
<1>11. ASSUME NEW n \in ReqRecords, n = [req[r] EXCEPT !.at = at] PROVE Sound(n)'
  <2>1. n.at = at /\ FieldsButAt(n, req[r])
    BY <1>4, <1>11, AtOf
  <2>2. StepInv(n)
    BY <1>2, <1>4, <2>1, RequestFacts DEF StepInv, FieldsButAt
  <2>3. n.conn = c /\ n.pin = req[r].pin /\ row'[c] = new
    BY <1>1, <1>2, <1>8, <2>1, Types DEF FieldsButAt
  <2> QED
    BY <1>2, <1>4, <1>6, <1>10, <2>1, <2>2, <2>3, GoOnWritten DEF Written
<1> QED
  BY <1>2, <1>4, <1>6, <1>7, <1>10, <1>11, UpdateKeeps

LEMMA MarkPhoneKeeps ==
    ASSUME IInv, NEW r \in Requests, MarkPhone(r)
    PROVE  IInv'
<1>1. PICK c : c = req[r].conn
  OBVIOUS
<1>2. /\ req[r].at = "markPhone" /\ req[r].op \in {"finalize", "manual"} /\ c \in Conns
      /\ Exists(c) /\ row[c] \in Rows
  BY <1>1, Types, RequestFacts DEF MarkPhone, Sound, StepInv
<1>3. PICK at : at = IF req[r].op = "finalize" THEN AfterRegistration(c) ELSE "verify"
  OBVIOUS
<1>4. /\ at \in {"readWaba", "load", "verify"} /\ at \in Steps /\ at # "none"
      /\ at \in {"readWaba", "load"} => req[r].op = "finalize"
  BY <1>3 DEF Steps, AfterRegistration
<1>5. PICK new : new = [row[c] EXCEPT !.registered = TRUE]
  OBVIOUS
<1>6. /\ new \in Rows /\ KeptFields(new, row[c]) /\ new.status = row[c].status
      /\ new.pin = row[c].pin
  BY <1>2, <1>5 DEF Rows, KeptFields
<1>7. Update(r, c, new, at) /\ UNCHANGED <<registered, hooks>>
  BY <1>1, <1>3, <1>5 DEF MarkPhone, KeepMeta
<1>8. row' = [row EXCEPT ![c] = new]
  BY <1>7 DEF Update
<1>9. Written(c) /\ UniqueInv'
  BY <1>2, <1>6, <1>8, ProgressWritten
<1>10. ASSUME NEW n \in ReqRecords, n = [req[r] EXCEPT !.at = at] PROVE Sound(n)'
  <2>1. n.at = at /\ FieldsButAt(n, req[r])
    BY <1>4, <1>10, AtOf
  <2>2. StepInv(n)
    BY <1>2, <1>4, <2>1, RequestFacts DEF StepInv, FieldsButAt
  <2>3. n.conn = c /\ row'[c] = new
    BY <1>1, <1>2, <1>8, <2>1, Types DEF FieldsButAt
  <2> QED
    BY <1>2, <1>4, <1>6, <1>9, <2>1, <2>2, <2>3, GoOnWritten DEF Written
<1> QED
  BY <1>2, <1>4, <1>6, <1>7, <1>9, <1>10, UpdateKeeps

LEMMA MarkWabaKeeps ==
    ASSUME IInv, NEW r \in Requests, MarkWaba(r)
    PROVE  IInv'
<1>1. PICK c : c = req[r].conn
  OBVIOUS
<1>2. /\ req[r].at = "markWaba" /\ req[r].op \in {"finalize", "configure"} /\ c \in Conns
      /\ Exists(c) /\ row[c] \in Rows
  BY <1>1, Types, RequestFacts DEF MarkWaba, Sound, StepInv
<1>3. PICK at : at = IF req[r].op = "finalize" THEN "load" ELSE "none"
  OBVIOUS
<1>4. at \in {"load", "none"} /\ at \in Steps /\ (at = "load" => req[r].op = "finalize")
  BY <1>3 DEF Steps
<1>5. PICK new : new = [row[c] EXCEPT !.subscribed = TRUE]
  OBVIOUS
<1>6. /\ new \in Rows /\ KeptFields(new, row[c]) /\ new.status = row[c].status
      /\ new.pin = row[c].pin
  BY <1>2, <1>5 DEF Rows, KeptFields
<1>7. Update(r, c, new, at) /\ UNCHANGED <<registered, hooks>>
  BY <1>1, <1>3, <1>5 DEF MarkWaba, KeepMeta
<1>8. row' = [row EXCEPT ![c] = new]
  BY <1>7 DEF Update
<1>9. Written(c) /\ UniqueInv'
  BY <1>2, <1>6, <1>8, ProgressWritten
<1>10. ASSUME at # "none", NEW n \in ReqRecords, n = [req[r] EXCEPT !.at = at] PROVE Sound(n)'
  <2>1. n.at = "load" /\ FieldsButAt(n, req[r])
    BY <1>4, <1>10, AtOf
  <2>2. StepInv(n)
    BY <1>2, <1>4, <1>10, <2>1, RequestFacts DEF StepInv, FieldsButAt
  <2>3. n.conn = c /\ row'[c] = new
    BY <1>1, <1>2, <1>8, <2>1, Types DEF FieldsButAt
  <2> QED
    BY <1>2, <1>6, <1>9, <2>1, <2>2, <2>3, GoOnWritten DEF Written
<1> QED
  BY <1>2, <1>4, <1>6, <1>7, <1>9, <1>10, UpdateKeeps

\* The same without a request of its own
LEMMA TouchKeeps ==
    ASSUME IInv, NEW c \in Conns, NEW new \in Rows, row' = [row EXCEPT ![c] = new],
           req' = Touched(c, None), UNCHANGED <<registered, hooks, raced, asked>>,
           Written(c), UniqueInv'
    PROVE  IInv'
<1>1. ASSUME NEW q \in Requests \ {None} PROVE LooksOn(q, {c})
  BY TouchedLooksOn
<1>2. None \in Requests \cup {None} /\ None \notin Requests
  BY Types
<1>3. req' \in [Requests -> ReqRecords]
  BY <1>1, <1>2 DEF Touched, LooksOn
<1>4. row' \in [Conns -> Rows] /\ \A d \in Conns \ {c} : row'[d] = row[d]
  BY Types
<1>5. raced \subseteq raced' /\ raced' \subseteq Conns
  BY Types
<1>6. \A d \in {c} : Written(d)
  OBVIOUS
<1> QED
  BY <1>1, <1>2, <1>3, <1>4, <1>5, <1>6, WriteKeeps

LEMMA DisconnectKeeps ==
    ASSUME IInv, NEW c \in Conns, Disconnect(c)
    PROVE  IInv'
<1>1. PICK new : new = [row[c] EXCEPT !.status = "DISCONNECTED"]
  OBVIOUS
<1>2. Exists(c) /\ row[c] \in Rows
  BY Types DEF Disconnect, Exists
<1>3. /\ new \in Rows /\ KeptFields(new, row[c]) /\ new.status = "DISCONNECTED"
      /\ new.pin = row[c].pin
  BY <1>1, <1>2 DEF Rows, KeptFields
<1>4. row' = [row EXCEPT ![c] = new]
  BY <1>1 DEF Disconnect
<1>5. Written(c) /\ UniqueInv'
  BY <1>2, <1>3, <1>4, ProgressWritten
<1> QED
  BY <1>3, <1>4, <1>5, TouchKeeps DEF Disconnect, KeepMeta

LEMMA ResetKeeps ==
    ASSUME IInv, NEW c \in Conns, NEW k \in Creds, Reset(c, k), row[c].manual, Exists(c)
    PROVE  IInv'
<1>1. PICK new : new = ResetRow(c, k)
  OBVIOUS
<1>2. row[c] \in Rows
  BY Types
<1>3. /\ new \in Rows /\ new.status = "PENDING" /\ new.cred = k /\ ~new.token /\ new.phone = None
      /\ new.manual = row[c].manual /\ new.seller = row[c].seller
  BY <1>1, <1>2 DEF ResetRow, Rows, Current
<1>4. row' = [row EXCEPT ![c] = new]
  BY <1>1 DEF Reset
<1>5. row'[c] = new
  BY <1>4, Types
<1>6. Written(c)
  BY <1>3, <1>5 DEF Written, Exists
<1>7. UniqueInv'
  BY <1>3, <1>4, UniqueKept
<1> QED
  BY <1>3, <1>4, <1>6, <1>7, TouchKeeps DEF Reset, KeepMeta

LEMMA SetupKeeps ==
    ASSUME IInv, NEW s \in Sellers, NEW k \in Creds, Setup(s, k)
    PROVE  IInv'
<1>1. CASE Drafts(s) # {}
  <2>1. PICK c \in Drafts(s) : Reset(c, k)
    BY <1>1 DEF Setup
  <2>2. c \in Conns /\ row[c].manual /\ Exists(c)
    BY <2>1 DEF Drafts, Exists
  <2> QED
    BY <2>1, <2>2, ResetKeeps
<1>2. CASE Drafts(s) = {}
  <2>1. PICK c, new :
          /\ c \in Conns /\ Inserts(c)
          /\ new = [NoRow EXCEPT !.status = "PENDING", !.seller = s, !.manual = TRUE, !.cred = k]
          /\ row' = [row EXCEPT ![c] = new]
          /\ UNCHANGED <<registered, hooks, req, raced, asked>>
    BY <1>2 DEF Setup, KeepMeta
  <2>2. /\ new \in Rows /\ new.status = "PENDING" /\ new.cred = k /\ ~new.token
        /\ new.phone = None /\ new.manual
    BY <2>1 DEF NoRow, Rows, Current
  <2>3. ~Exists(c)
    BY <2>1 DEF Inserts, NoRow, Exists
  <2>4. row'[c] = new
    BY <2>1, Types
  <2>5. Written(c)
    BY <2>2, <2>3, <2>4 DEF Written, Exists
  <2>6. UniqueInv'
    BY <2>1, <2>2, UniqueKept
  <2>7. ASSUME NEW q \in Requests PROVE LooksOn(q, {c})
    BY <2>1, <2>3, Types DEF LooksOn
  <2>8. None \in Requests \cup {None} /\ None \notin Requests /\ \A d \in {c} : Written(d)
    BY <2>5, Types
  <2>9. row' \in [Conns -> Rows] /\ req' \in [Requests -> ReqRecords] /\ raced' \subseteq Conns
        /\ \A d \in Conns \ {c} : row'[d] = row[d]
    BY <2>1, <2>2, Types
  <2> QED
    BY <2>1, <2>6, <2>7, <2>8, <2>9, WriteKeeps
<1> QED
  BY <1>1, <1>2

LEMMA ReplaceCredentialsKeeps ==
    ASSUME IInv, NEW c \in Conns, NEW k \in Creds, ReplaceCredentials(c, k)
    PROVE  IInv'
BY ResetKeeps DEF ReplaceCredentials, Exists

-----------------------------------------------------------------------------
(* The steps by which a connection gets its phone, and becomes ACTIVE *)

LEMMA PersistCompletionKeeps ==
    ASSUME IInv, NEW r \in Requests, PersistCompletion(r)
    PROVE  IInv'
<1>1. PICK m : m = req[r]
  OBVIOUS
<1>2. /\ m \in ReqRecords /\ m.at = "persist" /\ m.op = "complete" /\ m.phone \in Phones
      /\ m.seller \in Sellers /\ KnownInv(m)
  BY <1>1, Types DEF PersistCompletion, Sound, StepInv
<1>3. PICK c, new :
        /\ c \in Conns
        /\ IF m.conn = None THEN Inserts(c) ELSE c = m.conn
        /\ PhoneFree(c, m.phone)
        /\ Update(r, c, new, "none")
        /\ \/ new = [Candidate(r, c) EXCEPT !.status = "REPLACEMENT_PENDING", !.replaces = m.active]
           \/ new = [Candidate(r, c) EXCEPT !.status = "VERIFYING"]
  BY <1>1 DEF PersistCompletion
<1>4. PICK old : old = Candidate(r, c)
  OBVIOUS
<1>5. /\ old \in Rows /\ old.seller = m.seller /\ old.phone = m.phone /\ old.cred = row[c].cred
      /\ old.manual = row[c].manual /\ old.pin = row[c].pin
  <2>1. PICK was : was = row[c]
    OBVIOUS
  <2>2. was \in Rows
    BY <2>1, <1>3, Types
  <2>3. old = [was EXCEPT !.seller = m.seller, !.phone = m.phone, !.token = TRUE]
    BY <1>1, <1>4, <2>1 DEF Candidate
  <2> QED
    BY <1>2, <2>1, <2>2, <2>3 DEF Rows
<1>6. /\ new \in Rows /\ new.seller = m.seller /\ new.phone = m.phone /\ new.cred = row[c].cred
      /\ new.manual = row[c].manual /\ new.pin = row[c].pin
      /\ new.status \in {"REPLACEMENT_PENDING", "VERIFYING"}
  BY <1>2, <1>3, <1>4, <1>5 DEF Rows, ReqRecords, Current
<1>7. row' = [row EXCEPT ![c] = new] /\ row'[c] = new
  BY <1>3, Types DEF Update
<1>8. Exists(c) => m.conn = c
  BY <1>3 DEF Inserts, NoRow, Exists
<1>9. Exists(c) => row[c].seller = m.seller /\ (~row[c].manual => row[c].phone = m.phone)
  BY <1>2, <1>3, <1>8, Types DEF KnownInv
<1>10. c \in Conns /\ (row[c].manual => row[c].cred \in Creds)
  BY <1>3 DEF IInv, RowInv
<1>11. Written(c)
  BY <1>6, <1>7, <1>9, <1>10 DEF Written, Exists
<1>12. UniqueInv'
  BY <1>3, <1>6, <1>7, UniqueKept
<1>13. UNCHANGED <<registered, hooks>>
  BY DEF PersistCompletion, KeepMeta
<1> QED
  BY <1>3, <1>6, <1>11, <1>12, <1>13, UpdateKeeps DEF Steps

LEMMA SaveAssetsKeeps ==
    ASSUME IInv, NEW r \in Requests, SaveAssets(r)
    PROVE  IInv'
<1>1. PICK c : c = req[r].conn
  OBVIOUS
<1>2. /\ req[r].at = "saveAssets" /\ req[r].op = "select" /\ c \in Conns /\ req[r].phone \in Phones
      /\ Exists(c) /\ row[c].manual /\ row[c] \in Rows
  BY <1>1, Types, RequestFacts DEF SaveAssets, Sound, StepInv, KnownInv
<1>3. PICK new : new = [row[c] EXCEPT !.phone = req[r].phone, !.status = "VERIFYING"]
  OBVIOUS
<1>4. /\ new \in Rows /\ new.status = "VERIFYING" /\ new.phone = req[r].phone
      /\ new.manual = row[c].manual /\ new.seller = row[c].seller /\ new.cred = row[c].cred
  BY <1>2, <1>3 DEF Rows, Current
<1>5. Update(r, c, new, "none") /\ PhoneFree(c, new.phone) /\ UNCHANGED <<registered, hooks>>
  BY <1>1, <1>3, <1>4 DEF SaveAssets, KeepMeta
<1>6. row' = [row EXCEPT ![c] = new] /\ row'[c] = new
  BY <1>2, <1>5, Types DEF Update
<1>7. row[c].cred \in Creds
  BY <1>2 DEF IInv, RowInv
<1>8. Written(c)
  BY <1>2, <1>4, <1>6, <1>7 DEF Written, Exists
<1>9. UniqueInv'
  BY <1>2, <1>4, <1>5, <1>6, UniqueKept
<1> QED
  BY <1>2, <1>4, <1>5, <1>8, <1>9, UpdateKeeps DEF Steps

\* A request that is about to commit, whose word on Meta counts
LEMMA CommitFacts ==
    ASSUME IInv, NEW r \in Requests, req[r].at = "commit", NEW c, c = req[r].conn
    PROVE  /\ c \in Conns /\ Exists(c) /\ row[c] \in Rows
           /\ (row[c].manual => req[r].fresh) =>
                 /\ registered[row[c].phone].by # None
                 /\ {<<row[c].phone, None>>, <<row[c].phone, c>>} \cap hooks # {}
           /\ req[r].active # None => row[req[r].active].seller = row[c].seller
<1>1. req[r].op \in {"finalize", "manual"}
  BY Types DEF Sound, StepInv
<1>2. c \in Conns /\ Exists(c) /\ row[c] \in Rows /\ KnownInv(req[r]) /\ MetaInv(req[r])
  BY <1>1, RequestFacts, Types
<1>3. (row[c].manual => req[r].fresh) => row[c].phone = req[r].phone
  BY <1>1, <1>2, Types DEF KnownInv
<1>4. registered[req[r].phone].by # None
      /\ {<<req[r].phone, None>>, <<req[r].phone, c>>} \cap hooks # {}
  BY <1>1, <1>2 DEF MetaInv, HookOf
<1> QED
  BY <1>2, <1>3, <1>4, Types DEF KnownInv

LEMMA ActivateKeeps ==
    ASSUME IInv, NEW r \in Requests, Activate(r)
    PROVE  IInv'
<1>1. PICK c : c = req[r].conn
  OBVIOUS
<1>2. c \in Conns /\ Exists(c) /\ row[c] \in Rows
  BY <1>1, CommitFacts DEF Activate
<1>3. PICK new : new = [row[c] EXCEPT !.status = "ACTIVE"]
  OBVIOUS
<1>4. new \in Rows /\ new.status = "ACTIVE" /\ KeptFields(new, row[c]) /\ new.pin = row[c].pin
  BY <1>2, <1>3 DEF Rows, Current, KeptFields
<1>5. /\ Update(r, c, new, "none") /\ UNCHANGED <<registered, hooks>>
      /\ row[c].status = "VERIFYING" /\ ActiveOf(row[c].seller) = {}
  BY <1>1, <1>3 DEF Activate, KeepMeta
<1>6. row' = [row EXCEPT ![c] = new] /\ row'[c] = new
  BY <1>2, <1>5, Types DEF Update
<1>7. (new.manual => c \notin raced') =>
         /\ registered[new.phone].by # None
         /\ {<<new.phone, None>>, <<new.phone, c>>} \cap hooks # {}
  <2>1. c \notin raced' => req[r].fresh
    BY <1>5 DEF Update
  <2> QED
    BY <1>1, <1>4, <2>1, CommitFacts DEF Activate, KeptFields
<1>8. row[c].manual => row[c].cred \in Creds
  BY <1>2 DEF IInv, RowInv
<1>9. Written(c)
  BY <1>4, <1>6, <1>7, <1>8 DEF Written, Exists, KeptFields
<1>10. UniqueInv'
  BY <1>2, <1>4, <1>5, <1>6, UniqueKept DEF KeptFields, Current
<1> QED
  BY <1>2, <1>4, <1>5, <1>9, <1>10, UpdateKeeps DEF Steps

LEMMA SwitchKeeps ==
    ASSUME IInv, NEW r \in Requests, Switch(r)
    PROVE  IInv'
<1>1. PICK c : c = req[r].conn
  OBVIOUS
<1>2. PICK a : a = req[r].active
  OBVIOUS
<1>3. /\ req[r].at = "commit" /\ a # None /\ a # c
      /\ row[c].status \in {"PENDING", "VERIFYING", "REPLACEMENT_PENDING"}
      /\ row[a].status = "ACTIVE" /\ row' = Switched(c, a)
      /\ raced' = IF req[r].fresh THEN raced ELSE raced \cup {c}
      /\ UNCHANGED <<registered, hooks, asked>>
  BY <1>1, <1>2 DEF Switch, MayReplace, KeepMeta
<1>4. c \in Conns /\ Exists(c) /\ row[c] \in Rows /\ row[a].seller = row[c].seller
  BY <1>1, <1>2, <1>3, CommitFacts
<1>5. a \in Conns /\ Exists(a) /\ row[a] \in Rows
  BY <1>2, <1>3, Types DEF ReqRecords, Exists
<1>6. PICK on, off : /\ on = [row[c] EXCEPT !.status = "ACTIVE", !.replaces = a]
                     /\ off = [row[a] EXCEPT !.status = "DISCONNECTED"]
  OBVIOUS
<1>7. on \in Rows /\ on.status = "ACTIVE" /\ KeptFields(on, row[c]) /\ on.pin = row[c].pin
  BY <1>4, <1>5, <1>6 DEF Rows, Current, KeptFields
<1>8. off \in Rows /\ off.status = "DISCONNECTED" /\ KeptFields(off, row[a]) /\ off.pin = row[a].pin
  BY <1>5, <1>6 DEF Rows, Current, KeptFields
<1>9. row' = [row EXCEPT ![c] = on, ![a] = off]
  BY <1>3, <1>4, <1>5, <1>6, Types DEF Switched
<1>10. /\ row' \in [Conns -> Rows] /\ row'[c] = on /\ row'[a] = off
       /\ \A d \in Conns \ {c, a} : row'[d] = row[d]
  BY <1>3, <1>4, <1>5, <1>7, <1>8, <1>9, Types
<1>11. Written(c)
  <2>1. (on.manual => c \notin raced') =>
           /\ registered[on.phone].by # None
           /\ {<<on.phone, None>>, <<on.phone, c>>} \cap hooks # {}
    <3>1. c \notin raced' => req[r].fresh
      BY <1>3
    <3> QED
      BY <1>1, <1>3, <1>7, <3>1, CommitFacts DEF KeptFields
  <2>2. row[c].manual => row[c].cred \in Creds
    BY <1>4 DEF IInv, RowInv
  <2> QED
    BY <1>4, <1>7, <1>10, <2>1, <2>2 DEF Written, Exists, KeptFields
<1>12. Written(a)
  <2>1. row[a].manual => row[a].cred \in Creds
    BY <1>5 DEF IInv, RowInv
  <2> QED
    BY <1>5, <1>8, <1>10, <2>1 DEF Written, Exists, KeptFields
<1>13. UniqueInv'
  <2>1. \A d \in Conns : row'[d].status = "ACTIVE" =>
           row'[d].seller = row[d].seller /\ (d = c \/ (d # a /\ row[d].status = "ACTIVE"))
    BY <1>7, <1>8, <1>10 DEF KeptFields
  <2>2. \A d \in Conns : row[d].status = "ACTIVE" /\ row[d].seller = row[c].seller => d = a
    BY <1>3, <1>4, <1>5 DEF IInv, UniqueInv
  <2>3. \A d \in Conns : row'[d].status \in Current =>
           row[d].status \in Current /\ row'[d].phone = row[d].phone
    BY <1>3, <1>7, <1>8, <1>10 DEF KeptFields, Current
  <2>4. ASSUME NEW d \in Conns, NEW e \in Conns, row'[d].status = "ACTIVE",
               row'[e].status = "ACTIVE", row'[d].seller = row'[e].seller
        PROVE  d = e
    <3>1. CASE d = c \/ e = c
      BY <2>1, <2>2, <2>4, <3>1
    <3>2. CASE d # c /\ e # c
      BY <2>1, <2>4, <3>2 DEF IInv, UniqueInv
    <3> QED
      BY <3>1, <3>2
  <2>5. ASSUME NEW d \in Conns, NEW e \in Conns, row'[d].status \in Current,
               row'[e].status \in Current, row'[d].phone # None, row'[d].phone = row'[e].phone
        PROVE  d = e
    BY <2>3, <2>5 DEF IInv, UniqueInv
  <2> QED
    BY <2>4, <2>5 DEF UniqueInv
<1>14. ASSUME NEW q \in Requests \ {r} PROVE LooksOn(q, {c, a})
  <2>1. PICK n : n = req[q]
    OBVIOUS
  <2>2. PICK f : f = (n.fresh /\ n.conn \notin {a, c})
    OBVIOUS
  <2>3. n \in ReqRecords
    BY <2>1, Types
  <2>4. f \in BOOLEAN /\ (f => n.fresh /\ n.conn \notin {c, a})
    BY <2>2
  <2>5. req'[q] = [n EXCEPT !.fresh = f]
    BY <1>1, <1>2, <2>1, <2>2 DEF Switch
  <2> QED
    BY <2>1, <2>3, <2>4, <2>5 DEF LooksOn, ReqRecords
<1>15. req'[r] = Idle
  BY DEF Switch
<1>16. req' \in [Requests -> ReqRecords]
  <2>1. \A q \in Requests : req'[q] \in ReqRecords
    BY <1>14, <1>15, IdleIsSound DEF LooksOn
  <2>2. req' = [q \in Requests |-> req'[q]]
    BY DEF Switch
  <2> QED
    BY <2>1, <2>2
<1>17. Sound(req[r])'
  <2>1. StepInv(Idle)'
    BY IdleIsSound DEF StepInv
  <2>2. Sound(Idle)'
    BY <2>1, IdleIsSound DEF Sound
  <2> QED
    BY <1>15, <2>2
<1>18. raced \subseteq raced' /\ raced' \subseteq Conns
  BY <1>3, <1>4, Types
<1>19. {c, a} \in SUBSET Conns /\ \A d \in {c, a} : Written(d)
  BY <1>4, <1>5, <1>11, <1>12
<1> QED
  BY <1>3, <1>10, <1>13, <1>14, <1>16, <1>17, <1>18, <1>19, WriteKeeps

-----------------------------------------------------------------------------
(* The invariant *)

LEMMA InitIInv == Init => IInv
<1> SUFFICES ASSUME Init PROVE IInv
  OBVIOUS
<1>1. Idle \in ReqRecords /\ NoRow \in Rows
  BY DEF Idle, ReqRecords, Operations, Steps, NoRow, Rows
<1>2. \A c \in Conns : row[c] = NoRow
  BY DEF Init
<1>3. TypeOK
  <2>1. row \in [Conns -> Rows] /\ req \in [Requests -> ReqRecords]
    BY <1>1 DEF Init
  <2>2. \A c \in Conns : row[c].status = "PENDING" => row[c].phone = None /\ ~row[c].token
    BY <1>2 DEF NoRow
  <2>3. /\ registered \in [Phones -> [pin : Pins \cup {None}, by : Conns \cup {None}]]
        /\ hooks = {} /\ raced = {} /\ asked \in Scenarios
    BY DEF Init
  <2> QED
    BY <2>1, <2>2, <2>3 DEF TypeOK, ReqRecords
<1>4. UniqueInv
  BY <1>2 DEF UniqueInv, NoRow, Current
<1>5. RowInv
  BY <1>2 DEF RowInv, NoRow, Init
<1>6. ActiveIsReady
  BY <1>2 DEF ActiveIsReady, NoRow
<1>7. PinKept
  BY <1>2 DEF PinKept, NoRow
<1>8. ASSUME NEW r \in Requests PROVE Sound(req[r])
  <2>1. req[r] = Idle
    BY DEF Init
  <2> QED
    BY <2>1 DEF Idle, Sound, StepInv, KnownInv, MetaInv
<1> QED
  BY <1>3, <1>4, <1>5, <1>6, <1>7, <1>8 DEF IInv

LEMMA NextKeepsIInv == IInv /\ [Next]_vars => IInv'
<1> SUFFICES ASSUME IInv, [Next]_vars PROVE IInv'
  OBVIOUS
<1>1. ASSUME NEW r \in Requests, NEW s \in Sellers, NEW p \in Phones, Complete(r, s, p) PROVE IInv'
  BY <1>1, CompleteKeeps
<1>2. ASSUME NEW r \in Requests,
             \/ Fail(r) \/ ReadForCompletion(r) \/ PersistCompletion(r)
             \/ ReadPin(r) \/ StorePin(r) \/ ReadPhone(r) \/ RegisterPhone(r) \/ MarkPhone(r)
             \/ ReadWaba(r) \/ SubscribeWaba(r) \/ MarkWaba(r)
             \/ LoadReady(r) \/ VerifyReadiness(r) \/ ReadForActivation(r)
             \/ Switch(r) \/ Activate(r) \/ RereadDraft(r) \/ SaveAssets(r)
      PROVE  IInv'
  BY <1>2, FailKeeps, ReadForCompletionKeeps, PersistCompletionKeeps, ReadPinKeeps,
     StorePinKeeps, ReadPhoneKeeps, RegisterPhoneKeeps, MarkPhoneKeeps, ReadWabaKeeps,
     SubscribeWabaKeeps, MarkWabaKeeps, LoadReadyKeeps, VerifyReadinessKeeps,
     ReadForActivationKeeps, SwitchKeeps, ActivateKeeps, RereadDraftKeeps, SaveAssetsKeeps
<1>3. ASSUME NEW r \in Requests, NEW c \in Conns,
             Finalize(r, c) \/ FinalizeManual(r, c) \/ ConfigureWebhook(r, c)
      PROVE  IInv'
  BY <1>3, FinalizeKeeps, FinalizeManualKeeps, ConfigureWebhookKeeps
<1>4. ASSUME NEW r \in Requests, NEW c \in Conns, NEW p \in Phones, SelectAssets(r, c, p) PROVE IInv'
  BY <1>4, SelectAssetsKeeps
<1>5. ASSUME NEW c \in Conns, Disconnect(c) PROVE IInv'
  BY <1>5, DisconnectKeeps
<1>6. ASSUME NEW s \in Sellers, NEW k \in Creds, Setup(s, k) PROVE IInv'
  BY <1>6, SetupKeeps
<1>7. ASSUME NEW c \in Conns, NEW k \in Creds, ReplaceCredentials(c, k) PROVE IInv'
  BY <1>7, ReplaceCredentialsKeeps
<1>8. CASE UNCHANGED vars
  <2>1. UNCHANGED <<row, registered, hooks, req, raced, asked>>
    BY <1>8 DEF vars
  <2>2. TypeOK' /\ UniqueInv' /\ RowInv' /\ ActiveIsReady' /\ PinKept'
    BY <2>1 DEF IInv, TypeOK, UniqueInv, RowInv, Exists, ActiveIsReady, PinKept
  <2>3. ASSUME NEW r \in Requests PROVE Sound(req[r])'
    <3>1. Sound(req[r])
      BY DEF IInv
    <3> QED
      BY <2>1, <3>1 DEF Sound, StepInv, KnownInv, MetaInv, Exists, HookOf
  <2> QED
    BY <2>2, <2>3 DEF IInv
<1> QED
  BY <1>1, <1>2, <1>3, <1>4, <1>5, <1>6, <1>7, <1>8 DEF Next

LEMMA IInvHolds == Spec => []IInv
<1>1. Init => IInv
  BY InitIInv
<1>2. IInv /\ [Next]_vars => IInv'
  BY NextKeepsIInv
<1> QED
  BY <1>1, <1>2, PTL DEF Spec

-----------------------------------------------------------------------------
(* What follows *)

\* The variables keep their types, and a draft has neither phone nor token
THEOREM TypeCorrect == Spec => []TypeOK
<1>1. IInv => TypeOK
  BY DEF IInv
<1> QED
  BY <1>1, IInvHolds, PTL

LEMMA AtMostOne ==
    ASSUME NEW S, \A x, y \in S : x = y
    PROVE  Cardinality(S) <= 1
<1>1. CASE S = {}
  BY <1>1, FS_EmptySet
<1>2. CASE S # {}
  <2>1. PICK x \in S : TRUE
    BY <1>2
  <2>2. S = {x}
    BY <2>1
  <2> QED
    BY <2>2, FS_Singleton
<1> QED
  BY <1>1, <1>2

\* One ACTIVE connection of a seller and one holder of a phone number, for any
\* number of connections and requests: the unique indexes of the migrations
THEOREM OneEach == Spec => []OneConnectionEach
<1>1. IInv => OneConnectionEach
  <2> SUFFICES ASSUME IInv PROVE OneConnectionEach
    OBVIOUS
  <2>1. ASSUME NEW s \in Sellers PROVE Cardinality(ActiveOf(s)) <= 1
    <3>1. \A c, d \in ActiveOf(s) : c = d
      BY DEF ActiveOf, IInv, UniqueInv
    <3> QED
      BY <3>1, AtMostOne
  <2>2. ASSUME NEW p \in Phones PROVE Cardinality(HoldersOf(p)) <= 1
    <3>1. \A c, d \in HoldersOf(p) : c = d
      BY Types DEF HoldersOf, IInv, UniqueInv
    <3> QED
      BY <3>1, AtMostOne
  <2> QED
    BY <2>1, <2>2 DEF OneConnectionEach
<1> QED
  BY <1>1, IInvHolds, PTL

\* An ACTIVE connection is registered and subscribed at Meta, unless it is a
\* manual one whose row was written under its finalization
THEOREM Ready == Spec => []ActiveIsReady
<1>1. IInv => ActiveIsReady
  BY DEF IInv
<1> QED
  BY <1>1, IInvHolds, PTL

\* The stored PIN of an embedded connection is the one its phone was registered with
THEOREM Pin == Spec => []PinKept
<1>1. IInv => PinKept
  BY DEF IInv
<1> QED
  BY <1>1, IInvHolds, PTL

LEMMA UpdateLeft ==
    ASSUME IInv, NEW r \in Requests, NEW d \in Conns, NEW new, NEW at, Update(r, d, new, at),
           new.status = row[d].status \/ row[d].status # "ACTIVE" \/ ~req[r].fresh,
           NEW c \in Conns, row[c].status = "ACTIVE", row'[c].status # "ACTIVE"
    PROVE  Leaves(c)
BY Types DEF Update, Leaves

LEMMA ResetLeft ==
    ASSUME IInv, NEW d \in Conns, NEW k, Reset(d, k), row[d].status # "ACTIVE",
           NEW c \in Conns, row[c].status = "ACTIVE"
    PROVE  row'[c].status = "ACTIVE"
BY Types DEF Reset

LEMMA ConnectionLeft ==
    ASSUME IInv, Next, NEW c \in Conns, row[c].status = "ACTIVE", row'[c].status # "ACTIVE"
    PROVE  Leaves(c)
<1>1. row' # row
  OBVIOUS
<1>2. ASSUME NEW r \in Requests, PersistCompletion(r) PROVE Leaves(c)
  <2>1. req[r].op = "complete" /\ req[r].at = "persist" /\ KnownInv(req[r]) /\ req[r] \in ReqRecords
    BY <1>2, Types DEF PersistCompletion, Sound, StepInv
  <2>2. PICK d, new : /\ d \in Conns
                      /\ IF req[r].conn = None THEN Inserts(d) ELSE d = req[r].conn
                      /\ Update(r, d, new, "none")
    BY <1>2 DEF PersistCompletion
  <2>3. row[d].status # "ACTIVE" \/ ~req[r].fresh
    BY <2>1, <2>2 DEF KnownInv, Inserts, NoRow
  <2> QED
    BY <2>2, <2>3, UpdateLeft
<1>3. ASSUME NEW r \in Requests, StorePin(r) PROVE Leaves(c)
  <2>1. PICK d, at, new : /\ d = req[r].conn /\ new = WithPin(d, req[r].pin) /\ Update(r, d, new, at)
    BY <1>3 DEF StorePin
  <2>2. d \in Conns
    BY <1>3, <2>1, Types, RequestFacts DEF StorePin, Sound, StepInv
  <2>3. new.status = row[d].status
    BY <2>1, <2>2, Types DEF WithPin, Rows
  <2> QED
    BY <2>1, <2>2, <2>3, UpdateLeft
<1>4. ASSUME NEW r \in Requests, MarkPhone(r) PROVE Leaves(c)
  <2>1. PICK d, at, new : /\ d = req[r].conn /\ new = [row[d] EXCEPT !.registered = TRUE]
                          /\ Update(r, d, new, at)
    BY <1>4 DEF MarkPhone
  <2>2. d \in Conns
    BY <1>4, <2>1, Types, RequestFacts DEF MarkPhone, Sound, StepInv
  <2>3. new.status = row[d].status
    BY <2>1, <2>2, Types DEF Rows
  <2> QED
    BY <2>1, <2>2, <2>3, UpdateLeft
<1>5. ASSUME NEW r \in Requests, MarkWaba(r) PROVE Leaves(c)
  <2>1. PICK d, at, new : /\ d = req[r].conn /\ new = [row[d] EXCEPT !.subscribed = TRUE]
                          /\ Update(r, d, new, at)
    BY <1>5 DEF MarkWaba
  <2>2. d \in Conns
    BY <1>5, <2>1, Types, RequestFacts DEF MarkWaba, Sound, StepInv
  <2>3. new.status = row[d].status
    BY <2>1, <2>2, Types DEF Rows
  <2> QED
    BY <2>1, <2>2, <2>3, UpdateLeft
<1>6. ASSUME NEW r \in Requests, SaveAssets(r) PROVE Leaves(c)
  <2>1. PICK d, new : d = req[r].conn /\ Update(r, d, new, "none")
    BY <1>6 DEF SaveAssets
  <2>2. d \in Conns /\ KnownInv(req[r]) /\ req[r].at = "saveAssets"
    BY <1>6, <2>1, Types, RequestFacts DEF SaveAssets, Sound, StepInv
  <2>3. row[d].status # "ACTIVE" \/ ~req[r].fresh
    BY <2>1, <2>2, Types DEF KnownInv
  <2> QED
    BY <2>1, <2>2, <2>3, UpdateLeft
<1>7. ASSUME NEW r \in Requests, Activate(r) PROVE Leaves(c)
  <2>1. PICK d, new : /\ d = req[r].conn /\ row[d].status = "VERIFYING" /\ Update(r, d, new, "none")
    BY <1>7 DEF Activate
  <2>2. d \in Conns
    BY <1>7, <2>1, CommitFacts DEF Activate
  <2> QED
    BY <2>1, <2>2, UpdateLeft
<1>8. ASSUME NEW r \in Requests, Switch(r) PROVE Leaves(c)
  <2>1. PICK d, a : /\ d = req[r].conn /\ a = req[r].active /\ a # None /\ a # d
                    /\ row[d].status # "ACTIVE" /\ row[a].status = "ACTIVE"
                    /\ row' = Switched(d, a)
    BY <1>8 DEF Switch, MayReplace
  <2>2. d \in Conns /\ a \in Conns /\ row[d] \in Rows /\ row[a] \in Rows
    BY <1>8, <2>1, CommitFacts, Types DEF Switch, ReqRecords
  <2>3. /\ row'[d].status = "ACTIVE" /\ row'[d].replaces = a /\ row'[a].status = "DISCONNECTED"
        /\ \A e \in Conns \ {d, a} : row'[e] = row[e]
    BY <2>1, <2>2, Types DEF Switched, Rows
  <2>4. c = a
    BY <2>1, <2>3
  <2> QED
    BY <2>1, <2>2, <2>3, <2>4 DEF Leaves
<1>9. ASSUME NEW d \in Conns, Disconnect(d) PROVE Leaves(c)
  BY <1>9, Types DEF Disconnect, Leaves
<1>10. ASSUME NEW s \in Sellers, NEW k \in Creds, Setup(s, k) PROVE FALSE
  <2>1. CASE Drafts(s) # {}
    BY <1>10, <2>1, ResetLeft DEF Setup, Drafts
  <2>2. CASE Drafts(s) = {}
    <3>1. PICK d, new : d \in Conns /\ Inserts(d) /\ row' = [row EXCEPT ![d] = new]
      BY <1>10, <2>2 DEF Setup
    <3>2. row[d].status = "none"
      BY <3>1 DEF Inserts, NoRow
    <3> QED
      BY <3>1, <3>2, Types
  <2> QED
    BY <2>1, <2>2
<1>11. ASSUME NEW d \in Conns, NEW k \in Creds, ReplaceCredentials(d, k) PROVE FALSE
  BY <1>11, ResetLeft DEF ReplaceCredentials
<1>12. ASSUME NEW r \in Requests, Fail(r) PROVE FALSE
  BY <1>1, <1>12 DEF Fail, Reads
<1>13. ASSUME NEW r \in Requests,
              \/ ReadForCompletion(r) \/ ReadPin(r) \/ ReadPhone(r) \/ RegisterPhone(r)
              \/ ReadWaba(r) \/ SubscribeWaba(r) \/ LoadReady(r) \/ VerifyReadiness(r)
              \/ ReadForActivation(r) \/ RereadDraft(r)
       PROVE  FALSE
  BY <1>1, <1>13 DEF ReadForCompletion, ReadPin, ReadPhone, RegisterPhone, ReadWaba,
     SubscribeWaba, LoadReady, VerifyReadiness, ReadForActivation, RereadDraft, Reads
<1>14. ASSUME NEW r \in Requests, NEW d \in Conns,
              Finalize(r, d) \/ FinalizeManual(r, d) \/ ConfigureWebhook(r, d)
       PROVE  FALSE
  BY <1>1, <1>14 DEF Finalize, FinalizeManual, ConfigureWebhook, Reads
<1>15. ASSUME NEW r \in Requests, NEW s \in Sellers, NEW p \in Phones, Complete(r, s, p) PROVE FALSE
  BY <1>1, <1>15 DEF Complete, Reads
<1>16. ASSUME NEW r \in Requests, NEW d \in Conns, NEW p \in Phones, SelectAssets(r, d, p) PROVE FALSE
  BY <1>1, <1>16 DEF SelectAssets, Reads
<1> QED
  BY <1>2, <1>3, <1>4, <1>5, <1>6, <1>7, <1>8, <1>9, <1>10, <1>11, <1>12, <1>13, <1>14,
     <1>15, <1>16 DEF Next

\* An ACTIVE connection is left by the seller's disconnect, by its replacement
\* in the same step, or by a request under which the row had changed
THEOREM ActiveLeft == Spec => ActiveLeftOnlyBy
<1>1. IInv /\ [Next]_vars => [LeftOnlyBy]_vars
  <2>1. ASSUME IInv, Next, NEW c \in Conns PROVE Leaves(c)
    BY <2>1, ConnectionLeft DEF Leaves
  <2> QED
    BY <2>1 DEF LeftOnlyBy
<1> QED
  BY <1>1, IInvHolds, PTL DEF Spec, ActiveLeftOnlyBy

-----------------------------------------------------------------------------
(* Why the assets of a manual connection may not be those of its token *)

\* A phone that may be stored is one that the stored token may manage
RowAssets(c) ==
    row[c].manual /\ row[c].phone # None /\ c \notin raced => row[c].phone \in Reach[row[c].cred]

ChosenAssets(n) == n.op = "select" /\ n.fresh => n.phone \in Reach[row[n.conn].cred]

AssetsInv ==
    /\ \A c \in Conns : RowAssets(c)
    /\ \A r \in Requests : ChosenAssets(req[r])

\* A step that writes no row, of request r
LEMMA ReadKeepsAssets ==
    ASSUME IInv, AssetsInv, NEW r \in Requests, UNCHANGED <<row, raced>>,
           \A q \in Requests \ {r} : req'[q] = req[q],
           ChosenAssets(req'[r])
    PROVE  AssetsInv'
<1>1. \A c \in Conns : RowAssets(c)'
  BY DEF AssetsInv, RowAssets
<1>2. ASSUME NEW q \in Requests PROVE ChosenAssets(req[q])'
  <2>1. CASE q = r
    BY <2>1 DEF ChosenAssets
  <2>2. CASE q # r
    BY <2>2 DEF AssetsInv, ChosenAssets
  <2> QED
    BY <2>1, <2>2
<1> QED
  BY <1>1, <1>2 DEF AssetsInv

\* A step that writes the rows W, of request r or of none that goes on choosing
LEMMA WriteKeepsAssets ==
    ASSUME IInv, AssetsInv, NEW W \in SUBSET Conns, NEW r,
           \A c \in Conns \ W : row'[c] = row[c], \A c \in W : RowAssets(c)',
           raced \subseteq raced', \A q \in Requests \ {r} : LooksOn(q, W),
           r \in Requests => req'[r].op # "select"
    PROVE  AssetsInv'
<1>1. ASSUME NEW c \in Conns PROVE RowAssets(c)'
  <2>1. CASE c \in W
    BY <2>1
  <2>2. CASE c \notin W
    BY <2>2 DEF AssetsInv, RowAssets
  <2> QED
    BY <2>1, <2>2
<1>2. ASSUME NEW q \in Requests PROVE ChosenAssets(req[q])'
  <2>1. CASE q = r
    BY <2>1 DEF ChosenAssets
  <2>2. CASE q # r
    <3>1. SUFFICES ASSUME req'[q].op = "select", req'[q].fresh
                   PROVE  req'[q].phone \in Reach[row'[req'[q].conn].cred]
      BY DEF ChosenAssets
    <3>2. /\ LooksOn(q, W) /\ req[q].op = "select" /\ req[q].fresh
          /\ req'[q].phone = req[q].phone /\ req'[q].conn = req[q].conn
      BY <2>2, <3>1 DEF LooksOn
    <3>3. req[q].conn \in Conns /\ Exists(req[q].conn)
      BY <3>2, RequestFacts
    <3>4. row'[req[q].conn] = row[req[q].conn]
      BY <3>1, <3>2, <3>3 DEF LooksOn
    <3> QED
      BY <3>2, <3>4 DEF AssetsInv, ChosenAssets
  <2> QED
    BY <2>1, <2>2
<1> QED
  BY <1>1, <1>2 DEF AssetsInv

LEMMA UpdateKeepsAssets ==
    ASSUME IInv, AssetsInv, NEW r \in Requests, NEW c \in Conns, NEW new \in Rows, NEW at \in Steps,
           Update(r, c, new, at), at # "none" => req[r].op # "select",
           new.manual /\ new.phone # None /\ c \notin raced /\ req[r].fresh =>
              new.phone \in Reach[new.cred]
    PROVE  AssetsInv'
<1>1. row'[c] = new /\ \A d \in Conns \ {c} : row'[d] = row[d]
  BY Types DEF Update
<1>2. c \notin raced' => c \notin raced /\ req[r].fresh
  BY DEF Update
<1>3. RowAssets(c)'
  BY <1>1, <1>2 DEF RowAssets
<1>4. ASSUME NEW q \in Requests \ {r} PROVE LooksOn(q, {c})
  <2>1. req'[q] = Touched(c, r)[q]
    BY DEF Update, Touched
  <2> QED
    BY <2>1, TouchedLooksOn
<1>5. req'[r].op # "select"
  <2>1. PICK m : m = Touched(c, r)[r]
    OBVIOUS
  <2>2. PICK f : m = [req[r] EXCEPT !.fresh = f]
    BY <2>1 DEF Touched
  <2>3. m.op = req[r].op
    BY <2>2, Types DEF ReqRecords
  <2>4. req'[r] = IF at = "none" THEN Idle ELSE [m EXCEPT !.at = at]
    <3>1. Touched(c, r) = [q \in Requests |-> Touched(c, r)[q]]
      BY DEF Touched
    <3> QED
      BY <2>1, <3>1 DEF Update
  <2>5. CASE at = "none"
    BY <2>4, <2>5 DEF Idle
  <2>6. CASE at # "none"
    <3>1. req'[r].op = m.op
      BY <2>2, <2>4, <2>6, Types DEF ReqRecords
    <3> QED
      BY <2>3, <2>6, <3>1
  <2> QED
    BY <2>5, <2>6
<1>6. raced \subseteq raced'
  BY DEF Update
<1>7. {c} \in SUBSET Conns /\ \A d \in {c} : RowAssets(d)'
  BY <1>3
<1> QED
  BY <1>1, <1>4, <1>5, <1>6, <1>7, WriteKeepsAssets

\* A write that leaves phone and credentials as they are
LEMMA ProgressKeepsAssets ==
    ASSUME IInv, AssetsInv, NEW r \in Requests, NEW c \in Conns, NEW new \in Rows, NEW at \in Steps,
           Update(r, c, new, at), at # "none" => req[r].op # "select", KeptFields(new, row[c])
    PROVE  AssetsInv'
<1>1. new.manual /\ new.phone # None /\ c \notin raced => new.phone \in Reach[new.cred]
  BY DEF AssetsInv, RowAssets, KeptFields
<1> QED
  BY <1>1, UpdateKeepsAssets

\* A step that goes on with a request that chooses no assets
LEMMA GoKeepsAssets ==
    ASSUME IInv, AssetsInv, NEW r \in Requests, NEW at \in Steps, Go(r, at), Reads(r)
    PROVE  AssetsInv'
<1>1. PICK n : n = [req[r] EXCEPT !.at = at]
  OBVIOUS
<1>2. FieldsButAt(n, req[r])
  BY <1>1, AtOf
<1>3. ChosenAssets(n)
  BY <1>2 DEF ChosenAssets, AssetsInv, FieldsButAt
<1>4. req'[r] = n /\ \A q \in Requests \ {r} : req'[q] = req[q]
  BY <1>1, Types DEF Go
<1> QED
  BY <1>3, <1>4, ReadKeepsAssets DEF Reads

LEMMA BeginKeepsAssets ==
    ASSUME IInv, AssetsInv, NEW r \in Requests, NEW n, Begin(r, n), Reads(r), ChosenAssets(n)
    PROVE  AssetsInv'
<1>1. req'[r] = n /\ \A q \in Requests \ {r} : req'[q] = req[q]
  BY Types DEF Begin
<1> QED
  BY <1>1, ReadKeepsAssets DEF Reads

LEMMA BeginsKeepAssets ==
    ASSUME IInv, AssetsInv, NEW r \in Requests,
           \/ \E s \in Sellers, p \in Phones : Complete(r, s, p)
           \/ \E c \in Conns : Finalize(r, c) \/ FinalizeManual(r, c) \/ ConfigureWebhook(r, c)
           \/ \E c \in Conns, p \in Phones : SelectAssets(r, c, p)
    PROVE  AssetsInv'
<1>1. ASSUME NEW s \in Sellers, NEW p \in Phones, Complete(r, s, p)
      PROVE  AssetsInv'
  <2>1. PICK n : n = [Idle EXCEPT !.op = "complete", !.at = "exchange", !.seller = s, !.phone = p]
    OBVIOUS
  <2>2. n.op = "complete"
    BY <2>1 DEF Idle
  <2> QED
    BY <1>1, <2>1, <2>2, BeginKeepsAssets DEF Complete, ChosenAssets
<1>2. ASSUME NEW c \in Conns, Finalize(r, c)
      PROVE  AssetsInv'
  <2>1. PICK at : at = IF row[c].registered THEN AfterRegistration(c) ELSE "pin"
    OBVIOUS
  <2>2. PICK n : n = [Idle EXCEPT !.op = "finalize", !.conn = c, !.phone = row[c].phone, !.at = at]
    OBVIOUS
  <2>3. n.op = "finalize"
    BY <2>2 DEF Idle
  <2> QED
    BY <1>2, <2>1, <2>2, <2>3, BeginKeepsAssets DEF Finalize, ChosenAssets
<1>3. ASSUME NEW c \in Conns, FinalizeManual(r, c)
      PROVE  AssetsInv'
  <2>1. PICK n : n = [Idle EXCEPT !.op = "manual", !.conn = c, !.phone = row[c].phone, !.at = "readPhone"]
    OBVIOUS
  <2>2. n.op = "manual"
    BY <2>1 DEF Idle
  <2> QED
    BY <1>3, <2>1, <2>2, BeginKeepsAssets DEF FinalizeManual, ChosenAssets
<1>4. ASSUME NEW c \in Conns, ConfigureWebhook(r, c)
      PROVE  AssetsInv'
  <2>1. PICK n : n = [Idle EXCEPT !.op = "configure", !.at = "readWaba", !.conn = c,
                                  !.phone = row[c].phone]
    OBVIOUS
  <2>2. n.op = "configure"
    BY <2>1 DEF Idle
  <2> QED
    BY <1>4, <2>1, <2>2, BeginKeepsAssets DEF ConfigureWebhook, ChosenAssets
<1>5. ASSUME NEW c \in Conns, NEW p \in Phones, SelectAssets(r, c, p)
      PROVE  AssetsInv'
  <2>1. PICK n : n = [Idle EXCEPT !.op = "select", !.at = "select", !.conn = c, !.phone = p]
    OBVIOUS
  <2>2. n.conn = c /\ n.phone = p
    BY <2>1 DEF Idle
  <2>3. ChosenAssets(n)
    BY <1>5, <2>2 DEF SelectAssets, ChosenAssets
  <2> QED
    BY <1>5, <2>1, <2>3, BeginKeepsAssets DEF SelectAssets
<1> QED
  BY <1>1, <1>2, <1>3, <1>4, <1>5

\* The reads of a request that keep its operation
LEMMA ReadsKeepAssets ==
    ASSUME IInv, AssetsInv, NEW r \in Requests,
           \/ Fail(r) \/ ReadForCompletion(r) \/ ReadPin(r) \/ ReadPhone(r) \/ RegisterPhone(r)
           \/ ReadWaba(r) \/ SubscribeWaba(r) \/ LoadReady(r) \/ VerifyReadiness(r)
           \/ ReadForActivation(r) \/ RereadDraft(r)
    PROVE  AssetsInv'
<1>1. PICK m : m = req[r]
  OBVIOUS
<1>2. m \in ReqRecords /\ StepInv(m)
  BY <1>1, Types DEF Sound
<1>3. ASSUME NEW n, req' = [req EXCEPT ![r] = n], Reads(r), n.op # "select" PROVE AssetsInv'
  <2>1. req'[r] = n /\ \A q \in Requests \ {r} : req'[q] = req[q]
    BY <1>3, Types
  <2> QED
    BY <1>3, <2>1, ReadKeepsAssets DEF Reads, ChosenAssets
<1>4. CASE Fail(r)
  <2>1. Idle.op # "select"
    BY DEF Idle
  <2> QED
    BY <1>3, <1>4, <2>1 DEF Fail
<1>5. CASE ReadForCompletion(r)
  <2>1. PICK a, c : req' = [req EXCEPT ![r].at = "persist", ![r].active = a, ![r].conn = c]
    BY <1>5 DEF ReadForCompletion
  <2>2. PICK n : n = [m EXCEPT !.at = "persist", !.active = a, !.conn = c]
    OBVIOUS
  <2>3. n.op # "select" /\ req' = [req EXCEPT ![r] = n]
    BY <1>1, <1>2, <1>5, <2>1, <2>2 DEF ReqRecords, StepInv, ReadForCompletion
  <2> QED
    BY <1>3, <1>5, <2>3 DEF ReadForCompletion
<1>6. CASE ReadPin(r)
  <2>1. PICK p, at : req' = [req EXCEPT ![r].pin = p, ![r].at = at]
    BY <1>6 DEF ReadPin, PinKnown
  <2>2. PICK n : n = [m EXCEPT !.pin = p, !.at = at]
    OBVIOUS
  <2>3. n.op # "select" /\ req' = [req EXCEPT ![r] = n]
    BY <1>1, <1>2, <1>6, <2>1, <2>2 DEF ReqRecords, StepInv, ReadPin
  <2> QED
    BY <1>3, <1>6, <2>3 DEF ReadPin
<1>7. CASE LoadReady(r)
  <2>1. PICK n : n = [m EXCEPT !.at = "verify", !.phone = row[m.conn].phone, !.fresh = TRUE]
    OBVIOUS
  <2>2. n.op # "select"
    BY <1>1, <1>2, <1>7, <2>1 DEF ReqRecords, StepInv, LoadReady
  <2>3. req' = [req EXCEPT ![r] = n]
    BY <1>1, <1>7, <2>1 DEF LoadReady
  <2> QED
    BY <1>3, <1>7, <2>2, <2>3 DEF LoadReady
<1>8. CASE ReadForActivation(r)
  <2>1. PICK a : req' = [req EXCEPT ![r].at = "commit", ![r].active = a]
    BY <1>8 DEF ReadForActivation
  <2>2. PICK n : n = [m EXCEPT !.at = "commit", !.active = a]
    OBVIOUS
  <2>3. n.op # "select" /\ req' = [req EXCEPT ![r] = n]
    BY <1>1, <1>2, <1>8, <2>1, <2>2 DEF ReqRecords, StepInv, ReadForActivation
  <2> QED
    BY <1>3, <1>8, <2>3 DEF ReadForActivation
<1>9. CASE \/ ReadPhone(r) \/ RegisterPhone(r) \/ ReadWaba(r) \/ SubscribeWaba(r)
           \/ VerifyReadiness(r) \/ RereadDraft(r)
  <2>1. PICK at \in Steps : Go(r, at) /\ Reads(r)
    BY <1>9 DEF ReadPhone, RegisterPhone, ReadWaba, SubscribeWaba, VerifyReadiness, RereadDraft, Steps
  <2> QED
    BY <2>1, GoKeepsAssets
<1> QED
  BY <1>4, <1>5, <1>6, <1>7, <1>8, <1>9

\* The writes of a finalization keep phone and credentials
LEMMA FinalizationKeepsAssets ==
    ASSUME IInv, AssetsInv, NEW r \in Requests,
           StorePin(r) \/ MarkPhone(r) \/ MarkWaba(r) \/ Activate(r)
    PROVE  AssetsInv'
<1>1. /\ req[r].op \in {"finalize", "manual", "configure"}
      /\ StepInv(req[r])
  BY Types DEF StorePin, MarkPhone, MarkWaba, Activate, Sound, StepInv
<1>2. PICK c : c = req[r].conn
  OBVIOUS
<1>3. c \in Conns /\ row[c] \in Rows
  BY <1>1, <1>2, RequestFacts, Types
<1>4. PICK new, at :
        /\ Update(r, c, new, at)
        /\ \/ new = WithPin(c, req[r].pin) /\ req[r].pin \in Pins
           \/ new = [row[c] EXCEPT !.registered = TRUE]
           \/ new = [row[c] EXCEPT !.subscribed = TRUE]
           \/ new = [row[c] EXCEPT !.status = "ACTIVE"]
        /\ at \in Steps
  <2>1. ASSUME StorePin(r) PROVE req[r].pin \in Pins
    BY <1>1, <2>1, RequestFacts DEF StorePin, MetaInv
  <2> QED
    BY <1>2, <2>1 DEF StorePin, MarkPhone, MarkWaba, Activate, Steps, AfterRegistration
<1>5. new \in Rows /\ KeptFields(new, row[c])
  BY <1>3, <1>4 DEF WithPin, Rows, KeptFields, Current
<1> QED
  BY <1>1, <1>3, <1>4, <1>5, ProgressKeepsAssets

\* A completion gives a row the phone that it had, if it was not overtaken
LEMMA PersistCompletionKeepsAssets ==
    ASSUME IInv, AssetsInv, NEW r \in Requests, PersistCompletion(r)
    PROVE  AssetsInv'
<1>1. PICK m : m = req[r]
  OBVIOUS
<1>2. /\ m \in ReqRecords /\ m.op = "complete" /\ m.phone \in Phones /\ m.seller \in Sellers
      /\ KnownInv(m)
  BY <1>1, Types DEF PersistCompletion, Sound, StepInv
<1>3. PICK c, new :
        /\ c \in Conns
        /\ IF m.conn = None THEN Inserts(c) ELSE c = m.conn
        /\ Update(r, c, new, "none")
        /\ \/ new = [Candidate(r, c) EXCEPT !.status = "REPLACEMENT_PENDING", !.replaces = m.active]
           \/ new = [Candidate(r, c) EXCEPT !.status = "VERIFYING"]
  BY <1>1 DEF PersistCompletion
<1>4. PICK old : old = Candidate(r, c)
  OBVIOUS
<1>5. /\ old \in Rows /\ old.phone = m.phone /\ old.cred = row[c].cred /\ old.manual = row[c].manual
  <2>1. PICK was : was = row[c]
    OBVIOUS
  <2>2. was \in Rows
    BY <2>1, <1>3, Types
  <2>3. old = [was EXCEPT !.seller = m.seller, !.phone = m.phone, !.token = TRUE]
    BY <1>1, <1>4, <2>1 DEF Candidate
  <2> QED
    BY <1>2, <2>1, <2>2, <2>3 DEF Rows
<1>6. /\ new \in Rows /\ new.phone = m.phone /\ new.cred = row[c].cred
      /\ new.manual = row[c].manual
  BY <1>2, <1>3, <1>4, <1>5 DEF Rows, ReqRecords, Current
<1>7. row[c].manual => m.conn = c
  BY <1>3 DEF Inserts, NoRow
<1>8. row[c].manual /\ m.fresh => row[c].phone = m.phone
  BY <1>2, <1>3, <1>7, Types DEF KnownInv
<1>9. new.manual /\ new.phone # None /\ c \notin raced /\ m.fresh => new.phone \in Reach[new.cred]
  BY <1>3, <1>6, <1>8 DEF AssetsInv, RowAssets
<1> QED
  BY <1>1, <1>3, <1>6, <1>9, UpdateKeepsAssets DEF Steps

\* The choice of assets stores what it was shown, if it was not overtaken
LEMMA SaveAssetsKeepsAssets ==
    ASSUME IInv, AssetsInv, NEW r \in Requests, SaveAssets(r)
    PROVE  AssetsInv'
<1>1. PICK c : c = req[r].conn
  OBVIOUS
<1>2. /\ req[r].op = "select" /\ c \in Conns /\ req[r].phone \in Phones /\ row[c] \in Rows
  BY <1>1, Types, RequestFacts DEF SaveAssets, Sound, StepInv
<1>3. PICK new : new = [row[c] EXCEPT !.phone = req[r].phone, !.status = "VERIFYING"]
  OBVIOUS
<1>4. new \in Rows /\ new.phone = req[r].phone /\ new.cred = row[c].cred
  BY <1>2, <1>3 DEF Rows, Current
<1>5. Update(r, c, new, "none")
  BY <1>1, <1>3 DEF SaveAssets
<1>6. req[r].fresh => new.phone \in Reach[new.cred]
  BY <1>1, <1>2, <1>4 DEF AssetsInv, ChosenAssets
<1> QED
  BY <1>2, <1>4, <1>5, <1>6, UpdateKeepsAssets DEF Steps

\* The writes of no request: a new draft, new credentials, a disconnect
LEMMA WritesKeepAssets ==
    ASSUME IInv, AssetsInv,
           \/ \E c \in Conns : Disconnect(c)
           \/ \E s \in Sellers, k \in Creds : Setup(s, k)
           \/ \E c \in Conns, k \in Creds : ReplaceCredentials(c, k)
    PROVE  AssetsInv'
<1>1. ASSUME NEW d \in Conns, \A e \in Conns \ {d} : row'[e] = row[e], RowAssets(d)',
             raced' = raced, \A q \in Requests \ {None} : LooksOn(q, {d})
      PROVE  AssetsInv'
  <2>1. {d} \in SUBSET Conns /\ raced \subseteq raced' /\ None \notin Requests
        /\ \A e \in {d} : RowAssets(e)'
    BY <1>1, Types
  <2> QED
    BY <1>1, <2>1, WriteKeepsAssets
<1>2. ASSUME NEW d \in Conns, NEW k \in Creds, Reset(d, k) PROVE AssetsInv'
  <2>1. \A q \in Requests \ {None} : LooksOn(q, {d})
    BY <1>2, TouchedLooksOn DEF Reset
  <2>2. row'[d].phone = None /\ \A e \in Conns \ {d} : row'[e] = row[e]
    BY <1>2, Types DEF Reset, ResetRow, Rows
  <2> QED
    BY <1>1, <1>2, <2>1, <2>2 DEF Reset, RowAssets
<1>3. ASSUME NEW c \in Conns, Disconnect(c) PROVE AssetsInv'
  <2>1. \A q \in Requests \ {None} : LooksOn(q, {c})
    BY <1>3, TouchedLooksOn DEF Disconnect
  <2>2. /\ row'[c].manual = row[c].manual /\ row'[c].phone = row[c].phone /\ row'[c].cred = row[c].cred
        /\ \A e \in Conns \ {c} : row'[e] = row[e]
    BY <1>3, Types DEF Disconnect, Rows
  <2>3. RowAssets(c)'
    BY <1>3, <2>2 DEF AssetsInv, RowAssets, Disconnect
  <2> QED
    BY <1>1, <1>3, <2>1, <2>2, <2>3 DEF Disconnect
<1>4. ASSUME NEW s \in Sellers, NEW k \in Creds, Setup(s, k) PROVE AssetsInv'
  <2>1. CASE Drafts(s) # {}
    BY <1>2, <1>4, <2>1 DEF Setup, Drafts
  <2>2. CASE Drafts(s) = {}
    <3>1. PICK d, new :
            /\ d \in Conns /\ Inserts(d)
            /\ new = [NoRow EXCEPT !.status = "PENDING", !.seller = s, !.manual = TRUE, !.cred = k]
            /\ row' = [row EXCEPT ![d] = new]
            /\ UNCHANGED <<req, raced>>
      BY <1>4, <2>2 DEF Setup
    <3>2. new.phone = None /\ ~Exists(d)
      BY <3>1 DEF NoRow, Inserts, Exists
    <3>3. row'[d].phone = None /\ \A e \in Conns \ {d} : row'[e] = row[e]
      BY <3>1, <3>2, Types
    <3>4. \A q \in Requests : LooksOn(q, {d})
      BY <3>1, <3>2, Types DEF LooksOn
    <3> QED
      BY <1>1, <3>1, <3>3, <3>4 DEF RowAssets
  <2> QED
    BY <2>1, <2>2
<1>5. ASSUME NEW c \in Conns, NEW k \in Creds, ReplaceCredentials(c, k) PROVE AssetsInv'
  BY <1>2, <1>5 DEF ReplaceCredentials
<1> QED
  BY <1>3, <1>4, <1>5

LEMMA SwitchKeepsAssets ==
    ASSUME IInv, AssetsInv, NEW r \in Requests, Switch(r)
    PROVE  AssetsInv'
<1>1. PICK c : c = req[r].conn
  OBVIOUS
<1>2. PICK a : a = req[r].active
  OBVIOUS
<1>3. /\ req[r].at = "commit" /\ a # None /\ a # c /\ row[a].status = "ACTIVE"
      /\ row' = Switched(c, a) /\ raced \subseteq raced'
  BY <1>1, <1>2 DEF Switch
<1>4. c \in Conns /\ row[c] \in Rows
  BY <1>1, <1>3, CommitFacts
<1>5. a \in Conns /\ row[a] \in Rows
  BY <1>2, <1>3, Types DEF ReqRecords
<1>6. PICK on, off : /\ on = [row[c] EXCEPT !.status = "ACTIVE", !.replaces = a]
                     /\ off = [row[a] EXCEPT !.status = "DISCONNECTED"]
  OBVIOUS
<1>7. KeptFields(on, row[c]) /\ KeptFields(off, row[a])
  BY <1>4, <1>5, <1>6 DEF Rows, KeptFields
<1>8. row' = [row EXCEPT ![c] = on, ![a] = off]
  BY <1>3, <1>4, <1>5, <1>6, Types DEF Switched
<1>9. row'[c] = on /\ row'[a] = off /\ \A d \in Conns \ {c, a} : row'[d] = row[d]
  BY <1>3, <1>4, <1>5, <1>8, Types
<1>10. \A d \in {c, a} : RowAssets(d)'
  BY <1>3, <1>4, <1>5, <1>7, <1>9 DEF AssetsInv, RowAssets, KeptFields
<1>11. ASSUME NEW q \in Requests \ {r} PROVE LooksOn(q, {c, a})
  <2>1. PICK n : n = req[q]
    OBVIOUS
  <2>2. PICK f : f = (n.fresh /\ n.conn \notin {a, c})
    OBVIOUS
  <2>3. n \in ReqRecords
    BY <2>1, Types
  <2>4. f \in BOOLEAN /\ (f => n.fresh /\ n.conn \notin {c, a})
    BY <2>2
  <2>5. req'[q] = [n EXCEPT !.fresh = f]
    BY <1>1, <1>2, <2>1, <2>2 DEF Switch
  <2> QED
    BY <2>1, <2>3, <2>4, <2>5 DEF LooksOn, ReqRecords
<1>12. req'[r].op # "select"
  BY DEF Switch, Idle
<1>13. {c, a} \in SUBSET Conns
  BY <1>4, <1>5
<1> QED
  BY <1>3, <1>9, <1>10, <1>11, <1>12, <1>13, WriteKeepsAssets

LEMMA NextKeepsAssets == IInv /\ AssetsInv /\ [Next]_vars => AssetsInv'
<1> SUFFICES ASSUME IInv, AssetsInv, [Next]_vars PROVE AssetsInv'
  OBVIOUS
<1>1. ASSUME NEW r \in Requests,
             \/ \E s \in Sellers, p \in Phones : Complete(r, s, p)
             \/ \E c \in Conns : Finalize(r, c) \/ FinalizeManual(r, c) \/ ConfigureWebhook(r, c)
             \/ \E c \in Conns, p \in Phones : SelectAssets(r, c, p)
      PROVE  AssetsInv'
  BY <1>1, BeginsKeepAssets
<1>2. ASSUME NEW r \in Requests,
             \/ Fail(r) \/ ReadForCompletion(r) \/ ReadPin(r) \/ ReadPhone(r) \/ RegisterPhone(r)
             \/ ReadWaba(r) \/ SubscribeWaba(r) \/ LoadReady(r) \/ VerifyReadiness(r)
             \/ ReadForActivation(r) \/ RereadDraft(r)
      PROVE  AssetsInv'
  BY <1>2, ReadsKeepAssets
<1>3. ASSUME NEW r \in Requests, StorePin(r) \/ MarkPhone(r) \/ MarkWaba(r) \/ Activate(r)
      PROVE  AssetsInv'
  BY <1>3, FinalizationKeepsAssets
<1>4. ASSUME NEW r \in Requests, PersistCompletion(r) \/ SaveAssets(r) \/ Switch(r)
      PROVE  AssetsInv'
  BY <1>4, PersistCompletionKeepsAssets, SaveAssetsKeepsAssets, SwitchKeepsAssets
<1>5. ASSUME \/ \E c \in Conns : Disconnect(c)
             \/ \E s \in Sellers, k \in Creds : Setup(s, k)
             \/ \E c \in Conns, k \in Creds : ReplaceCredentials(c, k)
      PROVE  AssetsInv'
  BY <1>5, WritesKeepAssets
<1>6. CASE UNCHANGED vars
  BY <1>6 DEF vars, AssetsInv, RowAssets, ChosenAssets
<1> QED
  BY <1>1, <1>2, <1>3, <1>4, <1>5, <1>6 DEF Next

\* The phone of a manual connection is one that its stored token may manage,
\* unless a request wrote the row although another one had changed it since the
\* request read it: with any number of overlapping requests this is the only
\* way to a phone of other credentials.
THEOREM AssetsUnraced == Spec => [](\A c \in Conns : RowAssets(c))
<1>1. Init => AssetsInv
  BY DEF Init, AssetsInv, RowAssets, ChosenAssets, NoRow, Idle
<1>2. IInv /\ AssetsInv /\ [Next]_vars => AssetsInv'
  BY NextKeepsAssets
<1>3. AssetsInv => \A c \in Conns : RowAssets(c)
  BY DEF AssetsInv
<1> QED
  BY <1>1, <1>2, <1>3, IInvHolds, PTL DEF Spec
=============================================================================
