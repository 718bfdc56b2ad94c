------------------------ MODULE OrderingExpiry_proofs ------------------------
(***************************************************************************)
(* OrderingExpiry for any messages, slots and times to live: the lease     *)
(* never outlives the counter that fences it, and until a key other than   *)
(* the lease runs out the timed keys implement the untimed ones.           *)
(* LeaseOutlivedByExpected is not inductive: that a key is stored says     *)
(* nothing of its life until LivesMatch ties the two, and the set of       *)
(* finished turns must not outlive the counter either.                     *)
(***************************************************************************)
EXTENDS OrderingExpiry, TLAPS

\* A key is stored exactly while it has ticks left
LivesMatch ==
    /\ ttlLease # NoLease <=> life["lease"] > 0
    /\ ttlExpected # 0 <=> life["expected"] > 0
    /\ ttlCompleted # {} <=> life["completed"] > 0
    /\ life["completed"] <= life["expected"]

ExpiryInv == TtlTypeOK /\ LivesMatch /\ LeaseOutlivedByExpected

LEMMA KeysDistinct ==
    /\ KeyLife \in Nat /\ LeaseLife \in Nat /\ 0 < LeaseLife /\ LeaseLife <= KeyLife
    /\ Single \subseteq Keys /\ Messages \subseteq Keys
    /\ \A m \in Messages : m \notin Single
BY KeyLifeAssumption DEF Keys

LEMMA NoLeaseIsNone ==
    ASSUME NEW s \in Slots, NEW t \in Nat
    PROVE  [token |-> s, turn |-> t] # NoLease
BY NoLeaseAssumption

LEMMA InitExpiryInv == TtlInit => ExpiryInv
<1> SUFFICES ASSUME TtlInit PROVE ExpiryInv
  OBVIOUS
<1> USE DEF TtlInit, Stored!Init, Stored!TurnKeysInit
<1>1. \A k \in Keys : life[k] = 0
  OBVIOUS
<1>2. /\ life["lease"] = 0 /\ life["expected"] = 0 /\ life["completed"] = 0
  BY <1>1, KeysDistinct DEF Single
<1>3. TtlTypeOK
  BY <1>2, KeysDistinct DEF TtlTypeOK, Stored!TurnKeysType
<1> QED
  BY <1>2, <1>3 DEF ExpiryInv, LivesMatch, LeaseOutlivedByExpected

-----------------------------------------------------------------------------
(* What the scripts leave of the keys' lives *)

\* EXPIRE gives a key a full life or none
LEMMA RefreshLives ==
    ASSUME ExpiryInv, NEW ks
    PROVE  /\ Refresh(ks) \in [Keys -> 0..KeyLife]
           /\ \A k \in Keys : Refresh(ks)[k] > 0 <=> life[k] > 0
           /\ \A k \in Keys : Refresh(ks)[k] = IF k \in ks /\ life[k] > 0 THEN KeyLife ELSE life[k]
BY KeysDistinct DEF ExpiryInv, TtlTypeOK, Refresh

\* Claiming and renewing
LEMMA LeasedLives ==
    ASSUME ExpiryInv
    PROVE  /\ Leased \in [Keys -> 0..KeyLife]
           /\ Leased["lease"] = LeaseLife
           /\ Leased["expected"] = IF life["expected"] > 0 THEN KeyLife ELSE 0
           /\ Leased["completed"] = IF life["completed"] > 0 THEN KeyLife ELSE 0
<1> DEFINE f == Refresh({"expected", "completed"})
<1>1. /\ f \in [Keys -> 0..KeyLife]
      /\ \A k \in Keys : f[k] = IF k \in {"expected", "completed"} /\ life[k] > 0 THEN KeyLife ELSE life[k]
  BY RefreshLives
<1>2. life \in [Keys -> 0..KeyLife]
  BY DEF ExpiryInv, TtlTypeOK
<1>3. Leased = [f EXCEPT !["lease"] = LeaseLife]
  BY DEF Leased
<1>4. "lease" \in Keys /\ "expected" \in Keys /\ "completed" \in Keys
  BY KeysDistinct DEF Single
<1> HIDE DEF f
<1> QED
  BY <1>1, <1>2, <1>3, <1>4, KeysDistinct

-----------------------------------------------------------------------------
(* The steps *)

LEMMA ReserveKeeps ==
    ASSUME ExpiryInv, NEW m \in Messages, TtlReserve(m)
    PROVE  ExpiryInv'
<1> USE DEF ExpiryInv
<1>1. /\ "lease" \in Keys /\ "expected" \in Keys /\ "completed" \in Keys /\ m \in Keys
      /\ m # "lease" /\ m # "completed"
  BY KeysDistinct DEF Single
<1>2. /\ ttlSeq \in Nat /\ ttlMsg \in [Messages -> Nat] /\ ttlExpected \in Nat
      /\ life \in [Keys -> 0..KeyLife] /\ job \in [Messages -> Nat]
  BY DEF TtlTypeOK, Stored!TurnKeysType
<1>3. /\ UNCHANGED <<ttlLease, ttlCompleted, ttlClaim>>
      /\ ttlSeq' \in Nat /\ ttlMsg' \in [Messages -> Nat] /\ Stored!ReservedTurn(m) \in Nat
      /\ ttlExpected' \in {ttlExpected, Stored!ExpectedTurn} /\ ttlExpected' \in Nat
      /\ ttlMsg[m] # 0 => ttlExpected' = ttlExpected
      /\ ttlMsg[m] = 0 => ttlExpected' = Stored!ExpectedTurn /\ ttlExpected' # 0
  BY <1>2 DEF TtlReserve, Stored!Reserve, Stored!ReserveScript, Stored!ReservedTurn, Stored!ExpectedTurn
<1>4. /\ life' \in [Keys -> 0..KeyLife]
      /\ life'["lease"] = life["lease"] /\ life'["completed"] = life["completed"]
      /\ life'["expected"] > 0 <=> ttlExpected' # 0
      /\ life'["expected"] >= life["expected"]
  <2>1. CASE ttlMsg[m] # 0
    <3>1. life' = Refresh({"seq", m, "expected"})
      BY <2>1 DEF TtlReserve
    <3> QED
      BY <1>1, <1>2, <1>3, <2>1, <3>1, RefreshLives, KeysDistinct DEF LivesMatch
  <2>2. CASE ttlMsg[m] = 0
    <3>1. life' = [k \in Keys |-> IF k \in {"seq", m, "expected"} THEN KeyLife ELSE life[k]]
      BY <2>2 DEF TtlReserve
    <3> QED
      BY <1>1, <1>2, <1>3, <2>2, <3>1, KeysDistinct
  <2> QED
    BY <2>1, <2>2
<1>5. Stored!ExpectedTurn' = Stored!ExpectedTurn
  BY <1>2, <1>3 DEF Stored!ExpectedTurn
<1>6. TtlTypeOK'
  <2>1. job' \in [Messages -> Nat] /\ arrived' \subseteq Messages
    BY <1>2, <1>3 DEF TtlReserve, TtlTypeOK
  <2> QED
    BY <1>3, <1>4, <2>1 DEF TtlTypeOK, Stored!TurnKeysType
<1>7. LivesMatch'
  BY <1>1, <1>2, <1>3, <1>4 DEF LivesMatch
<1>8. LeaseOutlivedByExpected'
  <2>1. ASSUME ttlLease' # NoLease
        PROVE  ttlLease'.turn = Stored!ExpectedTurn' /\ (ttlExpected' # 0 => life'["expected"] >= life'["lease"])
    <3>1. ttlLease # NoLease /\ ttlLease'.turn = Stored!ExpectedTurn'
      BY <1>3, <1>5, <2>1 DEF LeaseOutlivedByExpected
    <3>2. CASE ttlMsg[m] # 0
      BY <1>1, <1>2, <1>3, <1>4, <3>1, <3>2 DEF LeaseOutlivedByExpected
    <3>3. CASE ttlMsg[m] = 0
      <4>1. life'["expected"] = KeyLife
        BY <1>1, <3>3 DEF TtlReserve
      <4> QED
        BY <1>1, <1>2, <1>4, <3>1, <4>1, KeysDistinct
    <3> QED
      BY <3>2, <3>3
  <2>2. ttlCompleted' # {} => ttlExpected' # 0
    BY <1>2, <1>3 DEF LeaseOutlivedByExpected
  <2> QED
    BY <2>1, <2>2 DEF LeaseOutlivedByExpected
<1> QED
  BY <1>6, <1>7, <1>8

LEMMA ClaimKeeps ==
    ASSUME ExpiryInv, NEW s \in Slots, NEW m \in Messages, TtlTryClaim(s, m)
    PROVE  ExpiryInv'
<1> USE DEF ExpiryInv
<1>1. /\ ttlLease' = [token |-> s, turn |-> job[m]] /\ job[m] = Stored!ExpectedTurn
      /\ UNCHANGED <<ttlSeq, ttlMsg, ttlExpected, ttlCompleted, job, arrived>>
      /\ ttlClaim' = [ttlClaim EXCEPT ![s] = job[m]] /\ life' = Leased
  BY DEF TtlTryClaim, Stored!TryClaim, Stored!ClaimScript, Stored!Claimable
<1>2. /\ job[m] \in Nat /\ ttlClaim' \in [Slots -> Nat] /\ life \in [Keys -> 0..KeyLife]
  BY <1>1 DEF TtlTypeOK
<1>3. ttlLease' # NoLease /\ ttlLease'.turn = Stored!ExpectedTurn' /\ ttlLease' \in [token : Slots, turn : Nat]
  BY <1>1, <1>2, NoLeaseIsNone DEF Stored!ExpectedTurn
<1>4. "lease" \in Keys /\ "expected" \in Keys /\ "completed" \in Keys
  BY KeysDistinct DEF Single
<1>5. TtlTypeOK'
  BY <1>1, <1>2, <1>3, LeasedLives, KeysDistinct DEF TtlTypeOK, Stored!TurnKeysType
<1>6. LivesMatch'
  BY <1>1, <1>2, <1>3, <1>4, LeasedLives, KeysDistinct DEF LivesMatch
<1>7. LeaseOutlivedByExpected'
  BY <1>1, <1>2, <1>3, <1>4, <1>6, LeasedLives, KeysDistinct DEF LeaseOutlivedByExpected, LivesMatch
<1> QED
  BY <1>5, <1>6, <1>7

LEMMA RenewKeeps ==
    ASSUME ExpiryInv, NEW s \in Slots, TtlRenew(s)
    PROVE  ExpiryInv'
<1> USE DEF ExpiryInv
<1>1. /\ ttlLease # NoLease /\ life' = Leased
      /\ UNCHANGED <<ttlSeq, ttlMsg, ttlExpected, ttlLease, ttlCompleted, ttlClaim, job, arrived>>
  BY DEF TtlRenew, Stored!HoldsLease, storedVars
<1>2. /\ life \in [Keys -> 0..KeyLife]
      /\ "lease" \in Keys /\ "expected" \in Keys /\ "completed" \in Keys
  BY KeysDistinct DEF TtlTypeOK, Single
<1>3. TtlTypeOK'
  BY <1>1, LeasedLives, KeysDistinct DEF TtlTypeOK, Stored!TurnKeysType
<1>4. LivesMatch'
  BY <1>1, <1>2, LeasedLives, KeysDistinct DEF LivesMatch
<1>5. LeaseOutlivedByExpected'
  BY <1>1, <1>2, LeasedLives, KeysDistinct DEF LeaseOutlivedByExpected, LivesMatch, Stored!ExpectedTurn
<1> QED
  BY <1>3, <1>4, <1>5

\* An answer that ends the attempt changes no key
LEMMA UnchangedKeeps ==
    ASSUME ExpiryInv, UNCHANGED <<Stored!turnKeys, life>>, ttlClaim' \in [Slots -> Nat],
           job' \in [Messages -> Nat], arrived' \subseteq Messages
    PROVE  ExpiryInv'
BY DEF ExpiryInv, TtlTypeOK, LivesMatch, LeaseOutlivedByExpected, Stored!TurnKeysType, Stored!turnKeys, Stored!ExpectedTurn

LEMMA CompleteKeeps ==
    ASSUME ExpiryInv, NEW s \in Slots, TtlComplete(s)
    PROVE  ExpiryInv'
<1> USE DEF ExpiryInv
<1>1. /\ ttlClaim' \in [Slots -> Nat] /\ ttlClaim[s] \in Nat
      /\ job' \in [Messages -> Nat] /\ arrived' \subseteq Messages
      /\ life \in [Keys -> 0..KeyLife]
  BY DEF TtlComplete, Stored!Complete, Stored!Drop, TtlTypeOK
<1>2. CASE ~Stored!Completable(s, ttlClaim[s])
  <2>1. UNCHANGED <<Stored!turnKeys, life>>
    BY <1>2 DEF TtlComplete, Stored!Complete, Stored!CompleteScript
  <2> QED
    BY <1>1, <2>1, UnchangedKeeps
<1>3. CASE Stored!Completable(s, ttlClaim[s])
  <2>1. /\ ttlCompleted' = ttlCompleted \cup {ttlClaim[s]} /\ ttlExpected' = ttlClaim[s] + 1
        /\ ttlLease' = NoLease /\ UNCHANGED <<ttlSeq, ttlMsg>>
        /\ life' = [life EXCEPT !["expected"] = KeyLife, !["completed"] = KeyLife, !["lease"] = 0]
    BY <1>3 DEF TtlComplete, Stored!Complete, Stored!CompleteScript
  <2>2. "lease" \in Keys /\ "expected" \in Keys /\ "completed" \in Keys
    BY KeysDistinct DEF Single
  <2>3. /\ life' \in [Keys -> 0..KeyLife]
        /\ life'["expected"] = KeyLife /\ life'["completed"] = KeyLife /\ life'["lease"] = 0
    BY <1>1, <2>1, <2>2, KeysDistinct
  <2>4. ttlExpected' \in Nat /\ ttlExpected' # 0 /\ ttlCompleted' # {} /\ ttlCompleted' \in SUBSET Nat
    <3>1. ttlExpected' \in Nat /\ ttlExpected' # 0
      BY <1>1, <2>1
    <3>2. ttlCompleted' # {} /\ ttlCompleted' \in SUBSET Nat
      BY <1>1, <2>1 DEF TtlTypeOK, Stored!TurnKeysType
    <3> QED
      BY <3>1, <3>2
  <2>5. TtlTypeOK'
    BY <1>1, <2>1, <2>3, <2>4, KeysDistinct DEF TtlTypeOK, Stored!TurnKeysType
  <2>6. LivesMatch'
    BY <2>1, <2>3, <2>4, KeysDistinct DEF LivesMatch
  <2>7. LeaseOutlivedByExpected'
    BY <2>1, <2>4 DEF LeaseOutlivedByExpected
  <2> QED
    BY <2>5, <2>6, <2>7
<1> QED
  BY <1>2, <1>3

LEMMA ReleaseKeeps ==
    ASSUME ExpiryInv, NEW s \in Slots, TtlRelease(s)
    PROVE  ExpiryInv'
<1> USE DEF ExpiryInv
<1>1. /\ ttlClaim' \in [Slots -> Nat] /\ UNCHANGED <<job, arrived>> /\ life \in [Keys -> 0..KeyLife]
  BY DEF TtlRelease, Stored!Release, Stored!Drop, TtlTypeOK
<1>2. CASE ~Stored!HoldsLease(s, ttlClaim[s])
  <2>1. UNCHANGED <<Stored!turnKeys, life>>
    BY <1>2 DEF TtlRelease, Stored!Release, Stored!ReleaseScript
  <2> QED
    BY <1>1, <2>1, UnchangedKeeps DEF TtlTypeOK
<1>3. CASE Stored!HoldsLease(s, ttlClaim[s])
  <2>1. /\ ttlLease' = NoLease /\ life' = [life EXCEPT !["lease"] = 0]
        /\ UNCHANGED <<ttlSeq, ttlMsg, ttlExpected, ttlCompleted>>
    BY <1>3 DEF TtlRelease, Stored!Release, Stored!ReleaseScript
  <2>2. "lease" \in Keys /\ "expected" \in Keys /\ "completed" \in Keys
    BY KeysDistinct DEF Single
  <2>3. /\ life' \in [Keys -> 0..KeyLife] /\ life'["lease"] = 0
        /\ life'["expected"] = life["expected"] /\ life'["completed"] = life["completed"]
    BY <1>1, <2>1, <2>2, KeysDistinct
  <2>4. TtlTypeOK'
    BY <1>1, <2>1, <2>3, KeysDistinct DEF TtlTypeOK, Stored!TurnKeysType
  <2> QED
    BY <2>1, <2>3, <2>4 DEF LivesMatch, LeaseOutlivedByExpected
<1> QED
  BY <1>2, <1>3

LEMMA TickKeeps ==
    ASSUME ExpiryInv, Tick
    PROVE  ExpiryInv'
<1> USE DEF ExpiryInv
<1>1. /\ life \in [Keys -> 0..KeyLife]
      /\ "lease" \in Keys /\ "expected" \in Keys /\ "completed" \in Keys
  BY KeysDistinct DEF TtlTypeOK, Single
<1>2. /\ life' \in [Keys -> 0..KeyLife]
      /\ \A k \in Keys : life'[k] = IF life[k] = 0 THEN 0 ELSE life[k] - 1
  BY <1>1, KeysDistinct DEF Tick
<1>3. /\ ttlExpected' = IF life["expected"] = 1 THEN 0 ELSE ttlExpected
      /\ ttlCompleted' = IF life["completed"] = 1 THEN {} ELSE ttlCompleted
      /\ ttlLease' = IF life["lease"] = 1 THEN NoLease ELSE ttlLease
      /\ UNCHANGED <<ttlClaim, job, arrived>>
  BY <1>1 DEF Tick, Dying
<1>4. /\ life'["lease"] = IF life["lease"] = 0 THEN 0 ELSE life["lease"] - 1
      /\ life'["expected"] = IF life["expected"] = 0 THEN 0 ELSE life["expected"] - 1
      /\ life'["completed"] = IF life["completed"] = 0 THEN 0 ELSE life["completed"] - 1
      /\ life["lease"] \in Nat /\ life["expected"] \in Nat /\ life["completed"] \in Nat
  BY <1>1, <1>2
<1>5. TtlTypeOK'
  <2>1. ttlSeq' \in Nat /\ ttlMsg' \in [Messages -> Nat]
    BY DEF Tick, TtlTypeOK, Stored!TurnKeysType
  <2>2. life'["lease"] <= LeaseLife
    BY <1>4, KeysDistinct DEF TtlTypeOK
  <2> QED
    BY <1>2, <1>3, <2>1, <2>2 DEF TtlTypeOK, Stored!TurnKeysType
<1>6. LivesMatch'
  BY <1>3, <1>4 DEF LivesMatch
<1>7. LeaseOutlivedByExpected'
  BY <1>3, <1>4 DEF LivesMatch, LeaseOutlivedByExpected, Stored!ExpectedTurn
<1> QED
  BY <1>5, <1>6, <1>7

LEMMA TtlStepKeeps ==
    ASSUME ExpiryInv, [TtlNext]_expiryVars
    PROVE  ExpiryInv'
<1>1. ASSUME NEW m \in Messages, TtlAlreadyCompleted(m)
      PROVE  ExpiryInv'
  BY <1>1, UnchangedKeeps DEF TtlAlreadyCompleted, ExpiryInv, TtlTypeOK, storedVars, Stored!turnKeys
<1>2. CASE UNCHANGED expiryVars
  BY <1>2, UnchangedKeeps DEF expiryVars, storedVars, ExpiryInv, TtlTypeOK, Stored!turnKeys
<1> QED
  BY <1>1, <1>2, ReserveKeeps, ClaimKeeps, RenewKeeps, CompleteKeeps, ReleaseKeeps, TickKeeps
  DEF TtlNext

LEMMA ExpiryInvariant == TtlSpec => []ExpiryInv
<1>1. ExpiryInv /\ [TtlNext]_expiryVars => ExpiryInv'
  BY TtlStepKeeps
<1> QED
  BY <1>1, InitExpiryInv, PTL DEF TtlSpec

(* The timed keys hold what the scripts store in them, and no lease lives    *)
(* longer than CONVERSATION_ORDERING_LEASE_MS (the PX of CLAIM_SCRIPT and    *)
(* RENEW_SCRIPT).                                                            *)
THEOREM TtlTypeCorrect == TtlSpec => []TtlTypeOK
<1>1. ExpiryInv => TtlTypeOK
  BY DEF ExpiryInv
<1> QED
  BY <1>1, ExpiryInvariant, PTL

(* However long a claim is renewed, and whatever expires meanwhile, the      *)
(* counter that fences it does not run out first and be read as 1 under it.  *)
THEOREM LeaseOutlived == TtlSpec => []LeaseOutlivedByExpected
<1>1. ExpiryInv => LeaseOutlivedByExpected
  BY DEF ExpiryInv
<1> QED
  BY <1>1, ExpiryInvariant, PTL

-----------------------------------------------------------------------------
(* Until a key other than the lease expires *)

\* A tick that deletes more than the lease
KeyExpires == Tick /\ ~(Dying \subseteq {"lease"})

\* A queued job carries the turn that is stored for its message, and a message
\* that has a turn has arrived
JobsMatch == \A m \in Messages : /\ job[m] # 0 => job[m] = ttlMsg[m]
                                 /\ ttlMsg[m] # 0 => m \in arrived

LEMMA StepRefines ==
    ASSUME ExpiryInv, JobsMatch, [TtlNext /\ ~KeyExpires]_expiryVars
    PROVE  JobsMatch' /\ [Stored!Next]_(Stored!vars)
<1>0. job \in [Messages -> Nat] /\ ttlMsg \in [Messages -> Nat] /\ ttlSeq \in Nat
  BY DEF ExpiryInv, TtlTypeOK, Stored!TurnKeysType
<1>1. ASSUME NEW m \in Messages, TtlReserve(m)
      PROVE  JobsMatch' /\ Stored!Next
  <2>1. /\ Stored!Reserve(m) /\ job' = [job EXCEPT ![m] = Stored!ReservedTurn(m)] /\ job[m] = 0
        /\ arrived' = arrived \cup {m}
    BY <1>1 DEF TtlReserve
  <2>2. \A n \in Messages : ttlMsg'[n] = IF n = m THEN Stored!ReservedTurn(m) ELSE ttlMsg[n]
    BY <1>0, <2>1 DEF Stored!Reserve, Stored!ReserveScript, Stored!ReservedTurn
  <2> QED
    BY <1>0, <2>1, <2>2 DEF JobsMatch, Stored!Next
<1>2. ASSUME NEW m \in Messages, TtlAlreadyCompleted(m)
      PROVE  JobsMatch' /\ UNCHANGED Stored!vars
  BY <1>0, <1>2 DEF TtlAlreadyCompleted, JobsMatch, storedVars, Stored!vars
<1>3. ASSUME NEW s \in Slots, NEW m \in Messages, TtlTryClaim(s, m)
      PROVE  JobsMatch' /\ Stored!Next
  <2>1. job[m] # 0 /\ Stored!TryClaim(s, job[m]) /\ UNCHANGED <<ttlMsg, job, arrived>>
    BY <1>3 DEF TtlTryClaim, Stored!TryClaim, Stored!ClaimScript
  <2>2. job[m] = ttlMsg[m]
    BY <2>1 DEF JobsMatch
  <2> QED
    BY <2>1, <2>2 DEF JobsMatch, Stored!Next
<1>4. ASSUME NEW s \in Slots, TtlRenew(s)
      PROVE  JobsMatch' /\ UNCHANGED Stored!vars
  BY <1>4 DEF TtlRenew, JobsMatch, storedVars, Stored!vars
<1>5. ASSUME NEW s \in Slots, TtlComplete(s)
      PROVE  JobsMatch' /\ Stored!Next
  <2>1. Stored!Complete(s) /\ UNCHANGED <<ttlMsg, arrived>>
    BY <1>5 DEF TtlComplete, Stored!Complete, Stored!CompleteScript, Stored!turnKeys
  <2>2. \A m \in Messages : job'[m] \in {0, job[m]}
    BY <1>0, <1>5 DEF TtlComplete
  <2> QED
    BY <2>1, <2>2 DEF JobsMatch, Stored!Next
<1>6. ASSUME NEW s \in Slots, TtlRelease(s)
      PROVE  JobsMatch' /\ Stored!Next
  <2>1. Stored!Release(s) /\ UNCHANGED <<ttlMsg, job, arrived>>
    BY <1>6 DEF TtlRelease, Stored!Release, Stored!ReleaseScript, Stored!turnKeys
  <2> QED
    BY <2>1 DEF JobsMatch, Stored!Next
<1>7. CASE Tick /\ ~KeyExpires
  <2>1. Dying \subseteq {"lease"}
    BY <1>7 DEF KeyExpires
  <2>2. \A m \in Messages : m \notin Dying
    BY <2>1, KeysDistinct DEF Single
  <2>3. UNCHANGED <<ttlSeq, ttlMsg, ttlExpected, ttlCompleted, ttlClaim, job, arrived>> /\ ttlLease' \in {ttlLease, NoLease}
    BY <1>0, <1>7, <2>1, <2>2 DEF Tick
  <2>4. Stored!LeaseExpires \/ UNCHANGED Stored!vars
    BY <2>3 DEF Stored!LeaseExpires, Stored!LeaseLapse, Stored!vars
  <2> QED
    BY <2>3, <2>4 DEF JobsMatch, Stored!Next
<1>8. CASE UNCHANGED expiryVars
  BY <1>8 DEF expiryVars, JobsMatch, storedVars, Stored!vars
<1> QED
  BY <1>1, <1>2, <1>3, <1>4, <1>5, <1>6, <1>7, <1>8 DEF TtlNext

LEMMA JobsStayMatched == TtlSpec /\ [][~KeyExpires]_expiryVars => []JobsMatch
<1>1. TtlInit => JobsMatch
  <2> SUFFICES ASSUME TtlInit PROVE JobsMatch
    OBVIOUS
  <2>1. \A m \in Messages : job[m] = 0 /\ ttlMsg[m] = 0
    BY DEF TtlInit, Stored!Init, Stored!TurnKeysInit
  <2> QED
    BY <2>1 DEF JobsMatch
<1>2. ExpiryInv /\ JobsMatch /\ [TtlNext]_expiryVars /\ [~KeyExpires]_expiryVars => JobsMatch'
  BY StepRefines
<1> QED
  BY <1>1, <1>2, ExpiryInvariant, PTL DEF TtlSpec

(* Until three hours of silence delete a key of the conversation, the clock  *)
(* changes nothing that ConversationOrdering allows: its lapse of the lease  *)
(* is all that time does, so that what is proved of it is true of the timed  *)
(* keys too.                                                                 *)
THEOREM UntimedUntilExpiry == TtlSpec /\ [][~KeyExpires]_expiryVars => Stored!Spec
<1>1. TtlInit => Stored!Init
  BY DEF TtlInit
<1>2. ExpiryInv /\ JobsMatch /\ [TtlNext]_expiryVars /\ [~KeyExpires]_expiryVars => [Stored!Next]_(Stored!vars)
  BY StepRefines
<1> QED
  BY <1>1, <1>2, JobsStayMatched, ExpiryInvariant, PTL DEF TtlSpec, Stored!Spec

\* No turn is stored, leased or due that is more than one past the last handed out
DueWithin ==
    /\ \A m \in Messages : ttlMsg[m] <= ttlSeq
    /\ ttlLease # NoLease => ttlLease.turn <= ttlSeq
    /\ Stored!ExpectedTurn <= ttlSeq + 1

LEMMA DueStaysWithin ==
    ASSUME ExpiryInv, DueWithin, Stored!Next \/ UNCHANGED Stored!vars
    PROVE  DueWithin'
<1>0. /\ ttlSeq \in Nat /\ ttlMsg \in [Messages -> Nat] /\ ttlExpected \in Nat
      /\ ttlLease \in [token : Slots, turn : Nat] \cup {NoLease}
  BY DEF ExpiryInv, TtlTypeOK, Stored!TurnKeysType
<1>1. ASSUME NEW m \in Messages, Stored!Reserve(m)
      PROVE  DueWithin'
  <2>1. /\ UNCHANGED ttlLease
        /\ \A n \in Messages : ttlMsg'[n] = ttlMsg[n] \/ ttlMsg'[n] = ttlSeq'
        /\ Stored!ExpectedTurn' = Stored!ExpectedTurn
    BY <1>0, <1>1 DEF Stored!Reserve, Stored!ReserveScript, Stored!ExpectedTurn
  <2>2. ttlSeq' \in Nat /\ ttlSeq' >= ttlSeq
    <3>1. ttlSeq' = ttlSeq \/ ttlSeq' = ttlSeq + 1
      BY <1>1 DEF Stored!Reserve, Stored!ReserveScript
    <3> QED
      BY <1>0, <3>1
  <2>3. \A n \in Messages : ttlMsg'[n] <= ttlSeq'
    <3> TAKE n \in Messages
    <3>1. ttlMsg[n] \in Nat /\ ttlMsg[n] <= ttlSeq
      BY <1>0 DEF DueWithin
    <3> QED
      BY <1>0, <2>1, <2>2, <3>1
  <2>4. ttlLease' # NoLease => ttlLease'.turn <= ttlSeq'
    <3>1. ttlLease # NoLease => ttlLease.turn \in Nat /\ ttlLease.turn <= ttlSeq
      BY <1>0 DEF DueWithin
    <3> QED
      BY <1>0, <2>1, <2>2, <3>1
  <2>5. Stored!ExpectedTurn' <= ttlSeq' + 1
    <3>1. PICK old \in Nat, due \in Nat :
              old = ttlSeq /\ due = Stored!ExpectedTurn /\ due <= old + 1
      BY <1>0 DEF DueWithin, Stored!ExpectedTurn
    <3>2. PICK new \in Nat : new = ttlSeq' /\ new >= old
      BY <2>2, <3>1
    <3>3. due <= old + 1 /\ new >= old
      BY <3>1, <3>2
    <3>4. due <= new + 1
      BY <3>3
    <3> QED
      BY <2>1, <3>1, <3>2, <3>4
  <2> QED
    BY <2>3, <2>4, <2>5 DEF DueWithin
<1>2. ASSUME NEW s \in Slots, NEW m \in Messages, Stored!TryClaim(s, ttlMsg[m])
      PROVE  DueWithin'
  BY <1>0, <1>2 DEF Stored!TryClaim, Stored!ClaimScript, DueWithin, Stored!ExpectedTurn
<1>3. ASSUME NEW s \in Slots, Stored!Complete(s)
      PROVE  DueWithin'
  <2>1. CASE Stored!CompleteScript(s, ttlClaim[s])
    <3>1. /\ ttlLease # NoLease /\ ttlLease.turn = ttlClaim[s] /\ ttlLease' = NoLease
          /\ ttlExpected' = ttlClaim[s] + 1 /\ UNCHANGED <<ttlSeq, ttlMsg>>
      BY <2>1 DEF Stored!CompleteScript, Stored!Completable, Stored!HoldsLease
    <3>2. ttlClaim[s] \in Nat /\ ttlClaim[s] <= ttlSeq
      BY <3>1 DEF ExpiryInv, TtlTypeOK, DueWithin
    <3> QED
      BY <1>0, <3>1, <3>2 DEF DueWithin, Stored!ExpectedTurn
  <2>2. CASE UNCHANGED Stored!turnKeys
    BY <2>2 DEF Stored!turnKeys, DueWithin, Stored!ExpectedTurn
  <2> QED
    BY <1>3, <2>1, <2>2 DEF Stored!Complete
<1>4. ASSUME NEW s \in Slots, Stored!Release(s) \/ Stored!Crash(s)
      PROVE  DueWithin'
  <2>1. UNCHANGED <<ttlSeq, ttlMsg, ttlExpected>> /\ ttlLease' \in {ttlLease, NoLease}
    BY <1>4 DEF Stored!Release, Stored!ReleaseScript, Stored!Crash, Stored!turnKeys
  <2> QED
    BY <2>1 DEF DueWithin, Stored!ExpectedTurn
<1>5. CASE Stored!LeaseExpires \/ UNCHANGED Stored!vars
  BY <1>5 DEF Stored!LeaseExpires, Stored!LeaseLapse, Stored!vars, DueWithin, Stored!ExpectedTurn
<1> QED
  BY <1>1, <1>2, <1>3, <1>4, <1>5 DEF Stored!Next

LEMMA DueWithinHolds == TtlSpec /\ [][~KeyExpires]_expiryVars => []DueWithin
<1>1. TtlInit => DueWithin
  <2> SUFFICES ASSUME TtlInit PROVE DueWithin
    OBVIOUS
  <2>1. \A m \in Messages : ttlMsg[m] = 0
    BY DEF TtlInit, Stored!Init, Stored!TurnKeysInit
  <2>2. ttlSeq = 0 /\ ttlExpected = 0 /\ ttlLease = NoLease
    BY DEF TtlInit, Stored!Init, Stored!TurnKeysInit
  <2> QED
    BY <2>1, <2>2 DEF DueWithin, Stored!ExpectedTurn
<1>2. ExpiryInv /\ DueWithin /\ [Stored!Next]_(Stored!vars) => DueWithin'
  BY DueStaysWithin
<1> QED
  BY <1>1, <1>2, UntimedUntilExpiry, ExpiryInvariant, PTL DEF TtlSpec, Stored!Spec

(* FreshTurnIsDue fails only through expiry: until a key other than the      *)
(* lease runs out, a new message is given a turn that is not finished yet.   *)
THEOREM FreshUntilExpiry == TtlSpec /\ [][~KeyExpires]_expiryVars => FreshTurnIsDue
<1> DEFINE Fresh == \A m \in Messages :
                      m \notin arrived /\ m \in arrived' => ~(job'[m] < Stored!ExpectedTurn')
<1>1. ExpiryInv /\ JobsMatch /\ DueWithin /\ [TtlNext]_expiryVars /\ [~KeyExpires]_expiryVars => Fresh
  <2> SUFFICES ASSUME ExpiryInv, JobsMatch, DueWithin, [TtlNext]_expiryVars, NEW m \in Messages,
                      m \notin arrived, m \in arrived'
               PROVE  ~(job'[m] < Stored!ExpectedTurn')
    OBVIOUS
  <2>1. TtlReserve(m)
    <3>1. ASSUME NEW n \in Messages, TtlReserve(n)
          PROVE  m = n
      BY <3>1 DEF TtlReserve
    <3>2. \E n \in Messages : TtlReserve(n)
      BY DEF TtlNext, TtlAlreadyCompleted, TtlTryClaim, TtlRenew, TtlComplete, TtlRelease, Tick, expiryVars
    <3> QED
      BY <3>1, <3>2
  <2>2. ttlMsg[m] = 0 /\ Stored!ReservedTurn(m) = ttlSeq + 1
    BY DEF JobsMatch, Stored!ReservedTurn
  <2>3. job'[m] = ttlSeq + 1
    BY <2>1, <2>2 DEF TtlReserve, ExpiryInv, TtlTypeOK
  <2>4. Stored!ExpectedTurn' = Stored!ExpectedTurn
    BY <2>1 DEF TtlReserve, Stored!Reserve, Stored!ReserveScript, Stored!ExpectedTurn
  <2>5. Stored!ExpectedTurn \in Nat /\ ttlSeq \in Nat
    BY DEF ExpiryInv, TtlTypeOK, Stored!TurnKeysType, Stored!ExpectedTurn
  <2> QED
    BY <2>3, <2>4, <2>5 DEF DueWithin
<1>2. ExpiryInv /\ JobsMatch /\ DueWithin /\ [TtlNext]_expiryVars /\ [~KeyExpires]_expiryVars
        => [Fresh]_expiryVars
  BY <1>1
<1> HIDE DEF Fresh
<1>3. TtlSpec /\ [][~KeyExpires]_expiryVars => [][Fresh]_expiryVars
  BY <1>2, JobsStayMatched, ExpiryInvariant, DueWithinHolds, PTL DEF TtlSpec
<1> QED
  BY <1>3 DEF FreshTurnIsDue, Fresh
=============================================================================
