------------------------------ MODULE Mandate ------------------------------
(***************************************************************************)
(* The spending mandate of one wallet in one vault                         *)
(* (src/domain/spending-mandate-service.ts and spending-mandate.ts): who   *)
(* may register, replace, revoke and recover it, the links an owner acts   *)
(* through, the owner's approvals, and what the policy in force lets the   *)
(* agent move.  The operations it gates are those of FlowContract.         *)
(*                                                                         *)
(* Every mutation holds the wallet's mandate lock and then the             *)
(* wallet-vault lock (a session's completion its session lock first), and  *)
(* in PostgresLedger nested locks share one transaction, so each is one    *)
(* action.  A document stands for its payload hash.  Signatures are        *)
(* unforgeable: a document is signed by its owner, `signed` holds what     *)
(* owners signed at decision time, and anyone may deliver either, later,   *)
(* or again.                                                               *)
(***************************************************************************)
EXTENDS FlowContract, Integers, FiniteSetsExt

CONSTANTS
    Owners,             \* owner credentials
    Payees,             \* sellers
    Documents,          \* mandate documents their owners have signed
    Sessions,           \* setup and owner-management links
    Approvals,          \* approval rows
    NoDoc, NoApproval, NoMandate,   \* null
    Requests,           \* operations the agent asks for
    DefaultPolicy,      \* DEFAULT_RELAYER_POLICY
    Level,              \* SUBLY_MANDATE_ENFORCEMENT: "off", "warn" or "on"
    Day, Month,         \* rolling windows
    ApprovalTtl, FlowTtl, SessionTtl, Grace,
    MaxAge,             \* SIGNED_AT_MAX_AGE_MS
    MaxWait,            \* how long a registration may wait for its locks
    MaxPending,         \* MAX_PENDING_APPROVALS_PER_WALLET
    Unclassified,       \* may a landed operation end as "failed"
    MaxTime, MaxSignatures          \* bounds

Kinds == {"deposit", "normal", "yield_realize"}
NoCap == -1         \* null: no check on this axis
Never == -1         \* null time
Times == 0 .. MaxTime

Policies ==
    [cap : Nat, daily : Nat \cup {NoCap}, monthly : Nat \cup {NoCap},
     depositDaily : Nat \cup {NoCap}, threshold : Nat \cup {NoCap},
     payees : SUBSET Payees, deposit : {"agent", "owner"},
     withdrawal : {"agent", "owner"}]

\* SpendingMandateRecord.
Records ==
    [doc : Documents, status : {"active", "revoked", "recovery_pending"},
     recoveryAt : Nat \cup {Never}, revokedAt : Nat \cup {Never}]

ASSUME MandateAssumption ==
    /\ \A d \in Documents :
         /\ d.owner \in Owners /\ d.countersigned \subseteq Owners
         /\ d.policy \in Policies
         /\ {d.issued, d.expires, d.initial} \subseteq Nat
    /\ NoDoc \notin Documents /\ NoApproval \notin Approvals
    /\ NoMandate \notin Records
    /\ IsFiniteSet(Flows)
    /\ DefaultPolicy \in Policies
    /\ Requests \subseteq [kind : Kinds, amount : Nat \ {0}, payee : Payees,
                           bound : BOOLEAN]
    /\ Level \in {"off", "warn", "on"}
    /\ {Day, Month, ApprovalTtl, FlowTtl, SessionTtl, Grace, MaxAge, MaxWait,
        MaxPending, MaxTime, MaxSignatures} \subseteq Nat
    /\ Unclassified \in BOOLEAN

VARIABLES
    now,
    mandate,    \* the SpendingMandateRecord, or NoMandate
    session,    \* session[x]: the SetupSession rows
    approval,   \* approval[a]: the SpendingApproval rows
    op,         \* op[f]: what the intent of f records; its policy, asked,
                \* owner and rank are history
    signed,     \* revoke and recovery-cancel messages owners have signed
    graceFrom,  \* history: when the recovery now pending was scheduled
    cut         \* history: unsubmitted intents when the mandate was revoked

vars == <<contractVars, now, mandate, session, approval, op, signed,
          graceFrom, cut>>

Exceeds(amount, cap) == cap # NoCap /\ amount > cap

\* What an owner link remembers of the record it was created for.
StateOf(m) == [doc |-> m.doc, status |-> m.status,
               recoveryAt |-> m.recoveryAt, revokedAt |-> m.revokedAt]
OwnerActions == {"revoke", "cancel_recovery"}

MandateTypeOK ==
    /\ ContractTypeOK
    /\ now \in Times
    /\ mandate = NoMandate \/
         /\ mandate \in Records
         /\ (mandate.status = "recovery_pending") <=> (mandate.recoveryAt # Never)
         /\ (mandate.status = "revoked") <=> (mandate.revokedAt # Never)
    /\ \A x \in Sessions : session[x].status \in {"none", "pending", "completed"}
    /\ \A a \in Approvals :
         /\ approval[a].status \in {"none", "pending", "approved", "denied",
                                    "consumed", "expired"}
         /\ approval[a].hash \in Documents \cup {NoDoc}
    /\ \A f \in Flows : op[f].hash \in Documents \cup {NoDoc}
    /\ signed \subseteq [action : OwnerActions, doc : Documents, at : Times]
    /\ graceFrom \in Times \cup {Never}
    /\ cut \subseteq Flows

-----------------------------------------------------------------------------
(* Documents and the policy in force.                                       *)

\* parseMandatePolicy: caps are positive and the approval band is not empty.
ValidPolicy(p) ==
    /\ p.cap > 0 /\ 0 \notin {p.daily, p.monthly, p.depositDaily}
    /\ p.threshold # NoCap => p.threshold < p.cap

\* validateMandateDocument, at time t.
ValidDocument(d, t) ==
    /\ d.issued < d.expires
    /\ d.issued <= t + MaxAge
    /\ t < d.expires
    /\ ValidPolicy(d.policy)

\* assertFreshSignedAt.
Fresh(at) == now - at <= MaxAge

\* Mutant: a revoked mandate expires like any other.
EffectiveStatusExpiresFirst(m, t) ==
    IF m.doc.expires <= t THEN "expired"
    ELSE IF m.status = "recovery_pending" /\ m.recoveryAt <= t
      THEN "recovery_elapsed"
    ELSE m.status

EffectiveStatus(m, t) ==
    IF m.status = "revoked" THEN "revoked"
    ELSE IF m.doc.expires <= t THEN "expired"
    ELSE IF m.status = "recovery_pending" /\ m.recoveryAt <= t
      THEN "recovery_elapsed"
    ELSE m.status

\* resolvePolicy: the relayer default applies to a wallet without a mandate
\* and to one whose mandate has run out.
Effective ==
    LET status == IF mandate = NoMandate THEN "expired"
                  ELSE EffectiveStatus(mandate, now)
        live   == status \in {"active", "recovery_pending"}
    IN  [policy  |-> IF live THEN mandate.doc.policy ELSE DefaultPolicy,
         hash    |-> IF live THEN mandate.doc ELSE NoDoc,
         owned   |-> live,
         revoked |-> status = "revoked"]

-----------------------------------------------------------------------------
(* Registering and replacing.                                               *)

\* Mutant: the agent key alone may replace the owner.
MayReplaceAnyOwner(m, d, t) ==
    /\ d.issued > m.doc.issued
    /\ EffectiveStatus(m, t) = "revoked" => m.doc.owner = d.owner

\* The monotonic issue time and assertReplaceAuthorized.
MayReplace(m, d, t) ==
    /\ d.issued > m.doc.issued
    /\ \/ EffectiveStatus(m, t) \in {"expired", "recovery_elapsed"}
       \/ m.doc.owner = d.owner
       \/ /\ EffectiveStatus(m, t) # "revoked"
          /\ m.doc.owner \in d.countersigned

FreeApprovals == {a \in Approvals : approval[a].status = "none"}

\* issueApprovedApproval: the first registration also approves the deposit
\* its document announces.
IssueInitialDeposit(d, t) ==
    IF mandate = NoMandate /\ d.initial > 0
      THEN \E a \in FreeApprovals :
             approval' = [approval EXCEPT ![a] =
                [status |-> "approved", hash |-> d,
                 binding |-> <<"deposit", d.initial>>,
                 expiresAt |-> t + ApprovalTtl, by |-> d.owner]]
      ELSE UNCHANGED approval

\* registerMandate; t was read before the locks were taken.
RegisterMandate(d, t) ==
    /\ ValidDocument(d, t)
    /\ mandate # NoMandate => MayReplace(mandate, d, t)
    /\ mandate' = [doc |-> d, status |-> "active",
                   recoveryAt |-> Never, revokedAt |-> Never]
    /\ IssueInitialDeposit(d, t)
    /\ graceFrom' = Never
    /\ cut' = {}
    /\ UNCHANGED <<contractVars, now, op, signed>>

\* The clock a registration may have read.
ReadTimes == {t \in Times : t <= now /\ now - t <= MaxWait}

\* POST /mandate: the document carries the agent's own signature too.
Register(d) ==
    /\ \E t \in ReadTimes : RegisterMandate(d, t)
    /\ UNCHANGED session

-----------------------------------------------------------------------------
(* The owner's kill switch and the recovery of a lost credential.           *)

\* The owner signs a message about the mandate that is registered.
OwnerSigns(action) ==
    /\ mandate # NoMandate
    /\ Cardinality(signed) < MaxSignatures
    /\ signed' = signed \cup
         {[action |-> action, doc |-> mandate.doc, at |-> now]}
    /\ UNCHANGED <<contractVars, now, mandate, session, approval, op,
                   graceFrom, cut>>

\* Mutant: a pending recovery survives the revocation.
RevokeKeepsRecovery(s) ==
    /\ s.action = "revoke"
    /\ mandate # NoMandate /\ mandate.doc = s.doc
    /\ mandate.status # "revoked" /\ Fresh(s.at)
    /\ mandate' = [mandate EXCEPT !.status = "revoked", !.revokedAt = now]
    /\ graceFrom' = Never
    /\ cut' = {f \in Flows : flow[f] \in {"absent", "prepared"}}

\* revokeMandate on message s; revoking twice changes nothing.
Revoke(s) ==
    /\ s.action = "revoke"
    /\ mandate # NoMandate /\ mandate.doc = s.doc
    /\ IF mandate.status = "revoked" THEN UNCHANGED <<mandate, graceFrom, cut>>
       ELSE /\ Fresh(s.at)
            /\ mandate' = [mandate EXCEPT !.status = "revoked",
                                          !.recoveryAt = Never,
                                          !.revokedAt = now]
            /\ graceFrom' = Never
            /\ cut' = {f \in Flows : flow[f] \in {"absent", "prepared"}}

\* scheduleRecoveryRevoke, by the agent key; scheduling twice changes nothing.
ScheduleRecovery ==
    /\ mandate # NoMandate
    /\ mandate.status = "active"
    /\ EffectiveStatus(mandate, now) # "expired"
    /\ mandate' = [mandate EXCEPT !.status = "recovery_pending",
                                  !.recoveryAt = now + Grace]
    /\ graceFrom' = now
    /\ UNCHANGED <<contractVars, now, session, approval, op, signed, cut>>

\* Mutant: the veto clears the deadline of the record it returns only.
CancelKeepsDeadline(s) ==
    /\ s.action = "cancel_recovery"
    /\ mandate # NoMandate /\ mandate.doc = s.doc
    /\ EffectiveStatus(mandate, now) = "recovery_pending"
    /\ Fresh(s.at)
    /\ UNCHANGED mandate
    /\ graceFrom' = Never
    /\ UNCHANGED cut

\* cancelRecoveryRevoke on message s: the owner's veto.
CancelRecovery(s) ==
    /\ s.action = "cancel_recovery"
    /\ mandate # NoMandate /\ mandate.doc = s.doc
    /\ EffectiveStatus(mandate, now) = "recovery_pending"
    /\ Fresh(s.at)
    /\ mandate' = [mandate EXCEPT !.status = "active", !.recoveryAt = Never]
    /\ graceFrom' = Never
    /\ UNCHANGED cut

\* POST /mandate/revoke and /mandate/recovery-cancel.
Deliver(s) ==
    /\ Revoke(s) \/ CancelRecovery(s)
    /\ UNCHANGED <<contractVars, now, session, approval, op, signed>>

-----------------------------------------------------------------------------
(* Setup and owner-management links.                                        *)

NoState == [doc |-> NoDoc]

\* createSetupSession pins the values agreed with the agent (those of d);
\* createOwnerSession pins the current record too and no initial deposit.
CreateSession(x, d) ==
    /\ session[x].status = "none"
    /\ ValidPolicy(d.policy)
    /\ ~Exceeds(d.initial, d.policy.depositDaily)
    /\ \E managed \in BOOLEAN :
         /\ managed => mandate # NoMandate /\ d.initial = 0
         /\ session' = [session EXCEPT ![x] =
              [status |-> "pending", policy |-> d.policy, expires |-> d.expires,
               initial |-> d.initial, until |-> now + SessionTtl,
               expected |-> IF managed THEN StateOf(mandate) ELSE NoState]]
    /\ UNCHANGED <<contractVars, now, mandate, approval, op, signed,
                   graceFrom, cut>>

SessionOpen(x) == session[x].status = "pending" /\ now < session[x].until

\* Mutant: an owner link is applied to whatever mandate is registered now.
LinkAlwaysCurrent(x) == TRUE

\* assertOwnerSessionCurrent.
LinkCurrent(x) ==
    session[x].expected # NoState =>
        mandate # NoMandate /\ StateOf(mandate) = session[x].expected

\* assertDocumentMatchesSession: confirm-only.
MatchesSession(d, x) ==
    /\ d.policy = session[x].policy
    /\ d.expires = session[x].expires
    /\ d.initial = session[x].initial

\* The row keeps its values, which nothing reads again.
Complete(x) == session' = [session EXCEPT ![x] = [status |-> "completed"]]

\* completeSetupSession, and completeOwnerSession through it: the link stands
\* in for the agent's signature.
CompleteSetup(x, d) ==
    /\ SessionOpen(x)
    /\ MatchesSession(d, x)
    /\ LinkCurrent(x)
    /\ session[x].expected # NoState => mandate.doc.owner = d.owner
    /\ \E t \in ReadTimes : RegisterMandate(d, t)
    /\ Complete(x)

\* completeOwnerAction.
CompleteOwnerAction(x, s) ==
    /\ SessionOpen(x)
    /\ session[x].expected # NoState
    /\ s.doc = session[x].expected.doc
    /\ LinkCurrent(x)
    /\ Revoke(s) \/ CancelRecovery(s)
    /\ Complete(x)
    /\ UNCHANGED <<contractVars, now, approval, op, signed>>

-----------------------------------------------------------------------------
(* Authorizing operations.                                                  *)

\* Mutant: every realization since the start of the day counts, not the last
\* 24 hours.
ConfirmedSinceMidnight(kind, window) ==
    {f \in Flows : /\ op[f].kind = kind
                   /\ flow[f] = "confirmed"
                   /\ op[f].doneAt >= now - (now % window)}

\* The operations confirmedRealizeSum and confirmedDepositSum count.
Confirmed(kind, window) ==
    {f \in Flows : /\ op[f].kind = kind
                   /\ flow[f] = "confirmed"
                   /\ op[f].doneAt >= now - window}

Amount(fs) == SumFunctionOnSet([f \in Flows |-> op[f].amount], fs)

\* The absolute limits of policy p on request r; no approval lifts them.
WithinPolicy(r, p) ==
    CASE r.kind = "yield_realize" ->
           /\ r.bound                   \* it declares the payment it funds
           /\ r.payee \in p.payees
           /\ r.amount <= p.cap
           /\ ~Exceeds(Amount(Confirmed(r.kind, Day)) + r.amount, p.daily)
           /\ ~Exceeds(Amount(Confirmed(r.kind, Month)) + r.amount, p.monthly)
      [] r.kind = "deposit" ->
           ~Exceeds(Amount(Confirmed(r.kind, Day)) + r.amount, p.depositDaily)
      [] OTHER -> TRUE

\* The operations that policy p refers to the owner.
NeedsOwner(r, p) ==
    CASE r.kind = "yield_realize" -> Exceeds(r.amount, p.threshold)
      [] r.kind = "deposit" -> p.deposit = "owner"
      [] OTHER -> p.withdrawal = "owner"

\* What an approval is bound to (bindingHashOf).
Binding(r) == IF r.kind = "yield_realize" THEN <<r.kind, r.amount, r.payee>>
              ELSE <<r.kind, r.amount>>

\* approvalInFlight.
InFlight(a) == \E f \in OpenFlows : op[f].approval = a

\* requireOperationApproval honors the approval the agent provides.
Usable(a, r) ==
    /\ approval[a].status = "approved"
    /\ now < approval[a].expiresAt
    /\ approval[a].hash = Effective.hash
    /\ approval[a].binding = Binding(r)
    /\ ~InFlight(a)

\* Mutant: a missing owner lets the operation through.
AuthorizationsWithoutOwner(r) ==
    IF Level = "on" /\ Effective.owned /\ NeedsOwner(r, Effective.policy)
      THEN {a \in Approvals : Usable(a, r)}
      ELSE {NoApproval}

(***************************************************************************)
(* authorizeRealize, authorizeDeposit and authorizeWithdrawal: the         *)
(* approvals the operation may go ahead with.  A revocation binds in       *)
(* "warn" mode too; nothing else does.                                     *)
(***************************************************************************)
AuthorizationsFor(r) ==
    IF Level = "off" THEN {NoApproval}
    ELSE IF Effective.revoked THEN {}
    ELSE IF Level = "warn" THEN {NoApproval}
    ELSE IF ~WithinPolicy(r, Effective.policy) THEN {}
    ELSE IF ~NeedsOwner(r, Effective.policy) THEN {NoApproval}
    ELSE IF ~Effective.owned THEN {}
    ELSE {a \in Approvals : Usable(a, r)}

Prepare(f, r) ==
    /\ PrepareFlow(f)
    /\ \E a \in AuthorizationsFor(r) :
         op' = [op EXCEPT ![f] =
                  [kind |-> r.kind, amount |-> r.amount, approval |-> a,
                   hash |-> IF Level = "off" THEN NoDoc ELSE Effective.hash,
                   policy |-> Effective.policy,
                   asked |-> Level = "on" /\ NeedsOwner(r, Effective.policy),
                   expiresAt |-> now + FlowTtl, doneAt |-> Never, rank |-> 0,
                   owner |-> NoDoc]]
    /\ UNCHANGED <<now, mandate, session, approval, signed, graceFrom, cut>>

\* Pending, unexpired approvals.
Outstanding == {a \in Approvals : /\ approval[a].status = "pending"
                                  /\ now < approval[a].expiresAt}

\* requireOperationApproval without a usable approval: a pending row is
\* created unless one can be reused, and the operation is refused.
RequestApproval(a, r) ==
    /\ OpenFlows = {}
    /\ Level = "on"
    /\ ~Effective.revoked /\ Effective.owned
    /\ WithinPolicy(r, Effective.policy) /\ NeedsOwner(r, Effective.policy)
    /\ approval[a].status = "none"
    /\ \A b \in Outstanding : ~ /\ approval[b].binding = Binding(r)
                                /\ approval[b].hash = Effective.hash
    /\ Cardinality(Outstanding) < MaxPending
    /\ approval' = [approval EXCEPT ![a] =
         [status |-> "pending", hash |-> Effective.hash,
          binding |-> Binding(r), expiresAt |-> now + ApprovalTtl,
          by |-> NoDoc]]
    /\ UNCHANGED <<contractVars, now, mandate, session, op, signed,
                   graceFrom, cut>>

\* decideApproval: the mandate the row was created under must still be the
\* registered one, and its owner signs.
DecideApproval(a) ==
    /\ a \in Outstanding
    /\ mandate # NoMandate /\ mandate.doc = approval[a].hash
    /\ EffectiveStatus(mandate, now) \in {"active", "recovery_pending"}
    /\ \E decision \in {"approved", "denied"} :
         approval' = [approval EXCEPT ![a].status = decision,
                                      ![a].by = mandate.doc.owner]
    /\ UNCHANGED <<contractVars, now, mandate, session, op, signed,
                   graceFrom, cut>>

\* Mutant: only the approval is checked again when the intent is submitted.
AuthorizedWhenPrepared(o) ==
    o.approval # NoApproval => /\ approval[o.approval].status = "approved"
                               /\ now < approval[o.approval].expiresAt

\* assertPreparedAuthorization.
StillAuthorized(o) ==
    Level # "off" =>
        /\ ~Effective.revoked
        /\ Effective.hash = o.hash
        /\ o.approval # NoApproval =>
              /\ approval[o.approval].hash = o.hash
              /\ approval[o.approval].status = "approved"
              /\ now < approval[o.approval].expiresAt

\* The owner that stands behind the mandate in force.
CurrentOwner == IF Effective.owned THEN mandate.doc.owner ELSE NoDoc

Submit(f) ==
    /\ SubmitFlow(f)
    /\ now < op[f].expiresAt
    /\ StillAuthorized(op[f])
    /\ op' = [op EXCEPT ![f].owner = CurrentOwner]
    /\ UNCHANGED <<now, mandate, session, approval, signed, graceFrom, cut>>

Execute(f) ==
    /\ \E e \in {"moved", "reverted"} : ExecuteFlow(f, e)
    /\ UNCHANGED <<now, mandate, session, approval, op, signed, graceFrom, cut>>

\* Mutant: an approval is not used up.
ConsumeNothing(a) == UNCHANGED approval

\* consumeApproval, in the locked section that confirms the operation.
ConsumeApproval(a) ==
    approval' = IF a # NoApproval /\ approval[a].status = "approved"
                  THEN [approval EXCEPT ![a].status = "consumed"]
                  ELSE approval

Resolve(f, s) ==
    /\ ResolveFlow(f, s)
    /\ Unclassified \/ effect[f] # "moved" \/ s = "confirmed"
    /\ op' = [op EXCEPT ![f].doneAt = now,
                        ![f].rank = Cardinality({g \in Flows : op[g].rank > 0}) + 1]
    /\ IF s = "confirmed" THEN ConsumeApproval(op[f].approval)
       ELSE UNCHANGED approval
    /\ UNCHANGED <<now, mandate, session, signed, graceFrom, cut>>

-----------------------------------------------------------------------------
\* Time passes; a prepared intent that reaches its expiry can only expire.
Tick ==
    /\ now < MaxTime
    /\ now' = now + 1
    /\ flow' = [f \in Flows |->
                  IF flow[f] = "prepared" /\ op[f].expiresAt <= now + 1
                    THEN "expired" ELSE flow[f]]
    /\ UNCHANGED <<effect, mandate, session, approval, op, signed, graceFrom,
                   cut>>

Init ==
    /\ ContractInit
    /\ now = 0
    /\ mandate = NoMandate
    /\ session = [x \in Sessions |-> [status |-> "none"]]
    /\ approval = [a \in Approvals |->
                     [status |-> "none", hash |-> NoDoc, by |-> NoDoc]]
    /\ op = [f \in Flows |->
               [hash |-> NoDoc, kind |-> "normal", amount |-> 0, asked |-> FALSE,
                approval |-> NoApproval, doneAt |-> Never, rank |-> 0]]
    /\ signed = {}
    /\ graceFrom = Never
    /\ cut = {}

Next ==
    \/ \E d \in Documents : Register(d)
    \/ \E action \in OwnerActions : OwnerSigns(action)
    \/ \E s \in signed : Deliver(s)
    \/ ScheduleRecovery
    \/ \E x \in Sessions, d \in Documents : CreateSession(x, d) \/ CompleteSetup(x, d)
    \/ \E x \in Sessions, s \in signed : CompleteOwnerAction(x, s)
    \/ \E f \in Flows, r \in Requests : Prepare(f, r)
    \/ \E a \in Approvals, r \in Requests : RequestApproval(a, r)
    \/ \E a \in Approvals : DecideApproval(a)
    \/ \E f \in Flows : Submit(f) \/ Execute(f)
    \/ \E f \in Flows, s \in FinalStatus : Resolve(f, s)
    \/ Tick

Spec == Init /\ [][Next]_vars

-----------------------------------------------------------------------------
(* Properties.                                                              *)

(***************************************************************************)
(* A rolling cap is never exceeded by confirmed realizations, although it  *)
(* is evaluated when an operation is prepared and the operation counts     *)
(* only from its confirmation, under a mandate that may have been replaced *)
(* meanwhile (authorizeRealize, confirmedRealizeSum).                      *)
(***************************************************************************)
SpentBefore(f, window) ==
    {g \in Flows : /\ flow[g] = "confirmed"
                   /\ op[g].kind = op[f].kind
                   /\ op[g].rank <= op[f].rank
                   /\ op[g].doneAt >= op[f].doneAt - window}

CapsHold ==
    \A f \in Flows :
        Level = "on" /\ flow[f] = "confirmed" =>
            CASE op[f].kind = "yield_realize" ->
                   /\ ~Exceeds(Amount(SpentBefore(f, Day)), op[f].policy.daily)
                   /\ ~Exceeds(Amount(SpentBefore(f, Month)), op[f].policy.monthly)
              [] op[f].kind = "deposit" ->
                   ~Exceeds(Amount(SpentBefore(f, Day)), op[f].policy.depositDaily)
              [] OTHER -> TRUE

(***************************************************************************)
(* What the policy refers to the owner is executed only with the approval  *)
(* of the owner whose mandate is in force when it is submitted: an         *)
(* approval does not survive a replacement, a rotation or a recovery.      *)
(***************************************************************************)
OwnerApproved ==
    \A f \in Flows :
        op[f].asked /\ effect[f] = "moved" =>
            /\ op[f].approval # NoApproval
            /\ approval[op[f].approval].by = op[f].owner
            /\ op[f].owner \in Owners

(***************************************************************************)
(* One approval authorizes one executed operation, across mandates and     *)
(* retries.                                                                *)
(***************************************************************************)
ApprovalSpentOnce ==
    \A a \in Approvals :
        Cardinality({f \in Flows : op[f].approval = a /\ effect[f] = "moved"}) <= 1

(***************************************************************************)
(* The kill switch works at once, in "warn" mode too: nothing that was not *)
(* submitted when the owner revoked is executed until that owner registers *)
(* a new mandate.                                                          *)
(***************************************************************************)
RevokedMovesNothing == \A f \in cut : effect[f] = "none"

(***************************************************************************)
(* The owner of a mandate is replaced only with its own signature, after   *)
(* the mandate expired, or after a recovery that has been pending for the  *)
(* whole grace period; and never after it revoked.                         *)
(***************************************************************************)
OwnerReplaced ==
    mandate # NoMandate /\ mandate'.doc.owner # mandate.doc.owner

Displaced ==
    \/ mandate.doc.owner \in mandate'.doc.countersigned
    \/ mandate.doc.expires <= now
    \/ graceFrom # Never /\ graceFrom + Grace <= now

OwnerKeepsControl ==
    [][OwnerReplaced => mandate.status # "revoked" /\ Displaced]_vars

(***************************************************************************)
(* A management link cannot undo a revocation its owner had not yet made   *)
(* when the link was created: completing it restores a revoked mandate     *)
(* only if the owner reviewed it as revoked.                               *)
(***************************************************************************)
LinkNeverUndoesRevocation ==
    [][\A x \in Sessions :
         /\ session[x].status = "pending" /\ session'[x].status = "completed"
         /\ mandate # NoMandate /\ mandate.status = "revoked"
         /\ mandate'.status = "active"
         /\ session[x].expected # NoState
         => session[x].expected.status = "revoked"]_vars
=============================================================================
