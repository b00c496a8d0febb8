--------------------------- MODULE MandateProofs ---------------------------
(***************************************************************************)
(* Proofs about Mandate for any owners, documents, links, approvals,       *)
(* operations, policies and durations.                                     *)
(***************************************************************************)
EXTENDS Mandate, SumProofs

\* The rows, with the fields every one of them has.
RowsOK ==
    /\ DOMAIN session = Sessions
    /\ DOMAIN approval = Approvals
    /\ DOMAIN op = Flows
    /\ \A a \in Approvals : {"status", "hash", "by"} \subseteq DOMAIN approval[a]
    /\ \A f \in Flows :
         /\ {"hash", "kind", "amount", "asked", "approval", "doneAt", "rank"}
               \subseteq DOMAIN op[f]
         /\ flow[f] # "absent" => {"owner", "policy"} \subseteq DOMAIN op[f]
         /\ op[f].asked \in BOOLEAN
         /\ op[f].approval \in Approvals \cup {NoApproval}

\* A pending recovery ends one grace period after it was scheduled.
RecordOK ==
    mandate # NoMandate /\ mandate.status = "recovery_pending" =>
        graceFrom \in Nat /\ mandate.recoveryAt = graceFrom + Grace

ShapeInv == MandateTypeOK /\ RowsOK /\ RecordOK

\* What has not been submitted has had no effect.
UnsubmittedInert ==
    \A f \in Flows :
        flow[f] \in {"absent", "prepared", "expired"} => effect[f] = "none"

\* A revocation stays in force, and no cut operation gets past it.
CutInv ==
    \A f \in cut : /\ mandate # NoMandate /\ mandate.status = "revoked"
                   /\ flow[f] \in {"absent", "prepared", "expired"}

\* A decided approval is that of its document's owner.
DecidedByOwner ==
    \A a \in Approvals :
        approval[a].status \in {"approved", "consumed"} =>
            /\ approval[a].hash \in Documents
            /\ approval[a].by = approval[a].hash.owner

\* The approvals operations were prepared with: granted by then, and used up
\* when the operation is confirmed.
ApprovalOfOp ==
    \A f \in Flows : op[f].approval # NoApproval =>
        /\ approval[op[f].approval].status \in {"approved", "consumed"}
        /\ flow[f] = "confirmed" => approval[op[f].approval].status = "consumed"

Claims(f) == flow[f] \in {"prepared", "submitted", "confirmed"}

\* No two operations claim one approval.
ClaimedOnce ==
    \A f, g \in Flows :
        Claims(f) /\ Claims(g) /\ op[f].approval = op[g].approval
          /\ op[f].approval # NoApproval => f = g

\* An operation referred to the owner has its approval, and once submitted
\* the owner in force is the one who gave it.
AskedApproved ==
    \A f \in Flows : op[f].asked =>
        /\ Level = "on"
        /\ op[f].approval # NoApproval
        /\ flow[f] \notin {"absent", "prepared", "expired"} =>
              /\ approval[op[f].approval].by = op[f].owner
              /\ op[f].owner \in Owners

\* With every landed operation classified, what moved is confirmed or will be.
MovedClaims ==
    ~Unclassified => \A f \in Flows : effect[f] = "moved" => Claims(f)

-----------------------------------------------------------------------------
(* What a step can change.                                                  *)

USE DEF contractVars

Registers(d, t) ==
    /\ t \in Nat /\ t <= now
    /\ mandate # NoMandate => MayReplace(mandate, d, t)
    /\ mandate' = [doc |-> d, status |-> "active",
                   recoveryAt |-> Never, revokedAt |-> Never]
    /\ graceFrom' = Never
    /\ cut' = {}

\* The mandate changes only by registration, revocation and recovery.
LEMMA MandateSteps ==
    ASSUME Next
    PROVE  \/ UNCHANGED <<mandate, graceFrom, cut>>
           \/ \E d \in Documents, t \in Times : Registers(d, t)
           \/ /\ \E s \in signed : Revoke(s) \/ CancelRecovery(s)
              /\ UNCHANGED flow
           \/ ScheduleRecovery
<1>1. CASE \E d \in Documents : Register(d)
  BY <1>1, MandateAssumption DEF Register, RegisterMandate, Registers, ReadTimes, Times
<1>2. CASE \E x \in Sessions, d \in Documents : CreateSession(x, d) \/ CompleteSetup(x, d)
  BY <1>2, MandateAssumption DEF CreateSession, CompleteSetup, RegisterMandate, Registers,
                                 ReadTimes, Times
<1>3. CASE \/ \E s \in signed : Deliver(s)
           \/ \E x \in Sessions, s \in signed : CompleteOwnerAction(x, s)
  BY <1>3 DEF Deliver, CompleteOwnerAction
<1> QED
  BY <1>1, <1>2, <1>3 DEF Next, OwnerSigns, Prepare, RequestApproval,
     DecideApproval, Submit, Execute, Resolve, Tick

\* Operations change only by the flow's own steps and by time.
LEMMA FlowSteps ==
    ASSUME Next
    PROVE  \/ UNCHANGED <<flow, effect, op>>
           \/ \E f \in Flows, r \in Requests : Prepare(f, r)
           \/ \E f \in Flows : Submit(f) \/ Execute(f)
           \/ \E f \in Flows, s \in FinalStatus : Resolve(f, s)
           \/ Tick
BY DEF Next, Register, RegisterMandate, OwnerSigns, Deliver, ScheduleRecovery,
       CreateSession, CompleteSetup, CompleteOwnerAction, RequestApproval,
       DecideApproval

\* Approval rows change only when one is issued, requested, decided or used.
LEMMA ApprovalSteps ==
    ASSUME Next
    PROVE  \/ UNCHANGED approval
           \/ \E d \in Documents, t \in Times : IssueInitialDeposit(d, t) /\ UNCHANGED contractVars
                  /\ UNCHANGED op
           \/ \E a \in Approvals, r \in Requests : RequestApproval(a, r)
           \/ \E a \in Approvals : DecideApproval(a)
           \/ \E f \in Flows, s \in FinalStatus : Resolve(f, s)
BY DEF Next, Register, RegisterMandate, OwnerSigns, Deliver, ScheduleRecovery,
       CreateSession, CompleteSetup, CompleteOwnerAction, ReadTimes,
       Prepare, Submit, Execute, Tick

-----------------------------------------------------------------------------
(* Types.                                                                   *)

\* The initial state is well formed.
LEMMA ShapeInit == ASSUME Init PROVE ShapeInv
<1>1. ContractTypeOK
  BY DEF Init, ContractInit, ContractTypeOK, FlowStates, Effects
<1>2. now \in Times
  BY MandateAssumption DEF Init, Times
<1>3. RowsOK
  <2>1. ASSUME NEW a \in Approvals
        PROVE  {"status", "hash", "by"} \subseteq DOMAIN approval[a]
    BY DEF Init
  <2>2. ASSUME NEW f \in Flows
        PROVE  /\ op[f] = [hash |-> NoDoc, kind |-> "normal", amount |-> 0, asked |-> FALSE,
                           approval |-> NoApproval, doneAt |-> Never, rank |-> 0]
               /\ flow[f] = "absent"
    BY DEF Init, ContractInit
  <2>3. DOMAIN session = Sessions /\ DOMAIN approval = Approvals /\ DOMAIN op = Flows
    BY DEF Init
  <2>4. ASSUME NEW f \in Flows
        PROVE  /\ {"hash", "kind", "amount", "asked", "approval", "doneAt", "rank"}
                     \subseteq DOMAIN op[f]
               /\ op[f].asked = FALSE /\ op[f].approval = NoApproval
    BY <2>2
  <2>5. ASSUME NEW f \in Flows PROVE op[f].asked \in BOOLEAN
    BY <2>4
  <2> QED  BY <2>1, <2>2, <2>3, <2>4, <2>5 DEF RowsOK
<1>4. MandateTypeOK
  BY <1>1, <1>2 DEF Init, MandateTypeOK
<1> QED  BY <1>3, <1>4 DEF Init, ShapeInv, RecordOK

\* The record, the pending recovery and the cut set.
LEMMA RecordKept ==
    ASSUME ShapeInv, Next
    PROVE  /\ RecordOK'
           /\ mandate' = NoMandate \/
                /\ mandate' \in Records
                /\ (mandate'.status = "recovery_pending") <=> (mandate'.recoveryAt # Never)
                /\ (mandate'.status = "revoked") <=> (mandate'.revokedAt # Never)
           /\ graceFrom' \in Times \cup {Never}
           /\ cut' \subseteq Flows
<1> USE DEF ShapeInv, MandateTypeOK
<1>0. now \in Nat /\ Grace \in Nat
  BY MandateAssumption DEF Times
<1>1. CASE UNCHANGED <<mandate, graceFrom, cut>>
  BY <1>1 DEF RecordOK
<1>2. CASE \E d \in Documents, t \in Times : Registers(d, t)
  <2>1. PICK d \in Documents, t \in Times : Registers(d, t)
    BY <1>2
  <2>2. /\ mandate'.doc = d /\ mandate'.status = "active"
        /\ mandate'.recoveryAt = Never /\ mandate'.revokedAt = Never
        /\ mandate' \in Records
        /\ graceFrom' = Never /\ cut' = {}
    BY <2>1 DEF Registers, Records
  <2> QED  BY <2>2 DEF RecordOK
<1>3. CASE \E s \in signed : Revoke(s)
  <2>1. PICK s \in signed : Revoke(s)
    BY <1>3
  <2>2. mandate # NoMandate /\ mandate \in Records
    BY <2>1 DEF Revoke, RecordOK
  <2>3. CASE mandate.status = "revoked"
    BY <2>1, <2>3 DEF Revoke, RecordOK
  <2>4. CASE mandate.status # "revoked"
    <3>1. /\ mandate'.doc = mandate.doc /\ mandate'.status = "revoked"
          /\ mandate'.recoveryAt = Never /\ mandate'.revokedAt = now
          /\ mandate' \in Records
          /\ graceFrom' = Never /\ cut' \subseteq Flows
      BY <1>0, <2>1, <2>2, <2>4 DEF Revoke, Records
    <3> QED  BY <1>0, <2>2, <3>1 DEF RecordOK, Never
  <2> QED  BY <2>3, <2>4
<1>4. CASE \E s \in signed : CancelRecovery(s)
  <2>1. mandate # NoMandate /\ mandate.status = "recovery_pending"
    BY <1>4 DEF CancelRecovery, EffectiveStatus
  <2> QED  BY <2>1, <1>4 DEF CancelRecovery, RecordOK, Records, Never
<1>5. CASE ScheduleRecovery
  <2>1. mandate # NoMandate /\ mandate \in Records /\ mandate.status = "active"
    BY <1>5 DEF ScheduleRecovery, RecordOK
  <2>2. now + Grace \in Nat /\ now + Grace # Never
    BY <1>0 DEF Never
  <2>3. /\ mandate'.doc = mandate.doc /\ mandate'.status = "recovery_pending"
        /\ mandate'.recoveryAt = now + Grace /\ mandate'.revokedAt = mandate.revokedAt
        /\ mandate' \in Records
        /\ graceFrom' = now /\ cut' = cut
    BY <2>1, <2>2, <1>5 DEF ScheduleRecovery, Records
  <2> QED  BY <1>0, <2>1, <2>2, <2>3 DEF RecordOK
<1> QED  BY <1>1, <1>2, <1>3, <1>4, <1>5, MandateSteps

\* The mandate in force is a document's, or there is none.
LEMMA EffectiveHash ==
    ASSUME ShapeInv
    PROVE  Effective.hash \in Documents \cup {NoDoc}
BY DEF ShapeInv, MandateTypeOK, Records, Effective, EffectiveStatus

StatusOf == {"none", "pending", "approved", "denied", "consumed", "expired"}

\* The approval rows.
LEMMA ApprovalsKept ==
    ASSUME ShapeInv, Next
    PROVE  /\ DOMAIN approval' = Approvals
           /\ \A a \in Approvals :
                /\ {"status", "hash", "by"} \subseteq DOMAIN approval'[a]
                /\ approval'[a].status \in StatusOf
                /\ approval'[a].hash \in Documents \cup {NoDoc}
<1> USE DEF ShapeInv, MandateTypeOK, RowsOK, StatusOf
<1>1. CASE UNCHANGED approval
  BY <1>1
<1>2. CASE \E d \in Documents, t \in Times : IssueInitialDeposit(d, t)
  BY <1>2 DEF IssueInitialDeposit, FreeApprovals
<1>3. CASE \E a \in Approvals, r \in Requests : RequestApproval(a, r)
  <2>1. Effective.hash \in Documents \cup {NoDoc}
    BY EffectiveHash
  <2> QED  BY <1>3, <2>1 DEF RequestApproval
<1>4. CASE \E a \in Approvals : DecideApproval(a)
  BY <1>4 DEF DecideApproval, Outstanding
<1>5. CASE \E f \in Flows, s \in FinalStatus : Resolve(f, s)
  BY <1>5 DEF Resolve, ConsumeApproval
<1> QED  BY <1>1, <1>2, <1>3, <1>4, <1>5, ApprovalSteps

\* What the operation in force authorizes is an approval or nothing.
LEMMA AuthorizationsType ==
    ASSUME NEW r, NEW a \in AuthorizationsFor(r)
    PROVE  a \in Approvals \cup {NoApproval}
BY DEF AuthorizationsFor

CommonFields == {"hash", "kind", "amount", "asked", "approval", "doneAt", "rank"}

\* What prepare records.
LEMMA PreparedRecord ==
    ASSUME ShapeInv, NEW f \in Flows, NEW r \in Requests, Prepare(f, r)
    PROVE  /\ \E a \in AuthorizationsFor(r) : op'[f].approval = a
           /\ op'[f].hash = IF Level = "off" THEN NoDoc ELSE Effective.hash
           /\ CommonFields \cup {"owner", "policy"} \subseteq DOMAIN op'[f]
           /\ op'[f].asked \in BOOLEAN
           /\ op'[f].asked => Level = "on" /\ NeedsOwner(r, Effective.policy)
           /\ op'[f].kind = r.kind /\ op'[f].amount = r.amount
           /\ op'[f].policy = Effective.policy
           /\ op'[f].doneAt = Never /\ op'[f].rank = 0
           /\ DOMAIN op' = Flows
           /\ \A g \in Flows \ {f} : op'[g] = op[g]
<1> DEFINE asked == Level = "on" /\ NeedsOwner(r, Effective.policy)
           rec(a) == [kind |-> r.kind, amount |-> r.amount, approval |-> a,
                      hash |-> IF Level = "off" THEN NoDoc ELSE Effective.hash,
                      policy |-> Effective.policy, asked |-> asked,
                      expiresAt |-> now + FlowTtl, doneAt |-> Never, rank |-> 0,
                      owner |-> NoDoc]
<1>1. PICK a \in AuthorizationsFor(r) : op' = [op EXCEPT ![f] = rec(a)]
  BY DEF Prepare
<1>2. DOMAIN op = Flows
  BY DEF ShapeInv, RowsOK
<1>3. asked \in BOOLEAN
  OBVIOUS
<1>4. /\ op'[f] = rec(a) /\ DOMAIN op' = Flows
      /\ \A g \in Flows \ {f} : op'[g] = op[g]
  BY <1>1, <1>2
<1>5. op'[f].asked = asked
  BY <1>4
<1>6. op'[f].asked \in BOOLEAN /\ (op'[f].asked => asked)
  <2> HIDE DEF asked
  <2> QED  BY <1>3, <1>5
<1>7. /\ op'[f].approval = a
      /\ op'[f].hash = IF Level = "off" THEN NoDoc ELSE Effective.hash
      /\ CommonFields \cup {"owner", "policy"} \subseteq DOMAIN op'[f]
      /\ op'[f].kind = r.kind /\ op'[f].amount = r.amount
      /\ op'[f].policy = Effective.policy
      /\ op'[f].doneAt = Never /\ op'[f].rank = 0
  BY <1>4 DEF CommonFields
<1> QED  BY <1>4, <1>6, <1>7

\* What every other step leaves of it.
LEMMA OpKeeps ==
    ASSUME ShapeInv, Next, ~ \E f \in Flows, r \in Requests : Prepare(f, r)
    PROVE  /\ DOMAIN op' = Flows
           /\ \A g \in Flows :
                /\ DOMAIN op'[g] = DOMAIN op[g]
                /\ op'[g].approval = op[g].approval
                /\ op'[g].hash = op[g].hash
                /\ op'[g].asked = op[g].asked
                /\ op'[g].kind = op[g].kind
                /\ op'[g].amount = op[g].amount
                /\ flow[g] # "absent" => op'[g].policy = op[g].policy
                /\ (~ \E s \in FinalStatus : Resolve(g, s)) =>
                      op'[g].doneAt = op[g].doneAt /\ op'[g].rank = op[g].rank
<1> USE DEF ShapeInv, RowsOK
<1>1. CASE UNCHANGED op
  BY <1>1
<1>2. CASE \E f \in Flows : Submit(f)
  <2>1. PICK f \in Flows : op' = [op EXCEPT ![f].owner = CurrentOwner]
    BY <1>2 DEF Submit
  <2> QED  BY <2>1
<1>3. CASE \E f \in Flows, s \in FinalStatus : Resolve(f, s)
  <2> DEFINE n == Cardinality({g \in Flows : op[g].rank > 0}) + 1
  <2>1. PICK f \in Flows, s \in FinalStatus : Resolve(f, s)
    BY <1>3
  <2>2. op' = [op EXCEPT ![f].doneAt = now, ![f].rank = n]
    BY <2>1 DEF Resolve
  <2> HIDE DEF n
  <2> QED  BY <2>1, <2>2
<1> QED  BY <1>1, <1>2, <1>3, FlowSteps DEF Execute, Tick

\* A flow leaves "absent" only when it is prepared, by a flow's own step.
LEMMA FlowKept ==
    ASSUME ShapeInv, Next
    PROVE  /\ ContractTypeOK'
           /\ \A g \in Flows :
                \/ flow'[g] = "absent"
                \/ flow[g] # "absent"
                \/ \E r \in Requests : Prepare(g, r)
<1> USE DEF ShapeInv, MandateTypeOK, ContractTypeOK, FlowStates, Effects, FinalStatus
<1>1. CASE UNCHANGED <<flow, effect>>
  BY <1>1
<1>2. CASE \E f \in Flows, r \in Requests : Prepare(f, r)
  <2>1. PICK f \in Flows, r \in Requests : Prepare(f, r)
    BY <1>2
  <2>2. flow' = [flow EXCEPT ![f] = "prepared"] /\ effect' = effect
    BY <2>1 DEF Prepare, PrepareFlow, SetFlow
  <2> QED  BY <2>1, <2>2
<1>3. CASE \E f \in Flows : Submit(f) \/ Execute(f)
  BY <1>3 DEF Submit, Execute, SubmitFlow, ExecuteFlow, SetFlow
<1>4. CASE \E f \in Flows, s \in FinalStatus : Resolve(f, s)
  BY <1>4 DEF Resolve, ResolveFlow, SetFlow
<1>5. CASE Tick
  BY <1>5 DEF Tick
<1> QED  BY <1>1, <1>2, <1>3, <1>4, <1>5, FlowSteps

\* Rows and operations keep naming documents.
LEMMA RowsKept ==
    ASSUME ShapeInv, Next
    PROVE  RowsOK' /\ \A f \in Flows : op'[f].hash \in Documents \cup {NoDoc}
<1>1. DOMAIN session' = Sessions
  BY DEF ShapeInv, RowsOK, Next, Register, OwnerSigns, Deliver, ScheduleRecovery,
         CreateSession, CompleteSetup, CompleteOwnerAction, Complete, RequestApproval,
         DecideApproval, Prepare, Submit, Execute, Resolve, Tick
<1>2. /\ DOMAIN op' = Flows
      /\ \A f \in Flows :
           /\ CommonFields \subseteq DOMAIN op'[f]
           /\ op'[f].approval \in Approvals \cup {NoApproval}
           /\ op'[f].hash \in Documents \cup {NoDoc}
           /\ flow'[f] # "absent" => {"owner", "policy"} \subseteq DOMAIN op'[f]
  <2>1. CASE \E f \in Flows, r \in Requests : Prepare(f, r)
    <3>1. PICK f \in Flows, r \in Requests : Prepare(f, r)
      BY <2>1
    <3>2. \A g \in Flows \ {f} : flow'[g] = flow[g]
      BY <3>1 DEF Prepare, PrepareFlow, SetFlow, ShapeInv, MandateTypeOK, ContractTypeOK
    <3> QED
      BY <3>1, <3>2, PreparedRecord, AuthorizationsType, EffectiveHash
         DEF CommonFields, ShapeInv, RowsOK, MandateTypeOK
  <2>2. CASE ~ \E f \in Flows, r \in Requests : Prepare(f, r)
    BY <2>2, OpKeeps, FlowKept DEF CommonFields, ShapeInv, RowsOK, MandateTypeOK
  <2> QED  BY <2>1, <2>2
<1>3. ASSUME NEW f \in Flows
      PROVE  op'[f].asked \in BOOLEAN
  <2>1. CASE \E g \in Flows, r \in Requests : Prepare(g, r)
    <3>1. PICK g \in Flows, r \in Requests : Prepare(g, r)
      BY <2>1
    <3>2. CASE g = f
      BY <3>1, <3>2, PreparedRecord
    <3>3. CASE g # f
      <4>1. op'[f] = op[f]
        BY <3>1, <3>3, PreparedRecord
      <4> QED  BY <4>1 DEF ShapeInv, RowsOK
    <3> QED  BY <3>2, <3>3
  <2>2. CASE ~ \E g \in Flows, r \in Requests : Prepare(g, r)
    <3>1. op'[f].asked = op[f].asked
      BY <2>2, OpKeeps
    <3> QED  BY <3>1 DEF ShapeInv, RowsOK
  <2> QED  BY <2>1, <2>2
<1> QED  BY <1>1, <1>2, <1>3, ApprovalsKept DEF RowsOK, CommonFields

\* Every step keeps the state well formed.
LEMMA ShapeStep == ASSUME ShapeInv, [Next]_vars PROVE ShapeInv'
<1>1. CASE UNCHANGED vars
  BY <1>1 DEF vars, ShapeInv, MandateTypeOK, RowsOK, RecordOK, ContractTypeOK
<1>2. CASE Next
  <2>1. now' \in Times
    <3>1. CASE Tick
      BY <3>1, MandateAssumption DEF Tick, Times, ShapeInv, MandateTypeOK
    <3> QED
      BY <1>2, <3>1 DEF ShapeInv, MandateTypeOK, Next, Register, RegisterMandate,
         OwnerSigns, Deliver, ScheduleRecovery, CreateSession, CompleteSetup,
         CompleteOwnerAction, RequestApproval, DecideApproval, Prepare, Submit,
         Execute, Resolve
  <2>2. ASSUME NEW x \in Sessions
        PROVE  session'[x].status \in {"none", "pending", "completed"}
    <3>1. \/ UNCHANGED session
          \/ \E y \in Sessions, d \in Documents : CreateSession(y, d)
          \/ \E y \in Sessions : Complete(y)
      BY <1>2 DEF Next, Register, OwnerSigns, Deliver, ScheduleRecovery,
         CompleteSetup, CompleteOwnerAction, RequestApproval, DecideApproval,
         Prepare, Submit, Execute, Resolve, Tick
    <3> QED
      BY <3>1 DEF ShapeInv, RowsOK, MandateTypeOK, CreateSession, Complete
  <2>3. signed' \subseteq [action : OwnerActions, doc : Documents, at : Times]
    <3>1. CASE \E action \in OwnerActions : OwnerSigns(action)
      BY <3>1 DEF OwnerSigns, ShapeInv, MandateTypeOK, Records
    <3> QED
      BY <1>2, <3>1 DEF ShapeInv, MandateTypeOK, Next, Register, RegisterMandate,
         Deliver, ScheduleRecovery, CreateSession, CompleteSetup,
         CompleteOwnerAction, RequestApproval, DecideApproval, Prepare, Submit,
         Execute, Resolve, Tick
  <2>4. MandateTypeOK'
    BY <1>2, <2>1, <2>2, <2>3, RecordKept, ApprovalsKept, RowsKept, FlowKept
       DEF MandateTypeOK, StatusOf
  <2> QED  BY <1>2, <2>4, RecordKept, RowsKept DEF ShapeInv
<1> QED  BY <1>1, <1>2

\* Every reachable state has its types (the ledger's rows and their history).
THEOREM MandateTypeCorrect == Spec => []MandateTypeOK
<1>1. Spec => []ShapeInv
  BY ShapeInit, ShapeStep, PTL DEF Spec
<1> QED  BY <1>1, PTL DEF ShapeInv

\* So every reachable state is well formed.
LEMMA ShapeAlways == Spec => []ShapeInv
BY ShapeInit, ShapeStep, PTL DEF Spec

-----------------------------------------------------------------------------
(* The owner.                                                               *)

\* Replacing the owner takes its signature, an expiry or a full grace period.
LEMMA ControlStep ==
    ASSUME ShapeInv, Next, OwnerReplaced
    PROVE  mandate.status # "revoked" /\ Displaced
<1>1. mandate # NoMandate /\ mandate \in Records
  BY DEF OwnerReplaced, ShapeInv, MandateTypeOK
<1>2. PICK d \in Documents, t \in Times : Registers(d, t)
  <2>1. ASSUME NEW s \in signed, Revoke(s) \/ CancelRecovery(s)
        PROVE  mandate'.doc = mandate.doc
    BY <1>1, <2>1 DEF Revoke, CancelRecovery, Records
  <2>2. ASSUME ScheduleRecovery PROVE mandate'.doc = mandate.doc
    BY <1>1, <2>2 DEF ScheduleRecovery, Records
  <2> QED  BY <2>1, <2>2, MandateSteps DEF OwnerReplaced
<1>3. /\ t \in Nat /\ now \in Nat /\ t <= now
      /\ MayReplace(mandate, d, t) /\ mandate'.doc = d /\ mandate.doc.expires \in Nat
  BY <1>1, <1>2, MandateAssumption DEF Registers, ShapeInv, MandateTypeOK, Times, Records
<1>4. CASE EffectiveStatus(mandate, t) = "expired"
  BY <1>1, <1>3, <1>4 DEF EffectiveStatus, Displaced, Records
<1>5. CASE EffectiveStatus(mandate, t) = "recovery_elapsed"
  <2>1. mandate.status = "recovery_pending" /\ mandate.recoveryAt <= t
    BY <1>1, <1>5 DEF EffectiveStatus, Records
  <2>2. graceFrom \in Nat /\ graceFrom + Grace <= t /\ Grace \in Nat
    BY <1>1, <2>1, MandateAssumption DEF ShapeInv, RecordOK
  <2> QED  BY <1>3, <2>1, <2>2 DEF Displaced, Never
<1>6. CASE EffectiveStatus(mandate, t) # "revoked" /\ mandate.doc.owner \in d.countersigned
  BY <1>3, <1>6 DEF EffectiveStatus, Displaced
<1> QED  BY <1>3, <1>4, <1>5, <1>6 DEF MayReplace, OwnerReplaced

\* For any owners, documents and delays between reading the clock and taking
\* the locks: registerMandate replaces the owner of a mandate only with its
\* signature, after an expiry or after a whole grace period, and never after a
\* revocation.
THEOREM ControlKept == Spec => OwnerKeepsControl
<1>1. ASSUME ShapeInv, [Next]_vars
      PROVE  [OwnerReplaced => mandate.status # "revoked" /\ Displaced]_vars
  BY <1>1, ControlStep
<1> QED  BY <1>1, ShapeAlways, PTL DEF Spec, OwnerKeepsControl

LinkStep ==
    \A x \in Sessions :
         /\ session[x].status = "pending" /\ session'[x].status = "completed"
         /\ mandate # NoMandate /\ mandate.status = "revoked"
         /\ mandate'.status = "active"
         /\ session[x].expected # NoState
         => session[x].expected.status = "revoked"

\* A link created before a revocation cannot be completed after it in a way
\* that restores the mandate (assertOwnerSessionCurrent).
THEOREM LinksRespectRevocation == Spec => LinkNeverUndoesRevocation
<1>1. ASSUME ShapeInv, Next PROVE LinkStep
  <2> SUFFICES ASSUME NEW x \in Sessions,
                      session[x].status = "pending", session'[x].status = "completed",
                      mandate # NoMandate, mandate.status = "revoked",
                      mandate'.status = "active", session[x].expected # NoState
               PROVE  session[x].expected.status = "revoked"
    BY DEF LinkStep
  <2>1. DOMAIN session = Sessions
    BY <1>1 DEF ShapeInv, RowsOK
  <2>2. \/ \E d \in Documents : CompleteSetup(x, d)
        \/ \E s \in signed : CompleteOwnerAction(x, s)
    <3>1. CASE \E y \in Sessions, d \in Documents : CreateSession(y, d)
      BY <2>1, <3>1 DEF CreateSession
    <3>2. CASE UNCHANGED session
      BY <3>2
    <3>3. CASE \E y \in Sessions, d \in Documents : CompleteSetup(y, d)
      BY <2>1, <3>3 DEF CompleteSetup, Complete
    <3>4. CASE \E y \in Sessions, s \in signed : CompleteOwnerAction(y, s)
      BY <2>1, <3>4 DEF CompleteOwnerAction, Complete
    <3> QED
      BY <1>1, <3>1, <3>2, <3>3, <3>4 DEF Next, Register, OwnerSigns, Deliver,
         ScheduleRecovery, RequestApproval, DecideApproval, Prepare, Submit,
         Execute, Resolve, Tick
  <2>3. StateOf(mandate) = session[x].expected
    BY <2>2 DEF CompleteSetup, CompleteOwnerAction, LinkCurrent
  <2> QED  BY <2>3 DEF StateOf
<1>2. ASSUME ShapeInv, [Next]_vars PROVE [LinkStep]_vars
  BY <1>1, <1>2
<1> QED  BY <1>2, ShapeAlways, PTL DEF Spec, LinkNeverUndoesRevocation, LinkStep

-----------------------------------------------------------------------------
(* The kill switch.                                                         *)

\* An operation takes effect only once it is submitted.
LEMMA InertStep ==
    ASSUME ShapeInv, UnsubmittedInert, [Next]_vars
    PROVE  UnsubmittedInert'
<1> USE DEF UnsubmittedInert, ShapeInv, MandateTypeOK, ContractTypeOK
<1>1. CASE UNCHANGED <<flow, effect>>
  BY <1>1
<1>2. CASE \E f \in Flows, r \in Requests : Prepare(f, r)
  BY <1>2 DEF Prepare, PrepareFlow, SetFlow
<1>3. CASE \E f \in Flows : Submit(f) \/ Execute(f)
  BY <1>3 DEF Submit, Execute, SubmitFlow, ExecuteFlow, SetFlow
<1>4. CASE \E f \in Flows, s \in FinalStatus : Resolve(f, s)
  BY <1>4 DEF Resolve, ResolveFlow, SetFlow, Truthful
<1>5. CASE Tick
  BY <1>5 DEF Tick
<1> QED  BY <1>1, <1>2, <1>3, <1>4, <1>5, FlowSteps DEF vars

\* A revocation stays, and what it cut is never submitted.
LEMMA CutStep ==
    ASSUME ShapeInv, CutInv, Level # "off", [Next]_vars
    PROVE  CutInv'
<1>1. ASSUME UNCHANGED <<mandate, cut>>, NEW f \in cut
      PROVE  flow'[f] \in {"absent", "prepared", "expired"}
  <2>1. f \in Flows /\ mandate # NoMandate /\ mandate.status = "revoked"
        /\ flow[f] \in {"absent", "prepared", "expired"}
    BY <1>1 DEF CutInv, ShapeInv, MandateTypeOK
  <2>2. Effective.revoked
    BY <2>1 DEF Effective, EffectiveStatus
  <2>3. ~ \E r \in Requests : Prepare(f, r)
    BY <2>2 DEF Prepare, AuthorizationsFor
  <2>4. ~ Submit(f)
    BY <2>2 DEF Submit, StillAuthorized
  <2> USE DEF ShapeInv, MandateTypeOK, ContractTypeOK
  <2>5. CASE UNCHANGED flow
    BY <2>1, <2>5
  <2>6. CASE \E g \in Flows, r \in Requests : Prepare(g, r)
    BY <2>1, <2>3, <2>6 DEF Prepare, PrepareFlow, SetFlow
  <2>7. CASE \E g \in Flows : Submit(g) \/ Execute(g)
    BY <2>1, <2>4, <2>7 DEF Submit, Execute, SubmitFlow, ExecuteFlow, SetFlow
  <2>8. CASE \E g \in Flows, s \in FinalStatus : Resolve(g, s)
    BY <2>1, <2>8 DEF Resolve, ResolveFlow, SetFlow
  <2>9. CASE Tick
    BY <2>1, <2>9 DEF Tick
  <2> QED  BY <2>5, <2>6, <2>7, <2>8, <2>9, FlowSteps DEF vars
<1>2. CASE UNCHANGED <<mandate, graceFrom, cut>>
  BY <1>1, <1>2 DEF CutInv
<1>3. CASE \E d \in Documents, t \in Times : Registers(d, t)
  BY <1>3 DEF Registers, CutInv
<1>4. ASSUME NEW s \in signed, Revoke(s), UNCHANGED flow
      PROVE  CutInv'
  <2>1. CASE mandate.status = "revoked"
    BY <1>1, <1>4, <2>1 DEF Revoke, CutInv
  <2>2. CASE mandate.status # "revoked"
    <3>1. mandate \in Records
      BY <1>4 DEF Revoke, ShapeInv, MandateTypeOK
    <3>2. mandate'.status = "revoked" /\ mandate' \in Records
      <4>1. now \in Nat
        BY MandateAssumption DEF ShapeInv, MandateTypeOK, Times
      <4> QED  BY <1>4, <2>2, <3>1, <4>1 DEF Revoke, Records
    <3> QED
      BY <1>4, <2>2, <3>2, MandateAssumption DEF Revoke, CutInv
  <2> QED  BY <2>1, <2>2
<1>5. ASSUME NEW s \in signed, CancelRecovery(s)
      PROVE  CutInv'
  BY <1>5 DEF CancelRecovery, EffectiveStatus, CutInv
<1>6. CASE ScheduleRecovery
  BY <1>6 DEF ScheduleRecovery, CutInv
<1> QED  BY <1>2, <1>3, <1>4, <1>5, <1>6, MandateSteps DEF vars

\* Whenever mandates are enforced at all, "warn" mode included: nothing that
\* was not submitted when the owner revoked is ever executed under the revoked
\* mandate (assertPreparedAuthorization, resolvePolicy).
THEOREM KillSwitchHolds ==
    ASSUME Level # "off"
    PROVE  Spec => []RevokedMovesNothing
<1> DEFINE I == ShapeInv /\ UnsubmittedInert /\ CutInv
<1>1. Init => I
  BY ShapeInit DEF Init, ContractInit, UnsubmittedInert, CutInv
<1>2. I /\ [Next]_vars => I'
  BY ShapeStep, InertStep, CutStep
<1>3. I => RevokedMovesNothing
  BY DEF UnsubmittedInert, CutInv, RevokedMovesNothing, ShapeInv, MandateTypeOK
<1> QED  BY <1>1, <1>2, <1>3, PTL DEF Spec

-----------------------------------------------------------------------------
(* Approvals.                                                               *)

Granted(a) == approval[a].status \in {"approved", "consumed"}

\* A granted approval stays granted, by the same owner for the same mandate,
\* and a used one stays used.
LEMMA GrantStays ==
    ASSUME ShapeInv, [Next]_vars, NEW a \in Approvals, Granted(a)
    PROVE  /\ Granted(a)'
           /\ approval'[a].hash = approval[a].hash /\ approval'[a].by = approval[a].by
           /\ approval[a].status = "consumed" => approval'[a].status = "consumed"
<1> USE DEF ShapeInv, RowsOK, Granted
<1>1. CASE UNCHANGED approval
  BY <1>1
<1>2. CASE \E d \in Documents, t \in Times : IssueInitialDeposit(d, t)
  BY <1>2 DEF IssueInitialDeposit, FreeApprovals
<1>3. CASE \E b \in Approvals, r \in Requests : RequestApproval(b, r)
  BY <1>3 DEF RequestApproval
<1>4. CASE \E b \in Approvals : DecideApproval(b)
  BY <1>4 DEF DecideApproval, Outstanding
<1>5. CASE \E f \in Flows, s \in FinalStatus : Resolve(f, s)
  BY <1>5 DEF Resolve, ConsumeApproval
<1> QED  BY <1>1, <1>2, <1>3, <1>4, <1>5, ApprovalSteps DEF vars

\* Only the owner of a document decides on its approvals.
LEMMA DecidedStep ==
    ASSUME ShapeInv, DecidedByOwner, [Next]_vars
    PROVE  DecidedByOwner'
<1> SUFFICES ASSUME NEW a \in Approvals, approval'[a].status \in {"approved", "consumed"}
             PROVE  /\ approval'[a].hash \in Documents
                    /\ approval'[a].by = approval'[a].hash.owner
  BY DEF DecidedByOwner
<1>1. CASE Granted(a)
  BY <1>1, GrantStays DEF DecidedByOwner, Granted
<1>2. CASE ~Granted(a)
  <2> USE DEF ShapeInv, RowsOK, Granted
  <2>1. CASE UNCHANGED approval
    BY <1>2, <2>1
  <2>2. CASE \E d \in Documents, t \in Times : IssueInitialDeposit(d, t)
    BY <1>2, <2>2 DEF IssueInitialDeposit, FreeApprovals
  <2>3. CASE \E b \in Approvals, r \in Requests : RequestApproval(b, r)
    BY <1>2, <2>3 DEF RequestApproval
  <2>4. CASE \E b \in Approvals : DecideApproval(b)
    <3>1. PICK b \in Approvals : DecideApproval(b)
      BY <2>4
    <3>2. mandate.doc = approval[b].hash /\ mandate.doc \in Documents
      BY <3>1 DEF DecideApproval, MandateTypeOK, Records
    <3> QED  BY <1>2, <3>1, <3>2 DEF DecideApproval
  <2>5. CASE \E f \in Flows, s \in FinalStatus : Resolve(f, s)
    BY <1>2, <2>5 DEF Resolve, ConsumeApproval
  <2> QED  BY <2>1, <2>2, <2>3, <2>4, <2>5, ApprovalSteps DEF vars
<1> QED  BY <1>1, <1>2

\* An approval prepare accepts is granted, unused and claimed by no other.
LEMMA AcceptedApproval ==
    ASSUME ShapeInv, ApprovalOfOp, NEW f \in Flows, NEW r \in Requests, Prepare(f, r),
           op'[f].approval # NoApproval
    PROVE  /\ op'[f].approval \in Approvals
           /\ approval[op'[f].approval].status = "approved"
           /\ \A g \in Flows \ {f} : Claims(g) => op[g].approval # op'[f].approval
<1>1. PICK a \in AuthorizationsFor(r) : op'[f].approval = a
  BY PreparedRecord
<1>2. a \in Approvals /\ approval[a].status = "approved"
  BY <1>1, AuthorizationsType DEF AuthorizationsFor, Usable
<1>3. ASSUME NEW g \in Flows, Claims(g), op[g].approval = a
      PROVE  FALSE
  <2>1. flow[g] # "prepared" /\ flow[g] # "submitted"
    BY DEF Prepare, PrepareFlow, OpenFlows
  <2>2. flow[g] = "confirmed"
    BY <1>3, <2>1 DEF Claims
  <2> QED  BY <1>2, <1>3, <2>2, MandateAssumption DEF ApprovalOfOp
<1> QED  BY <1>1, <1>2, <1>3

\* Only prepare makes an operation claim its approval.
LEMMA ClaimsKept ==
    ASSUME ShapeInv, [Next]_vars, NEW g \in Flows, Claims(g)'
    PROVE  Claims(g) \/ \E r \in Requests : Prepare(g, r)
<1> USE DEF Claims, ShapeInv, MandateTypeOK, ContractTypeOK
<1>1. CASE UNCHANGED flow
  BY <1>1
<1>2. CASE \E f \in Flows, r \in Requests : Prepare(f, r)
  <2>1. PICK f \in Flows, r \in Requests : Prepare(f, r)
    BY <1>2
  <2>2. flow' = [flow EXCEPT ![f] = "prepared"]
    BY <2>1 DEF Prepare, PrepareFlow, SetFlow
  <2> QED  BY <2>1, <2>2
<1>3. CASE \E f \in Flows : Submit(f) \/ Execute(f)
  BY <1>3 DEF Submit, Execute, SubmitFlow, ExecuteFlow, SetFlow
<1>4. CASE \E f \in Flows, s \in FinalStatus : Resolve(f, s)
  BY <1>4 DEF Resolve, ResolveFlow, SetFlow
<1>5. CASE Tick
  BY <1>5 DEF Tick
<1> QED  BY <1>1, <1>2, <1>3, <1>4, <1>5, FlowSteps DEF vars

\* An approval that an operation claims is not given to another.
LEMMA ClaimedOnceStep ==
    ASSUME ShapeInv, ApprovalOfOp, ClaimedOnce, [Next]_vars
    PROVE  ClaimedOnce'
<1> SUFFICES ASSUME NEW f \in Flows, NEW g \in Flows, Claims(f)', Claims(g)', f # g,
                    op'[f].approval = op'[g].approval, op'[f].approval # NoApproval
             PROVE  FALSE
  BY DEF ClaimedOnce
<1>1. ASSUME NEW h \in Flows, NEW k \in Flows, h # k, NEW r \in Requests, Prepare(h, r),
             Claims(k)', op'[h].approval = op'[k].approval, op'[h].approval # NoApproval
      PROVE  FALSE
  <2>1. op'[k] = op[k]
    BY <1>1, PreparedRecord
  <2>2. flow'[k] = flow[k]
    BY <1>1 DEF Prepare, PrepareFlow, SetFlow, ShapeInv, MandateTypeOK, ContractTypeOK
  <2> QED  BY <1>1, <2>1, <2>2, AcceptedApproval DEF Claims
<1>2. CASE \E h \in Flows, r \in Requests : Prepare(h, r)
  <2>1. PICK h \in Flows, r \in Requests : Prepare(h, r)
    BY <1>2
  <2>2. h # f /\ h # g
    BY <1>1, <2>1
  <2>3. op'[f] = op[f] /\ op'[g] = op[g] /\ flow'[f] = flow[f] /\ flow'[g] = flow[g]
    BY <2>1, <2>2, PreparedRecord DEF Prepare, PrepareFlow, SetFlow, ShapeInv, MandateTypeOK, ContractTypeOK
  <2> QED  BY <2>3 DEF Claims, ClaimedOnce
<1>3. CASE ~ \E h \in Flows, r \in Requests : Prepare(h, r)
  <2>1. Claims(f) /\ Claims(g)
    BY <1>3, ClaimsKept
  <2>2. op'[f].approval = op[f].approval /\ op'[g].approval = op[g].approval
    BY <1>3, OpKeeps DEF vars
  <2> QED  BY <2>1, <2>2 DEF ClaimedOnce
<1> QED  BY <1>2, <1>3

\* Only recording the outcome confirms an operation, and for good.
LEMMA ConfirmedBy ==
    ASSUME ShapeInv, [Next]_vars, NEW f \in Flows
    PROVE  /\ flow[f] # "confirmed" /\ flow'[f] = "confirmed" => Resolve(f, "confirmed")
           /\ flow[f] = "confirmed" =>
                /\ flow'[f] = "confirmed"
                /\ \A r \in Requests : ~Prepare(f, r)
                /\ \A s \in FinalStatus : ~Resolve(f, s)
<1> USE DEF ShapeInv, MandateTypeOK, ContractTypeOK
<1>1. CASE UNCHANGED flow
  BY <1>1 DEF Prepare, PrepareFlow, Resolve, ResolveFlow
<1>2. CASE \E g \in Flows, r \in Requests : Prepare(g, r)
  BY <1>2 DEF Prepare, PrepareFlow, SetFlow, Resolve, ResolveFlow
<1>3. CASE \E g \in Flows : Submit(g) \/ Execute(g)
  BY <1>3 DEF Submit, Execute, SubmitFlow, ExecuteFlow, SetFlow,
              Prepare, PrepareFlow, Resolve, ResolveFlow
<1>4. CASE \E g \in Flows, s \in FinalStatus : Resolve(g, s)
  <2>1. PICK g \in Flows, s \in FinalStatus : Resolve(g, s)
    BY <1>4
  <2>2. flow[g] = "submitted" /\ flow' = [flow EXCEPT ![g] = s]
    BY <2>1 DEF Resolve, ResolveFlow, SetFlow
  <2>3. flow[f] # "confirmed" /\ flow'[f] = "confirmed" => g = f /\ s = "confirmed"
    BY <2>2
  <2>4. flow[f] = "confirmed" =>
          /\ flow'[f] = "confirmed"
          /\ \A r \in Requests : ~Prepare(f, r)
          /\ \A z \in FinalStatus : ~Resolve(f, z)
    BY <2>2 DEF Prepare, PrepareFlow, Resolve, ResolveFlow
  <2> QED  BY <2>1, <2>3, <2>4
<1>5. CASE Tick
  BY <1>5 DEF Tick, Prepare, PrepareFlow, Resolve, ResolveFlow
<1> QED  BY <1>1, <1>2, <1>3, <1>4, <1>5, FlowSteps DEF vars

\* An operation keeps an approval that was granted.
LEMMA ApprovalOfOpStep ==
    ASSUME ShapeInv, ApprovalOfOp, [Next]_vars
    PROVE  ApprovalOfOp'
<1> SUFFICES ASSUME NEW f \in Flows, op'[f].approval # NoApproval
             PROVE  /\ Granted(op[f].approval)'
                    /\ flow'[f] = "confirmed" =>
                         approval'[op'[f].approval].status = "consumed"
  BY DEF ApprovalOfOp, Granted
<1>1. CASE \E r \in Requests : Prepare(f, r)
  <2>1. flow'[f] = "prepared" /\ UNCHANGED approval
    BY <1>1 DEF Prepare, PrepareFlow, SetFlow, ShapeInv, MandateTypeOK, ContractTypeOK
  <2> QED  BY <1>1, <2>1, AcceptedApproval DEF Granted
<1>2. CASE ~ \E r \in Requests : Prepare(f, r)
  <2>1. op'[f].approval = op[f].approval
    <3>1. CASE \E g \in Flows, r \in Requests : Prepare(g, r)
      BY <1>2, <3>1, PreparedRecord
    <3>2. CASE ~ \E g \in Flows, r \in Requests : Prepare(g, r)
      BY <3>2, OpKeeps DEF vars
    <3> QED  BY <3>1, <3>2
  <2> DEFINE a == op[f].approval
  <2>2. a \in Approvals /\ Granted(a)
    BY <2>1 DEF ApprovalOfOp, Granted, ShapeInv, RowsOK
  <2>3. CASE flow[f] = "confirmed"
    BY <2>1, <2>2, <2>3, GrantStays DEF ApprovalOfOp
  <2>4. CASE flow[f] # "confirmed" /\ flow'[f] = "confirmed"
    <3>1. Resolve(f, "confirmed")
      BY <2>4, ConfirmedBy
    <3>2. approval'[a].status = "consumed"
      BY <2>1, <2>2, <3>1 DEF Resolve, ConsumeApproval, Granted, ShapeInv, RowsOK
    <3> QED  BY <2>1, <2>2, <3>2, GrantStays
  <2>5. CASE flow'[f] # "confirmed"
    BY <2>1, <2>2, <2>5, GrantStays
  <2> QED  BY <2>3, <2>4, <2>5
<1> QED  BY <1>1, <1>2

\* What moved stays submitted until it is confirmed.
LEMMA MovedClaimsStep ==
    ASSUME ShapeInv, UnsubmittedInert, MovedClaims, [Next]_vars
    PROVE  MovedClaims'
<1> SUFFICES ASSUME ~Unclassified, NEW f \in Flows, effect'[f] = "moved"
             PROVE  Claims(f)'
  BY DEF MovedClaims
<1> USE DEF Claims, MovedClaims, ShapeInv, MandateTypeOK, ContractTypeOK
<1>1. CASE UNCHANGED <<flow, effect>>
  BY <1>1
<1>2. CASE \E g \in Flows, r \in Requests : Prepare(g, r)
  BY <1>2 DEF Prepare, PrepareFlow, SetFlow, UnsubmittedInert
<1>3. CASE \E g \in Flows : Submit(g)
  BY <1>3 DEF Submit, SubmitFlow, SetFlow
<1>4. CASE \E g \in Flows : Execute(g)
  BY <1>4 DEF Execute, ExecuteFlow
<1>5. CASE \E g \in Flows, s \in FinalStatus : Resolve(g, s)
  BY <1>5 DEF Resolve, ResolveFlow, SetFlow
<1>6. CASE Tick
  BY <1>6 DEF Tick, UnsubmittedInert
<1> QED  BY <1>1, <1>2, <1>3, <1>4, <1>5, <1>6, FlowSteps DEF vars

ApprovalInv == /\ ShapeInv /\ UnsubmittedInert /\ DecidedByOwner
               /\ ApprovalOfOp /\ ClaimedOnce

\* The facts on approvals hold of every reachable state.
LEMMA ApprovalInvariance == Spec => []ApprovalInv
<1>1. ASSUME Init PROVE ApprovalInv
  BY <1>1, ShapeInit DEF Init, ContractInit, ApprovalInv, UnsubmittedInert,
     DecidedByOwner, ApprovalOfOp, ClaimedOnce, Claims
<1>2. ASSUME ApprovalInv, [Next]_vars PROVE ApprovalInv'
  BY <1>2, ShapeStep, InertStep, DecidedStep, ApprovalOfOpStep, ClaimedOnceStep
     DEF ApprovalInv
<1> QED  BY <1>1, <1>2, PTL DEF Spec

\* If every operation that landed is confirmed in the end, an approval is
\* spent on one operation at most, across mandates, links and retries.
THEOREM ApprovalsSpentOnce ==
    ASSUME ~Unclassified
    PROVE  Spec => []ApprovalSpentOnce
<1>1. Init => MovedClaims
  BY DEF Init, ContractInit, MovedClaims
<1>2. ApprovalInv /\ MovedClaims /\ [Next]_vars => MovedClaims'
  BY MovedClaimsStep DEF ApprovalInv
<1>3. ASSUME ApprovalInv, MovedClaims PROVE ApprovalSpentOnce
  <2> SUFFICES ASSUME NEW a \in Approvals
               PROVE  Cardinality({f \in Flows : op[f].approval = a
                                                 /\ effect[f] = "moved"}) <= 1
    BY DEF ApprovalSpentOnce
  <2> DEFINE S == {f \in Flows : op[f].approval = a /\ effect[f] = "moved"}
  <2>1. \A f, g \in S : f = g
    BY <1>3, MandateAssumption DEF MovedClaims, ApprovalInv, ClaimedOnce
  <2>2. S = {} \/ \E f : S = {f}
    BY <2>1
  <2>3. Cardinality({}) = 0 /\ \A f : Cardinality({f}) = 1
    BY FS_EmptySet, FS_Singleton
  <2>4. Cardinality(S) = 0 \/ Cardinality(S) = 1
    <3> HIDE DEF S
    <3> QED  BY <2>2, <2>3
  <2> QED  BY <2>4
<1> QED  BY <1>1, <1>2, <1>3, ApprovalInvariance, PTL DEF Spec

\* While a mandate's document is in force, its owner is the current one.
LEMMA OwnerInForce ==
    ASSUME ShapeInv, Effective.hash \in Documents
    PROVE  CurrentOwner = Effective.hash.owner
<1>1. Effective.owned /\ Effective.hash = mandate.doc
  BY MandateAssumption DEF Effective
<1> QED  BY <1>1 DEF CurrentOwner

\* An operation that needed its owner was approved by that owner.
LEMMA AskedStep ==
    ASSUME ApprovalInv, AskedApproved, [Next]_vars
    PROVE  AskedApproved'
<1> USE DEF ApprovalInv
<1> SUFFICES ASSUME NEW f \in Flows, op'[f].asked
             PROVE  /\ Level = "on"
                    /\ op'[f].approval # NoApproval
                    /\ flow'[f] \notin {"absent", "prepared", "expired"} =>
                          /\ approval'[op'[f].approval].by = op'[f].owner
                          /\ op'[f].owner \in Owners
  BY DEF AskedApproved
<1>1. CASE \E r \in Requests : Prepare(f, r)
  <2>1. PICK r \in Requests : Prepare(f, r)
    BY <1>1
  <2>2. Level = "on" /\ NeedsOwner(r, Effective.policy)
    BY <2>1, PreparedRecord
  <2>3. op'[f].approval \in AuthorizationsFor(r)
    BY <2>1, PreparedRecord
  <2>4. op'[f].approval \in Approvals
    BY <2>2, <2>3 DEF AuthorizationsFor
  <2>5. flow'[f] = "prepared"
    BY <2>1 DEF Prepare, PrepareFlow, SetFlow, ShapeInv, MandateTypeOK, ContractTypeOK
  <2> QED  BY <2>2, <2>4, <2>5, MandateAssumption
<1>2. CASE Submit(f)
  <2> DEFINE a == op[f].approval
  <2>1. /\ op'[f].approval = a /\ op'[f].owner = CurrentOwner
        /\ approval' = approval
        /\ op'[f].asked = op[f].asked
        /\ StillAuthorized(op[f])
    BY <1>2 DEF Submit, SubmitFlow, ShapeInv, RowsOK
  <2>2. Level = "on" /\ a # NoApproval /\ a \in Approvals
    BY <2>1 DEF AskedApproved, ShapeInv, RowsOK
  <2>3. /\ Effective.hash = approval[a].hash
        /\ approval[a].status = "approved"
    BY <2>1, <2>2 DEF StillAuthorized
  <2>4. approval[a].hash \in Documents /\ approval[a].by = approval[a].hash.owner
    BY <2>2, <2>3 DEF DecidedByOwner
  <2>5. CurrentOwner = approval[a].by /\ CurrentOwner \in Owners
    BY <2>3, <2>4, OwnerInForce, MandateAssumption
  <2> QED  BY <2>1, <2>2, <2>5
<1>3. CASE ~ Submit(f) /\ ~ \E r \in Requests : Prepare(f, r)
  <2>1. op'[f].approval = op[f].approval /\ op'[f].asked = op[f].asked
    <3>1. CASE \E g \in Flows, r \in Requests : Prepare(g, r)
      BY <1>3, <3>1, PreparedRecord
    <3>2. CASE ~ \E g \in Flows, r \in Requests : Prepare(g, r)
      BY <3>2, OpKeeps DEF vars
    <3> QED  BY <3>1, <3>2
  <2>2. op[f].asked
    BY <2>1
  <2>3. /\ Level = "on" /\ op[f].approval # NoApproval
        /\ op[f].approval \in Approvals /\ Granted(op[f].approval)
    BY <2>2 DEF AskedApproved, ApprovalOfOp, Granted, ShapeInv, RowsOK
  <2>4. approval'[op[f].approval].by = approval[op[f].approval].by
    BY <2>3, GrantStays
  <2>5. ASSUME flow'[f] \notin {"absent", "prepared", "expired"}
        PROVE  /\ flow[f] \notin {"absent", "prepared", "expired"}
               /\ op'[f].owner = op[f].owner
    <3> USE DEF ShapeInv, MandateTypeOK, ContractTypeOK, RowsOK
    <3>1. CASE UNCHANGED <<flow, op>>
      BY <2>5, <3>1
    <3>2. CASE \E g \in Flows, r \in Requests : Prepare(g, r)
      BY <1>3, <2>5, <3>2, PreparedRecord DEF Prepare, PrepareFlow, SetFlow
    <3>3. CASE \E g \in Flows : Submit(g) \/ Execute(g)
      BY <1>3, <2>5, <3>3 DEF Submit, Execute, SubmitFlow, ExecuteFlow, SetFlow
    <3>4. CASE \E g \in Flows, s \in FinalStatus : Resolve(g, s)
      <4> DEFINE n == Cardinality({g \in Flows : op[g].rank > 0}) + 1
      <4>1. PICK h \in Flows, s \in FinalStatus : Resolve(h, s)
        BY <3>4
      <4>2. /\ op' = [op EXCEPT ![h].doneAt = now, ![h].rank = n]
            /\ flow[h] = "submitted"
            /\ flow' = [flow EXCEPT ![h] = s]
        BY <4>1 DEF Resolve, ResolveFlow, SetFlow
      <4> HIDE DEF n
      <4> QED  BY <2>5, <4>2
    <3>5. CASE Tick
      BY <2>5, <3>5 DEF Tick
    <3> QED  BY <3>1, <3>2, <3>3, <3>4, <3>5, FlowSteps DEF vars
  <2> QED  BY <2>1, <2>2, <2>3, <2>4, <2>5 DEF AskedApproved
<1> QED  BY <1>1, <1>2, <1>3

\* Whatever the policies and however mandates are replaced: an operation that
\* its policy refers to the owner is executed only with the approval of the
\* owner whose mandate was in force when it was submitted.
THEOREM OwnerAlwaysApproved == Spec => []OwnerApproved
<1>1. Init => AskedApproved
  BY DEF Init, AskedApproved
<1>2. ApprovalInv /\ AskedApproved /\ [Next]_vars => AskedApproved'
  BY AskedStep
<1>3. ASSUME ApprovalInv, AskedApproved PROVE OwnerApproved
  BY <1>3 DEF ApprovalInv, UnsubmittedInert, AskedApproved, OwnerApproved
<1> QED  BY <1>1, <1>2, <1>3, ApprovalInvariance, PTL DEF Spec

-----------------------------------------------------------------------------
(* The rolling caps.                                                        *)

\* Policy o.policy caps an operation at k in the window w.
Capped(o, w, k) ==
    \/ o.kind = "yield_realize" /\ w = Day /\ k = o.policy.daily
    \/ o.kind = "yield_realize" /\ w = Month /\ k = o.policy.monthly
    \/ o.kind = "deposit" /\ w = Day /\ k = o.policy.depositDaily

Ranked == {g \in Flows : op[g].rank > 0}

\* Operations are ranked in the order in which they end.
RanksOK ==
    \A f \in Flows :
        /\ op[f].rank \in Nat /\ op[f].rank <= Cardinality(Ranked)
        /\ flow[f] \in {"absent", "prepared", "submitted"} => op[f].rank = 0

SpendOK ==
    \A f \in Flows :
        /\ op[f].amount \in Nat
        /\ op[f].doneAt \in Int
        /\ flow[f] # "absent" => op[f].policy \in Policies

OneOpen == \A f, g \in OpenFlows : f = g

\* An open operation fits in its caps on top of what is confirmed by now.
OpenFits ==
    Level = "on" =>
        \A f \in OpenFlows : \A w, k : Capped(op[f], w, k) =>
            ~Exceeds(Amount(Confirmed(op[f].kind, w)) + op[f].amount, k)

\* A confirmed one fits in its caps with what was confirmed before it.
DoneFits ==
    Level = "on" =>
        \A f \in Flows : \A w, k :
            flow[f] = "confirmed" /\ Capped(op[f], w, k) =>
                ~Exceeds(Amount(SpentBefore(f, w)), k)

\* What each confirmed operation fits in are the caps.
LEMMA DoneFitsSaysCapsHold == ASSUME DoneFits PROVE CapsHold
<1> SUFFICES ASSUME NEW f \in Flows, Level = "on", flow[f] = "confirmed"
             PROVE  CASE op[f].kind = "yield_realize" ->
                        /\ ~Exceeds(Amount(SpentBefore(f, Day)), op[f].policy.daily)
                        /\ ~Exceeds(Amount(SpentBefore(f, Month)), op[f].policy.monthly)
                      [] op[f].kind = "deposit" ->
                        ~Exceeds(Amount(SpentBefore(f, Day)), op[f].policy.depositDaily)
                      [] OTHER -> TRUE
  BY DEF CapsHold
<1>1. ASSUME NEW w, NEW k, Capped(op[f], w, k)
      PROVE  ~Exceeds(Amount(SpentBefore(f, w)), k)
  BY <1>1 DEF DoneFits
<1>2. CASE op[f].kind = "yield_realize"
  BY <1>1, <1>2 DEF Capped
<1>3. CASE op[f].kind = "deposit"
  BY <1>1, <1>3 DEF Capped
<1> QED  BY <1>2, <1>3

\* The policy in force is one of the policies.
LEMMA EffectivePolicy == ASSUME ShapeInv PROVE Effective.policy \in Policies
<1>1. ASSUME mandate # NoMandate PROVE mandate.doc \in Documents
  BY <1>1 DEF ShapeInv, MandateTypeOK, Records
<1>2. Effective.policy = DefaultPolicy \/
      (mandate # NoMandate /\ Effective.policy = mandate.doc.policy)
  BY DEF Effective
<1> QED  BY <1>1, <1>2, MandateAssumption

\* What recording an outcome does.
LEMMA ResolvedRecord ==
    ASSUME ShapeInv, NEW f \in Flows, NEW s \in FinalStatus, Resolve(f, s)
    PROVE  /\ flow[f] = "submitted" /\ flow' = [flow EXCEPT ![f] = s]
           /\ op'[f].doneAt = now /\ op'[f].rank = Cardinality(Ranked) + 1
           /\ \A g \in Flows \ {f} : op'[g] = op[g] /\ flow'[g] = flow[g]
           /\ \A g \in Flows : /\ op'[g].kind = op[g].kind
                               /\ op'[g].amount = op[g].amount
                               /\ op'[g].policy = op[g].policy
           /\ flow'[f] = s
           /\ now' = now
<1> DEFINE n == Cardinality(Ranked) + 1
<1>1. op' = [op EXCEPT ![f].doneAt = now, ![f].rank = n]
  BY DEF Resolve, Ranked
<1>2. flow[f] = "submitted" /\ flow' = [flow EXCEPT ![f] = s] /\ now' = now
  BY DEF Resolve, ResolveFlow, SetFlow
<1> HIDE DEF n
<1>3. op'[f].doneAt = now /\ op'[f].rank = n
  BY <1>1 DEF ShapeInv, RowsOK
<1>4. \A g \in Flows \ {f} : op'[g] = op[g] /\ flow'[g] = flow[g]
  BY <1>1, <1>2 DEF ShapeInv, RowsOK, MandateTypeOK, ContractTypeOK
<1>5. op'[f].kind = op[f].kind /\ op'[f].amount = op[f].amount
      /\ op'[f].policy = op[f].policy
  BY <1>1, <1>2 DEF ShapeInv, RowsOK
<1>6. flow'[f] = s
  BY <1>2 DEF ShapeInv, MandateTypeOK, ContractTypeOK
<1> QED  BY <1>2, <1>3, <1>4, <1>5, <1>6 DEF n

\* At most one operation is open.
LEMMA OneOpenStep == ASSUME ShapeInv, OneOpen, [Next]_vars PROVE OneOpen'
<1> USE DEF OneOpen, OpenFlows, ShapeInv, MandateTypeOK, ContractTypeOK
<1>1. CASE UNCHANGED flow
  BY <1>1
<1>2. CASE \E f \in Flows, r \in Requests : Prepare(f, r)
  BY <1>2 DEF Prepare, PrepareFlow, SetFlow
<1>3. CASE \E f \in Flows : Submit(f) \/ Execute(f)
  BY <1>3 DEF Submit, Execute, SubmitFlow, ExecuteFlow, SetFlow
<1>4. CASE \E f \in Flows, s \in FinalStatus : Resolve(f, s)
  BY <1>4 DEF Resolve, ResolveFlow, SetFlow, FinalStatus
<1>5. CASE Tick
  BY <1>5 DEF Tick
<1> QED  BY <1>1, <1>2, <1>3, <1>4, <1>5, FlowSteps DEF vars

\* Amounts, instants and policies of operations are well formed.
LEMMA SpendStep == ASSUME ShapeInv, SpendOK, [Next]_vars PROVE SpendOK'
<1> SUFFICES ASSUME NEW g \in Flows
             PROVE  /\ op'[g].amount \in Nat /\ op'[g].doneAt \in Int
                    /\ flow'[g] # "absent" => op'[g].policy \in Policies
  BY DEF SpendOK
<1>0. now \in Int
  BY MandateAssumption DEF ShapeInv, MandateTypeOK, Times
<1>1. CASE \E f \in Flows, r \in Requests : Prepare(f, r)
  <2>1. PICK f \in Flows, r \in Requests : Prepare(f, r)
    BY <1>1
  <2>2. flow' = [flow EXCEPT ![f] = "prepared"]
    BY <2>1 DEF Prepare, PrepareFlow, SetFlow
  <2>3. r.amount \in Nat /\ Never \in Int
    BY MandateAssumption DEF Never
  <2>4. CASE g = f
    BY <2>1, <2>3, <2>4, PreparedRecord, EffectivePolicy
  <2>5. CASE g # f
    BY <2>1, <2>2, <2>5, PreparedRecord
       DEF SpendOK, ShapeInv, MandateTypeOK, ContractTypeOK
  <2> QED  BY <2>4, <2>5
<1>2. CASE ~ \E f \in Flows, r \in Requests : Prepare(f, r)
  <2>1. CASE \E s \in FinalStatus : Resolve(g, s)
    BY <1>0, <2>1, ResolvedRecord DEF SpendOK
  <2>2. CASE ~ \E s \in FinalStatus : Resolve(g, s)
    <3>1. flow'[g] # "absent" => flow[g] # "absent"
      BY <1>2, FlowKept DEF vars
    <3> QED  BY <1>2, <2>2, <3>1, OpKeeps DEF vars, SpendOK
  <2> QED  BY <2>1, <2>2
<1> QED  BY <1>1, <1>2

\* An operation that ends is ranked after those that ended before.
LEMMA RanksStep == ASSUME ShapeInv, RanksOK, [Next]_vars PROVE RanksOK'
<1>0. IsFiniteSet(Ranked) /\ Cardinality(Ranked) \in Nat
  <2>1. IsFiniteSet(Ranked)
    BY MandateAssumption, FS_Subset DEF Ranked
  <2> QED  BY <2>1, FS_CardinalityType
<1>1. CASE \E f \in Flows, s \in FinalStatus : Resolve(f, s)
  <2>1. PICK f \in Flows, s \in FinalStatus : Resolve(f, s)
    BY <1>1
  <2>2. f \notin Ranked
    <3>1. op[f].rank = 0
      BY <2>1, ResolvedRecord DEF RanksOK
    <3> QED  BY <3>1 DEF Ranked
  <2>3. Ranked' = Ranked \cup {f}
    <3>1. \A g \in Flows : op'[g].rank > 0 <=> (g = f \/ op[g].rank > 0)
      BY <1>0, <2>1, ResolvedRecord
    <3> QED  BY <3>1 DEF Ranked
  <2>4. Cardinality(Ranked') = Cardinality(Ranked) + 1
    BY <1>0, <2>2, <2>3, FS_AddElement
  <2>5. s \notin {"absent", "prepared", "submitted"}
    BY DEF FinalStatus
  <2> HIDE DEF Ranked
  <2> QED  BY <1>0, <2>1, <2>4, <2>5, ResolvedRecord DEF RanksOK
<1>2. CASE ~ \E f \in Flows, s \in FinalStatus : Resolve(f, s)
  <2>1. \A g \in Flows : op'[g].rank = op[g].rank
    <3>1. CASE \E f \in Flows, r \in Requests : Prepare(f, r)
      BY <3>1, PreparedRecord DEF RanksOK, Prepare, PrepareFlow
    <3>2. CASE ~ \E f \in Flows, r \in Requests : Prepare(f, r)
      BY <1>2, <3>2, OpKeeps DEF vars
    <3> QED  BY <3>1, <3>2
  <2>2. Ranked' = Ranked
    BY <2>1 DEF Ranked
  <2>3. \A g \in Flows : flow'[g] \in {"absent", "prepared", "submitted"} =>
                         flow[g] \in {"absent", "prepared", "submitted"}
    <3> USE DEF ShapeInv, MandateTypeOK, ContractTypeOK
    <3>1. CASE UNCHANGED flow
      BY <3>1
    <3>2. CASE \E f \in Flows, r \in Requests : Prepare(f, r)
      BY <3>2 DEF Prepare, PrepareFlow, SetFlow
    <3>3. CASE \E f \in Flows : Submit(f) \/ Execute(f)
      BY <3>3 DEF Submit, Execute, SubmitFlow, ExecuteFlow, SetFlow
    <3>4. CASE Tick
      BY <3>4 DEF Tick
    <3> QED  BY <1>2, <3>1, <3>2, <3>3, <3>4, FlowSteps DEF vars
  <2> HIDE DEF Ranked
  <2> QED  BY <2>1, <2>2, <2>3 DEF RanksOK
<1> QED  BY <1>1, <1>2

Amt == [f \in Flows |-> op[f].amount]

\* The amounts of a part, some steps later, are no more than those of the whole.
LEMMA AmountPart ==
    ASSUME SpendOK, NEW S \in SUBSET Flows, NEW T \in SUBSET S,
           \A g \in T : op'[g].amount = op[g].amount
    PROVE  /\ Sum(Amt', T) \in Nat /\ Sum(Amt, S) \in Nat
           /\ Sum(Amt', T) <= Sum(Amt, S)
<1>1. IsFiniteSet(S) /\ IsFiniteSet(T)
  BY MandateAssumption, FS_Subset
<1>2. \A g \in S : Amt[g] \in Nat
  BY DEF Amt, SpendOK
<1>3. \A g \in T : Amt[g] = Amt'[g] /\ Amt[g] \in Int
  <2>1. \A g \in Flows : Amt[g] = op[g].amount /\ Amt'[g] = op'[g].amount
    BY DEF Amt
  <2> HIDE DEF Amt
  <2> QED  BY <1>2, <2>1
<1> HIDE DEF Amt
<1>4. Sum(Amt, T) = Sum(Amt', T)
  BY <1>1, <1>3, SumSame
<1> QED  BY <1>1, <1>2, <1>4, SumMonotone

\* What fits in a cap fits if it is less.
LEMMA ExceedsLess ==
    ASSUME NEW x \in Nat, NEW y \in Nat, x <= y, NEW k \in Nat \cup {NoCap}, ~Exceeds(y, k)
    PROVE  ~Exceeds(x, k)
BY DEF Exceeds, NoCap

\* Windows and caps are numbers, or there is no cap.
LEMMA CappedType ==
    ASSUME NEW o, o.policy \in Policies, NEW w, NEW k, Capped(o, w, k)
    PROVE  w \in Nat /\ k \in Nat \cup {NoCap}
BY MandateAssumption DEF Capped, Policies

\* The clock does not go back.
LEMMA TimePasses == ASSUME ShapeInv, [Next]_vars PROVE now \in Nat /\ now' \in Nat /\ now' >= now
<1>1. now \in Nat
  BY MandateAssumption DEF ShapeInv, MandateTypeOK, Times
<1>2. CASE Tick
  BY <1>1, <1>2 DEF Tick
<1>3. CASE UNCHANGED now
  BY <1>1, <1>3
<1> QED
  BY <1>2, <1>3 DEF vars, Next, Register, RegisterMandate, OwnerSigns, Deliver,
     ScheduleRecovery, CreateSession, CompleteSetup, CompleteOwnerAction,
     RequestApproval, DecideApproval, Prepare, Submit, Execute, Resolve

\* What is confirmed keeps its record.
LEMMA ConfirmedKept ==
    ASSUME ShapeInv, [Next]_vars, NEW g \in Flows, flow[g] = "confirmed"
    PROVE  /\ op'[g].kind = op[g].kind /\ op'[g].amount = op[g].amount
           /\ op'[g].policy = op[g].policy
           /\ op'[g].doneAt = op[g].doneAt /\ op'[g].rank = op[g].rank
<1>1. CASE \E f \in Flows, r \in Requests : Prepare(f, r)
  BY <1>1, ConfirmedBy, PreparedRecord
<1>2. CASE ~ \E f \in Flows, r \in Requests : Prepare(f, r)
  BY <1>2, ConfirmedBy, OpKeeps DEF vars
<1> QED  BY <1>1, <1>2

\* What prepare admits fits in its caps.
LEMMA AdmittedFits ==
    ASSUME ShapeInv, SpendOK, Level = "on", NEW f \in Flows, NEW r \in Requests, Prepare(f, r),
           NEW w, NEW k, Capped(op'[f], w, k)
    PROVE  ~Exceeds(Amount(Confirmed(op[f].kind, w))' + op'[f].amount, k)
<1> DEFINE T == Confirmed(r.kind, w)
<1>1. WithinPolicy(r, Effective.policy)
  BY PreparedRecord DEF AuthorizationsFor
<1>2. /\ op'[f].kind = r.kind /\ op'[f].amount = r.amount /\ op'[f].policy = Effective.policy
      /\ \A g \in Flows \ {f} : op'[g] = op[g]
  BY PreparedRecord
<1>3. flow[f] = "absent" /\ flow' = [flow EXCEPT ![f] = "prepared"] /\ now' = now
  BY DEF Prepare, PrepareFlow, SetFlow
<1>4. Confirmed(op[f].kind, w)' = T
  BY <1>2, <1>3 DEF Confirmed, ShapeInv, MandateTypeOK, ContractTypeOK
<1>5. f \notin T /\ T \in SUBSET Flows
  BY <1>3 DEF Confirmed
<1>6. \A g \in T : op'[g].amount = op[g].amount
  BY <1>2, <1>5
<1>7. Amount(Confirmed(op[f].kind, w))' = Sum(Amt', T)
  BY <1>4 DEF Amount, Amt, Sum
<1>8. /\ Sum(Amt', T) \in Nat /\ Sum(Amt, T) \in Nat
      /\ Sum(Amt', T) <= Sum(Amt, T)
  <2> HIDE DEF T
  <2> QED  BY <1>5, <1>6, AmountPart
<1>9. ~Exceeds(Sum(Amt, T) + r.amount, k)
  <2>1. Amount(Confirmed(r.kind, w)) = Sum(Amt, T)
    BY DEF Amount, Amt, Sum
  <2>2. CASE r.kind = "yield_realize"
    BY <1>1, <1>2, <2>1, <2>2 DEF WithinPolicy, Capped
  <2>3. CASE r.kind = "deposit"
    BY <1>1, <1>2, <2>1, <2>3 DEF WithinPolicy, Capped
  <2> QED  BY <1>2, <2>2, <2>3 DEF Capped
<1>10. k \in Nat \cup {NoCap} /\ r.amount \in Nat
  BY <1>2, EffectivePolicy, CappedType, MandateAssumption
<1> HIDE DEF T
<1>11. Sum(Amt', T) + r.amount \in Nat /\ Sum(Amt, T) + r.amount \in Nat
       /\ Sum(Amt', T) + r.amount <= Sum(Amt, T) + r.amount
  BY <1>8, <1>10
<1> QED  BY <1>2, <1>7, <1>9, <1>10, <1>11, ExceedsLess

\* An open operation keeps fitting: others only leave its windows.
LEMMA OpenFitsStep ==
    ASSUME ShapeInv, SpendOK, OneOpen, OpenFits, [Next]_vars
    PROVE  OpenFits'
<1> SUFFICES ASSUME Level = "on", NEW f \in Flows, flow'[f] \in {"prepared", "submitted"},
                    NEW w, NEW k, Capped(op'[f], w, k)
             PROVE  ~Exceeds(Amount(Confirmed(op[f].kind, w))' + op'[f].amount, k)
  BY DEF OpenFits, OpenFlows
<1>1. CASE \E r \in Requests : Prepare(f, r)
  BY <1>1, AdmittedFits
<1>2. CASE ~ \E r \in Requests : Prepare(f, r)
  <2>1. Claims(f)'
    BY DEF Claims
  <2>2. flow[f] \in {"prepared", "submitted"} /\ f \in OpenFlows
    BY <1>2, <2>1, ClaimsKept, ConfirmedBy DEF Claims, OpenFlows
  <2>3. ~ \E g \in Flows, r \in Requests : Prepare(g, r)
    BY <2>2 DEF Prepare, PrepareFlow
  <2>4. op'[f].kind = op[f].kind /\ op'[f].amount = op[f].amount
        /\ op'[f].policy = op[f].policy
    BY <2>2, <2>3, OpKeeps DEF vars
  <2> DEFINE S == Confirmed(op[f].kind, w)
             T == Confirmed(op[f].kind, w)'
  <2>5. Capped(op[f], w, k) /\ w \in Nat /\ k \in Nat \cup {NoCap}
    <3>1. Capped(op[f], w, k)
      BY <2>4 DEF Capped
    <3>2. op[f].policy \in Policies
      BY <2>2 DEF SpendOK
    <3> QED  BY <3>1, <3>2, CappedType
  <2>6. S \in SUBSET Flows /\ T \in SUBSET Flows
    BY DEF Confirmed
  <2>7. ASSUME NEW g \in T PROVE g \in S
    <3>1. g \in Flows /\ flow'[g] = "confirmed" /\ op'[g].kind = op'[f].kind
          /\ op'[g].doneAt >= now' - w
      BY <2>7 DEF Confirmed
    <3>2. flow[g] = "confirmed"
      <4>1. ASSUME flow[g] # "confirmed" PROVE FALSE
        <5>1. g \in OpenFlows
          BY <3>1, <4>1, ConfirmedBy DEF Resolve, ResolveFlow, OpenFlows
        <5>2. g = f
          BY <2>2, <5>1 DEF OneOpen
        <5> QED  BY <3>1, <5>2
      <4> QED  BY <4>1
    <3>3. op'[g].kind = op[g].kind /\ op'[g].doneAt = op[g].doneAt /\ op[g].doneAt \in Int
      BY <3>1, <3>2, ConfirmedKept DEF SpendOK
    <3>4. op[g].doneAt >= now - w
      BY <2>5, <3>1, <3>3, TimePasses
    <3> QED  BY <2>4, <3>1, <3>2, <3>3, <3>4 DEF Confirmed
  <2>8. T \in SUBSET S /\ \A g \in T : op'[g].amount = op[g].amount
    <3>1. T \in SUBSET S
      <4> HIDE DEF S, T
      <4> QED  BY <2>7
    <3>2. \A g \in S : flow[g] = "confirmed" /\ g \in Flows
      BY DEF Confirmed
    <3> HIDE DEF S, T
    <3> QED  BY <3>1, <3>2, ConfirmedKept
  <2>9. /\ Sum(Amt', T) \in Nat /\ Sum(Amt, S) \in Nat
        /\ Sum(Amt', T) <= Sum(Amt, S)
    <3> HIDE DEF S, T
    <3> QED  BY <2>6, <2>8, AmountPart
  <2>10. /\ Amount(Confirmed(op[f].kind, w))' = Sum(Amt', T)
         /\ Amount(Confirmed(op[f].kind, w)) = Sum(Amt, S)
    BY DEF Amount, Amt, Sum
  <2>11. ~Exceeds(Sum(Amt, S) + op[f].amount, k)
    BY <2>2, <2>5, <2>10 DEF OpenFits
  <2>12. op[f].amount \in Nat
    BY DEF SpendOK
  <2> HIDE DEF S, T
  <2>13. Sum(Amt', T) + op[f].amount \in Nat /\ Sum(Amt, S) + op[f].amount \in Nat
         /\ Sum(Amt', T) + op[f].amount <= Sum(Amt, S) + op[f].amount
    BY <2>9, <2>12
  <2>14. ~Exceeds(Sum(Amt', T) + op[f].amount, k)
    BY <2>5, <2>11, <2>13, ExceedsLess
  <2> QED  BY <2>4, <2>10, <2>14
<1> QED  BY <1>1, <1>2

\* An operation that is confirmed fits with those before it.
LEMMA DoneFitsStep ==
    ASSUME ShapeInv, SpendOK, RanksOK, OpenFits, DoneFits, [Next]_vars
    PROVE  DoneFits'
<1> SUFFICES ASSUME Level = "on", NEW f \in Flows, flow'[f] = "confirmed",
                    NEW w, NEW k, Capped(op'[f], w, k)
             PROVE  ~Exceeds(Amount(SpentBefore(f, w))', k)
  BY DEF DoneFits
<1> DEFINE T == SpentBefore(f, w)'
<1>0. T \in SUBSET Flows /\ Amount(SpentBefore(f, w))' = Sum(Amt', T)
  BY DEF SpentBefore, Amount, Amt, Sum
<1>1. CASE flow[f] = "confirmed"
  <2> DEFINE S == SpentBefore(f, w)
  <2>1. /\ op'[f].kind = op[f].kind /\ op'[f].policy = op[f].policy
        /\ op'[f].doneAt = op[f].doneAt /\ op'[f].rank = op[f].rank
    BY <1>1, ConfirmedKept
  <2>2. Capped(op[f], w, k)
    BY <2>1 DEF Capped
  <2>3. ASSUME NEW g \in T PROVE g \in S
    <3>1. /\ g \in Flows /\ flow'[g] = "confirmed" /\ op'[g].kind = op'[f].kind
          /\ op'[g].rank <= op'[f].rank /\ op'[g].doneAt >= op'[f].doneAt - w
      BY <2>3 DEF SpentBefore
    <3>2. flow[g] = "confirmed"
      <4>1. ASSUME flow[g] # "confirmed" PROVE FALSE
        <5>1. Resolve(g, "confirmed")
          BY <3>1, <4>1, ConfirmedBy
        <5>2. op'[g].rank = Cardinality(Ranked) + 1
          BY <3>1, <5>1, ResolvedRecord DEF FinalStatus
        <5>3. op[f].rank <= Cardinality(Ranked) /\ op[f].rank \in Nat
          BY DEF RanksOK
        <5>4. Cardinality(Ranked) \in Nat
          BY MandateAssumption, FS_Subset, FS_CardinalityType DEF Ranked
        <5> HIDE DEF Ranked
        <5> QED  BY <2>1, <3>1, <5>2, <5>3, <5>4
      <4> QED  BY <4>1
    <3> QED  BY <2>1, <3>1, <3>2, ConfirmedKept DEF SpentBefore
  <2>4. T \in SUBSET S /\ \A g \in T : op'[g].amount = op[g].amount
    <3>1. T \in SUBSET S
      <4> HIDE DEF S, T
      <4> QED  BY <2>3
    <3>2. \A g \in S : flow[g] = "confirmed" /\ g \in Flows
      BY DEF SpentBefore
    <3> HIDE DEF S, T
    <3> QED  BY <3>1, <3>2, ConfirmedKept
  <2>5. S \in SUBSET Flows /\ Amount(SpentBefore(f, w)) = Sum(Amt, S)
    BY DEF SpentBefore, Amount, Amt, Sum
  <2>6. ~Exceeds(Sum(Amt, S), k)
    BY <1>1, <2>2, <2>5 DEF DoneFits
  <2>7. k \in Nat \cup {NoCap}
    <3>1. op[f].policy \in Policies
      BY <1>1 DEF SpendOK
    <3> QED  BY <2>2, <3>1, CappedType
  <2> HIDE DEF S, T
  <2> QED  BY <1>0, <2>4, <2>5, <2>6, <2>7, AmountPart, ExceedsLess
<1>2. CASE flow[f] # "confirmed"
  <2>1. Resolve(f, "confirmed") /\ "confirmed" \in FinalStatus
    BY <1>2, ConfirmedBy DEF FinalStatus
  <2>2. /\ flow[f] = "submitted" /\ op'[f].doneAt = now
        /\ \A g \in Flows \ {f} : op'[g] = op[g] /\ flow'[g] = flow[g]
        /\ \A g \in Flows : /\ op'[g].kind = op[g].kind
                            /\ op'[g].amount = op[g].amount
                            /\ op'[g].policy = op[g].policy
    BY <2>1, ResolvedRecord
  <2> DEFINE C == Confirmed(op[f].kind, w)
             S == C \cup {f}
  <2>3. Capped(op[f], w, k) /\ f \in OpenFlows
    BY <2>2 DEF Capped, OpenFlows
  <2>4. k \in Nat \cup {NoCap}
    <3>1. op[f].policy \in Policies
      BY <2>2 DEF SpendOK
    <3> QED  BY <2>3, <3>1, CappedType
  <2>5. C \in SUBSET Flows /\ f \notin C /\ Amount(Confirmed(op[f].kind, w)) = Sum(Amt, C)
    BY <2>2 DEF Confirmed, Amount, Amt, Sum
  <2>6. T \in SUBSET S
    BY <2>2 DEF SpentBefore, Confirmed
  <2>7. Sum(Amt, S) = Sum(Amt, C) + op[f].amount
    <3>1. IsFiniteSet(C)
      BY <2>5, MandateAssumption, FS_Subset
    <3>2. \A g \in Flows : Amt[g] \in Int /\ Amt[g] = op[g].amount
      BY DEF Amt, SpendOK
    <3> HIDE DEF C, Amt
    <3> QED  BY <2>5, <3>1, <3>2, SumAdd
  <2>8. ~Exceeds(Sum(Amt, C) + op[f].amount, k)
    BY <2>3, <2>5 DEF OpenFits
  <2>9. S \in SUBSET Flows /\ \A g \in T : op'[g].amount = op[g].amount
    BY <1>0, <2>2, <2>5
  <2> HIDE DEF C, S, T
  <2> QED  BY <1>0, <2>4, <2>6, <2>7, <2>8, <2>9, AmountPart, ExceedsLess
<1> QED  BY <1>1, <1>2

\* For any policies, windows and histories of replaced mandates: no rolling
\* cap is exceeded by confirmed operations, although it is tested when an
\* operation is prepared and counted when it is confirmed.
THEOREM CapsAlwaysHold == Spec => []CapsHold
<1> DEFINE I == ShapeInv /\ SpendOK /\ RanksOK /\ OneOpen /\ OpenFits /\ DoneFits
<1>1. ASSUME Init PROVE I
  <2>1. SpendOK /\ OneOpen /\ OpenFits /\ DoneFits
    BY <1>1 DEF Init, ContractInit, SpendOK, OneOpen, OpenFlows, OpenFits, DoneFits, Never
  <2>2. RanksOK
    <3>1. \A f \in Flows : op[f].rank = 0
      BY <1>1 DEF Init
    <3>2. Cardinality(Ranked) \in Nat
      BY MandateAssumption, FS_Subset, FS_CardinalityType DEF Ranked
    <3> HIDE DEF Ranked
    <3> QED  BY <3>1, <3>2 DEF RanksOK
  <2> QED  BY <1>1, <2>1, <2>2, ShapeInit
<1>2. ASSUME I, [Next]_vars PROVE I'
  BY <1>2, ShapeStep, SpendStep, RanksStep, OneOpenStep, OpenFitsStep, DoneFitsStep
<1>3. I => CapsHold
  BY DoneFitsSaysCapsHold
<1> QED  BY <1>1, <1>2, <1>3, PTL DEF Spec
=============================================================================
