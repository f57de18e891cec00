------------------------ MODULE GovernedMemoryProofs ------------------------
(***************************************************************************)
(* What holds of GovernedMemory for every number of processes, tenants,     *)
(* contents and terms, for every policy, with or without a tombstone table  *)
(* or an audit file: types; the promise that a revocation a process          *)
(* acknowledged is enforced by its read gate for ever; that nothing is       *)
(* revoked that nobody was entitled to have revoked; and that a view that    *)
(* validates is current. And of one process on its store: that a start-up    *)
(* rebuilds what was enforced, no row vanishes unaccounted for, and an       *)
(* erasure certificate is complete.                                        *)
(***************************************************************************)
EXTENDS GovernedMemory, TLAPS

\* The bounds are numbers.
LEMMA Bounds == MaxIds \in Nat /\ MaxHolds \in Nat /\ MaxViews \in Nat
BY ConstantsAssumption

\* Revoking views changes their status and nothing else.
LEMMA RevokeViewsType ==
    ASSUME NEW vs \in [1..MaxViews -> View \cup {NoView}], NEW ts
    PROVE  RevokeViews(vs, ts) \in [1..MaxViews -> View \cup {NoView}]
<1> SUFFICES ASSUME NEW h \in 1..MaxViews
             PROVE  RevokeViews(vs, ts)[h] \in View \cup {NoView}
    BY DEF RevokeViews
<1>1. CASE vs[h].status = "valid" /\ vs[h].tenant \in ts
    <2>1. vs[h] \in View BY <1>1 DEF NoView
    <2>2. [vs[h] EXCEPT !.status = "revoked"] \in View BY <2>1 DEF View
    <2> QED BY <1>1, <2>2 DEF RevokeViews
<1>2. CASE ~ (vs[h].status = "valid" /\ vs[h].tenant \in ts)
    BY <1>2 DEF RevokeViews
<1> QED BY <1>1, <1>2

\* Adding a revocation to a registry or a table keeps it one.
LEMMA AddType ==
    ASSUME NEW S \in SUBSET Revocation, NEW e \in Revocation
    PROVE  /\ Add(S, e) \in SUBSET Revocation
           /\ AddToTable(S, e) \in SUBSET Revocation
BY DEF Add, AddToTable

\* The copy of a row is a copy.
LEMMA CopiesType ==
    ASSUME NEW rs \in SUBSET Record
    PROVE  CopiesOf(rs) \subseteq Copy
<1> SUFFICES ASSUME NEW r \in rs PROVE CopyOf(r) \in Copy BY DEF CopiesOf
<1> QED BY DEF CopyOf, Record, Copy

\* Executing a revocation keeps the types of everything it touches.
LEMMA ExecuteType ==
    ASSUME TypeOK, NEW i \in Instances, NEW rev \in Revocation, Execute(i, rev)
    PROVE  /\ registry' \in [Instances -> SUBSET Revocation]
           /\ views' \in [Instances -> [1..MaxViews -> View \cup {NoView}]]
           /\ inflight' \in [Instances -> InFlight \cup {Idle}]
           /\ \A j \in Instances :
                /\ inflight'[j].step \in RevocationSteps => inflight'[j].rev \in Revocation
                /\ inflight'[j].step = "write_back" => inflight'[j] = inflight[j]
           /\ table' \subseteq Revocation
           /\ trail' \subseteq Revocation
           /\ promised' \in [Instances -> SUBSET Revocation]
<1>1. Add(registry[i], rev) \in SUBSET Revocation /\ AddToTable(table, rev) \in SUBSET Revocation
      /\ Add(promised[i], rev) \in SUBSET Revocation
    BY AddType DEF TypeOK, ProcessTypes, OperationTypes, StoreTypes, GhostTypes
<1>2. RevokeViews(views[i], {rev.tenant}) \in [1..MaxViews -> View \cup {NoView}]
    BY RevokeViewsType DEF TypeOK, ProcessTypes, OperationTypes, StoreTypes, GhostTypes
<1>3. \A st \in Steps : [step |-> st, rev |-> rev, targets |-> {}] \in InFlight
    BY DEF InFlight
<1>4. CASE ExecuteForget(i, rev)
    <2>1. "delete" \in Steps BY DEF Steps
    <2> QED BY <1>1, <1>2, <1>3, <1>4, <2>1 DEF ExecuteForget, TypeOK, ProcessTypes, OperationTypes, StoreTypes, GhostTypes
<1>5. CASE ExecuteRestrict(i, rev)
    <2>1. "log_restrict" \in Steps BY DEF Steps
    <2> QED BY <1>1, <1>2, <1>3, <1>5, <2>1 DEF ExecuteRestrict, TypeOK, ProcessTypes, OperationTypes, StoreTypes, GhostTypes
<1>6. CASE ExecuteRevokeConsent(i, rev)
    BY <1>1, <1>2, <1>6 DEF ExecuteRevokeConsent, TypeOK, ProcessTypes, OperationTypes, StoreTypes, GhostTypes
<1> QED BY <1>4, <1>5, <1>6 DEF Execute

\* A start-up from a well-typed store and audit file leaves every type intact.
LEMMA RestartedType ==
    ASSUME TypeOK, NEW is \in SUBSET Instances, NEW rows \in SUBSET Record,
           NEW tab \in SUBSET Revocation, NEW log \in SUBSET Revocation,
           Restarted(is, rows, tab, log)
    PROVE  /\ policy' \in [Instances -> Policies]
           /\ registry' \in [Instances -> SUBSET Revocation]
           /\ pending' \in [Instances -> [1..MaxHolds -> Hold \cup {NoHold}]]
           /\ id_counter' \in [Instances -> 0..MaxIds]
           /\ views' \in [Instances -> [1..MaxViews -> View \cup {NoView}]]
           /\ inflight' \in [Instances -> InFlight \cup {Idle}]
           /\ \A i \in Instances :
                /\ inflight'[i].step \in RevocationSteps => inflight'[i].rev \in Revocation
                /\ inflight'[i].step = "write_back" =>
                      inflight'[i] = inflight[i] /\ id_counter'[i] = id_counter[i]
           /\ records' \subseteq Record
           /\ table' \subseteq Revocation
           /\ trail' \subseteq Revocation
           /\ derived' \subseteq Copy
           /\ authorised' \subseteq Revocation
           /\ orphans' \subseteq derived'
<1>1. Rebuild(tab, log) \in SUBSET Revocation BY DEF Rebuild
<1>2. Idle.step \notin RevocationSteps /\ Idle.step # "write_back" BY DEF Idle, RevocationSteps
<1>3. Strand(rows) \subseteq derived BY DEF Strand, TypeOK, ProcessTypes, OperationTypes, StoreTypes, GhostTypes
<1> QED BY <1>1, <1>2, <1>3 DEF Restarted, TypeOK, ProcessTypes, OperationTypes, StoreTypes, GhostTypes

-----------------------------------------------------------------------------

\* The process steps of Next, named for the case splits of the proofs.
ProcessNext(i) ==
    \/ \E t \in Tenants, c \in Contents, consent \in BOOLEAN : Remember(i, t, c, consent)
    \/ \E r \in records, override \in BOOLEAN : ReleaseDelete(i, r, override)
    \/ ReleaseWriteBack(i)
    \/ \E rev \in Revocation, q \in Requesters, risky \in BOOLEAN : Revoke(i, rev, q, risky)
    \/ \E rev \in Revocation, q \in Requesters, risky \in BOOLEAN, n \in 1..MaxHolds :
          HoldRevocation(i, rev, q, risky, n)
    \/ \E n \in 1..MaxHolds : ApproveRevocation(i, n)
    \/ \E n \in 1..MaxHolds : RejectRevocation(i, n)
    \/ ForgetDelete(i)
    \/ ForgetPurge(i)
    \/ ForgetCertify(i)
    \/ RestrictLog(i)
    \/ \E expired \in SUBSET records : CleanupDelete(i, expired)
    \/ CleanupPurge(i)
    \/ PurgeRaises(i)
    \/ \E ts \in SUBSET Tenants : Reconcile(i, ts)
    \/ \E p \in Policies : SetPolicy(i, p)
    \/ \E n \in 1..MaxViews : ViewExpires(i, n)
    \/ \E n \in 1..MaxViews, t \in Tenants : IssueView(i, t, n)
    \/ \E r \in records : Derive(i, r)
    \/ Crash(i)

\* Every step is a step of some process or of the environment.
LEMMA NextSplits ==
    Next => \/ \E i \in Instances : ProcessNext(i)
            \/ TakeBackup \/ RestoreBackup \/ LoseAuditFile
BY DEF Next, ProcessNext

\* Every reachable state is well typed.
THEOREM TypeCorrect == Spec => []TypeOK
<1>1. Init => TypeOK
    <2> SUFFICES ASSUME Init PROVE TypeOK OBVIOUS
    <2>1. 0 \in 0..MaxIds BY ConstantsAssumption
    <2>2. \A i \in Instances : inflight[i].step \notin RevocationSteps
        BY DEF Init, Idle, RevocationSteps
    <2>3. \A i \in Instances : inflight[i] = Idle /\ Idle.step # "write_back" BY DEF Init, Idle
    <2> QED BY <2>1, <2>2, <2>3 DEF Init, TypeOK, ProcessTypes, OperationTypes, StoreTypes, GhostTypes
<1>2. TypeOK /\ [Next]_vars => TypeOK'
    <2> SUFFICES ASSUME TypeOK, [Next]_vars PROVE TypeOK' OBVIOUS
    <2> USE Bounds DEF volatile, durable, ghosts, TypeOK, ProcessTypes, OperationTypes, StoreTypes, GhostTypes
    <2>1. CASE \E i \in Instances : ProcessNext(i)
        <3> SUFFICES ASSUME NEW i \in Instances, ProcessNext(i) PROVE TypeOK' BY <2>1
        <3>a. inflight[i] \in InFlight \cup {Idle} OBVIOUS
        <3>b. id_counter[i] \in 0..MaxIds OBVIOUS
        <3>c. \A n \in 1..MaxHolds : pending[i][n] \in Hold \cup {NoHold} OBVIOUS
        <3>1. ASSUME NEW t \in Tenants, NEW c \in Contents, NEW consent \in BOOLEAN,
                     Remember(i, t, c, consent)
              PROVE  TypeOK'
            <4> DEFINE id == id_counter[i] + 1
                       held == HoldReason(i, t, c, consent)
                       r == [id |-> id, tenant |-> t, content |-> c, held |-> held]
            <4>1. id \in 1..MaxIds
                <5>1. id <= MaxIds BY <3>1 DEF Remember, NextId
                <5>2. MaxIds \in Nat BY ConstantsAssumption
                <5> QED BY <3>b, <5>1, <5>2
            <4>2. held \in {"", "injection", "other"} BY DEF HoldReason
            <4>3. r \in Record BY <4>1, <4>2 DEF Record
            <4>4. records' = Insert(records, r) /\ id_counter' = [id_counter EXCEPT ![i] = id]
                BY <3>1 DEF Remember, NextId
            <4>5. records' \subseteq Record BY <4>3, <4>4 DEF Insert
            <4>6. id_counter' \in [Instances -> 0..MaxIds]
                BY <4>1, <4>4, ConstantsAssumption
            <4>10. Free(i) BY <3>1 DEF Remember
            <4>7. inflight[i].step # "write_back" BY <4>10 DEF Free, Idle
            <4>8. \A j \in Instances : j # i => id_counter'[j] = id_counter[j]
                BY <4>4
            <4> HIDE DEF id, r
            <4>9. OperationTypes' BY <3>1, <4>7, <4>8 DEF Remember, NextId
            <4> QED BY <3>1, <4>5, <4>6, <4>9 DEF Remember, NextId
        <3>2. ASSUME NEW r \in records, NEW override \in BOOLEAN, ReleaseDelete(i, r, override)
              PROVE  TypeOK'
            <4> DEFINE op == [step |-> "write_back", rev |-> NoRevocation, targets |-> {r}]
            <4>1. op \in InFlight /\ op.step \notin RevocationSteps
                BY DEF InFlight, Steps, RevocationSteps
            <4>2. inflight' = [inflight EXCEPT ![i] = op] /\ records' = records \ {r}
                BY <3>2 DEF ReleaseDelete
            <4>3. id_counter[i] # MaxIds /\ id_counter' = id_counter
                <5>1. id_counter[i] < MaxIds /\ id_counter' = id_counter
                    BY <3>2 DEF ReleaseDelete
                <5> QED BY <5>1, <3>b
            <4> HIDE DEF op
            <4>4. OperationTypes' BY <4>1, <4>2, <4>3
            <4>5. records' \subseteq Record BY <4>2
            <4> QED BY <3>2, <4>4, <4>5 DEF ReleaseDelete
        <3>3. CASE ReleaseWriteBack(i)
            <4>0. inflight[i].step = "write_back" BY <3>3 DEF ReleaseWriteBack
            <4>1. inflight[i] \in InFlight BY <3>a, <4>0 DEF Idle
            <4>2. PICK r \in inflight[i].targets : records' = Insert(records, [r EXCEPT !.held = ""])
                BY <3>3 DEF ReleaseWriteBack
            <4>3. r \in Record BY <4>1, <4>2 DEF InFlight
            <4>4. [r EXCEPT !.held = ""] \in Record BY <4>3 DEF Record
            <4>5. records' \subseteq Record BY <4>2, <4>4 DEF Insert
            <4>6. id_counter[i] # MaxIds BY <4>0
            <4>7. id_counter[i] + 1 \in 0..MaxIds BY <3>b, <4>6
            <4>8. id_counter' = [id_counter EXCEPT ![i] = id_counter[i] + 1]
                  /\ inflight' = [inflight EXCEPT ![i] = Idle]
                BY <3>3 DEF ReleaseWriteBack
            <4>9. id_counter' \in [Instances -> 0..MaxIds] BY <4>7, <4>8
            <4>10. Idle.step \notin RevocationSteps /\ Idle.step # "write_back"
                BY DEF Idle, RevocationSteps
            <4>11. OperationTypes' BY <4>8, <4>10
            <4> QED BY <3>3, <4>5, <4>9, <4>11 DEF ReleaseWriteBack
        <3>4. ASSUME NEW rev \in Revocation, NEW q \in Requesters, NEW risky \in BOOLEAN,
                     Revoke(i, rev, q, risky)
              PROVE  TypeOK'
            <4>1. Execute(i, rev) BY <3>4 DEF Revoke
            <4>2. authorised' \subseteq Revocation BY <3>4, AddType DEF Revoke
            <4>3. UNCHANGED <<policy, pending, id_counter, records, derived, backup, fault, orphans>>
                BY <3>4 DEF Revoke
            <4> QED BY <4>1, <4>2, <4>3, ExecuteType
        <3>5. ASSUME NEW rev \in Revocation, NEW q \in Requesters, NEW risky \in BOOLEAN,
                     NEW n \in 1..MaxHolds, HoldRevocation(i, rev, q, risky, n)
              PROVE  TypeOK'
            <4> DEFINE h == [rev |-> [rev EXCEPT !.purpose = NoPurpose], status |-> "pending"]
            <4>1. [rev EXCEPT !.purpose = NoPurpose] \in Revocation BY DEF Revocation
            <4>2. h \in Hold BY <4>1 DEF Hold
            <4>3. pending' = [pending EXCEPT ![i][n] = h] BY <3>5 DEF HoldRevocation
            <4> HIDE DEF h
            <4>4. pending' \in [Instances -> [1..MaxHolds -> Hold \cup {NoHold}]]
                BY <4>2, <4>3
            <4> QED BY <3>5, <4>4 DEF HoldRevocation
        <3>6. ASSUME NEW n \in 1..MaxHolds, ApproveRevocation(i, n) PROVE TypeOK'
            <4> DEFINE h == pending[i][n]
            <4>0. h.status = "pending" BY <3>6 DEF ApproveRevocation
            <4>1. h \in Hold BY <3>c, <4>0 DEF NoHold
            <4>2. OnApproval(h.rev) \in Revocation
                BY <4>1 DEF Hold, OnApproval, Revocation, Kinds
            <4>3. [h EXCEPT !.status = "approved"] \in Hold BY <4>1 DEF Hold
            <4>4. pending' = [pending EXCEPT ![i][n] = [h EXCEPT !.status = "approved"]]
                BY <3>6 DEF ApproveRevocation
            <4>5. pending' \in [Instances -> [1..MaxHolds -> Hold \cup {NoHold}]]
                BY <4>3, <4>4
            <4>6. Add(authorised, OnApproval(h.rev)) \subseteq Revocation
                BY <4>2, AddType
            <4>7. Execute(i, OnApproval(h.rev)) BY <3>6 DEF ApproveRevocation
            <4>8. authorised' \subseteq Revocation BY <3>6, <4>6 DEF ApproveRevocation
            <4>9. UNCHANGED <<policy, id_counter, records, derived, backup, fault, orphans>>
                BY <3>6 DEF ApproveRevocation
            <4> HIDE DEF h
            <4> QED BY <4>2, <4>5, <4>7, <4>8, <4>9, ExecuteType
        <3>7. ASSUME NEW n \in 1..MaxHolds, RejectRevocation(i, n) PROVE TypeOK'
            <4> DEFINE h == pending[i][n]
            <4>0. h.status = "pending" BY <3>7 DEF RejectRevocation
            <4>1. h \in Hold BY <3>c, <4>0 DEF NoHold
            <4>2. [h EXCEPT !.status = "rejected"] \in Hold BY <4>1 DEF Hold
            <4>3. pending' = [pending EXCEPT ![i][n] = [h EXCEPT !.status = "rejected"]]
                BY <3>7 DEF RejectRevocation
            <4>4. pending' \in [Instances -> [1..MaxHolds -> Hold \cup {NoHold}]]
                BY <4>2, <4>3
            <4> QED BY <3>7, <4>4 DEF RejectRevocation
        <3>8. CASE ForgetDelete(i)
            <4> DEFINE op == [inflight[i] EXCEPT !.step = "purge",
                                                 !.targets = Matching(i, inflight[i].rev)]
            <4>1. inflight[i] \in InFlight /\ inflight[i].rev \in Revocation
                BY <3>8 DEF ForgetDelete, RevocationSteps, Idle
            <4>2. Matching(i, inflight[i].rev) \subseteq records BY DEF Matching
            <4>3. op \in InFlight /\ op.rev = inflight[i].rev
                BY <4>1, <4>2 DEF InFlight, Steps
            <4>4. inflight' = [inflight EXCEPT ![i] = op]
                BY <3>8 DEF ForgetDelete
            <4>5. op.step # "write_back" BY <4>1 DEF InFlight
            <4>6. id_counter' = id_counter /\ records' \subseteq records BY <3>8 DEF ForgetDelete
            <4> HIDE DEF op
            <4>7. OperationTypes' BY <4>1, <4>3, <4>4, <4>5, <4>6
            <4> QED BY <3>8, <4>6, <4>7 DEF ForgetDelete
        <3>9. CASE ForgetPurge(i)
            <4> DEFINE op == [inflight[i] EXCEPT !.step = "certify"]
            <4>1. inflight[i] \in InFlight /\ inflight[i].rev \in Revocation
                BY <3>9 DEF ForgetPurge, RevocationSteps, Idle
            <4>2. op \in InFlight /\ op.rev = inflight[i].rev BY <4>1 DEF InFlight, Steps
            <4>3. inflight' = [inflight EXCEPT ![i] = op] BY <3>9 DEF ForgetPurge
            <4>4. op.step # "write_back" BY <4>1 DEF InFlight
            <4>5. id_counter' = id_counter BY <3>9 DEF ForgetPurge
            <4> HIDE DEF op
            <4>6. OperationTypes' BY <4>1, <4>2, <4>3, <4>4, <4>5
            <4> QED BY <3>9, <4>6 DEF ForgetPurge, Purge
        <3>10. CASE ForgetCertify(i)
            <4>1. inflight[i].rev \in Revocation
                BY <3>10 DEF ForgetCertify, RevocationSteps
            <4>2. Add(promised[i], inflight[i].rev) \in SUBSET Revocation
                BY <4>1, AddType
            <4> QED BY <3>10, <4>1, <4>2 DEF ForgetCertify, Idle, RevocationSteps
        <3>11. CASE RestrictLog(i)
            <4>1. inflight[i].rev \in Revocation
                BY <3>11 DEF RestrictLog, RevocationSteps
            <4>2. Add(promised[i], inflight[i].rev) \in SUBSET Revocation
                BY <4>1, AddType
            <4> QED BY <3>11, <4>1, <4>2 DEF RestrictLog, Idle, RevocationSteps
        <3>12. ASSUME NEW expired \in SUBSET records, CleanupDelete(i, expired) PROVE TypeOK'
            <4> DEFINE op == [step |-> "purge_expired", rev |-> NoRevocation, targets |-> expired]
            <4>1. op \in InFlight /\ op.step \notin RevocationSteps
                BY DEF InFlight, Steps, RevocationSteps
            <4>2. inflight' = [inflight EXCEPT ![i] = op] /\ records' = records \ expired
                BY <3>12 DEF CleanupDelete
            <4> HIDE DEF op
            <4> QED BY <3>12, <4>1, <4>2 DEF CleanupDelete
        <3>13. CASE CleanupPurge(i)
            BY <3>13 DEF CleanupPurge, Purge, Idle, RevocationSteps
        <3>14. CASE PurgeRaises(i)
            BY <3>14 DEF PurgeRaises, Strand, Idle, RevocationSteps
        <3>15. ASSUME NEW ts \in SUBSET Tenants, Reconcile(i, ts) PROVE TypeOK'
            <4>1. records' \subseteq records BY <3>15 DEF Reconcile
            <4>2. orphans' \subseteq derived BY <3>15 DEF Reconcile, Strand
            <4> QED BY <3>15, <4>1, <4>2 DEF Reconcile
        <3>16. ASSUME NEW p \in Policies, SetPolicy(i, p) PROVE TypeOK'
            <4>1. RevokeViews(views[i], Tenants) \in [1..MaxViews -> View \cup {NoView}]
                BY RevokeViewsType
            <4> QED BY <3>16, <4>1 DEF SetPolicy
        <3>17. ASSUME NEW n \in 1..MaxViews, ViewExpires(i, n) PROVE TypeOK'
            <4> DEFINE v == views[i][n]
            <4>1. v \in View BY <3>17 DEF ViewExpires, NoView
            <4>2. [v EXCEPT !.status = "expired"] \in View BY <4>1 DEF View
            <4>3. views' = [views EXCEPT ![i][n] = [v EXCEPT !.status = "expired"]]
                BY <3>17 DEF ViewExpires
            <4>4. views' \in [Instances -> [1..MaxViews -> View \cup {NoView}]]
                BY <4>2, <4>3
            <4> QED BY <3>17, <4>4 DEF ViewExpires
        <3>18. ASSUME NEW n \in 1..MaxViews, NEW t \in Tenants, IssueView(i, t, n) PROVE TypeOK'
            <4> DEFINE v == [tenant |-> t, status |-> "valid",
                             granted |-> GovernanceOf(i, t), under |-> policy[i]]
            <4>1. GovernanceOf(i, t) \subseteq Revocation BY DEF GovernanceOf
            <4>2. policy[i] \in Policies OBVIOUS
            <4>5. v \in View BY <4>1, <4>2 DEF View
            <4>3. views' = [views EXCEPT ![i][n] = v] BY <3>18 DEF IssueView
            <4> HIDE DEF v
            <4>4. views' \in [Instances -> [1..MaxViews -> View \cup {NoView}]]
                BY <4>5, <4>3
            <4> QED BY <3>18, <4>4 DEF IssueView
        <3>19. ASSUME NEW r \in records, Derive(i, r) PROVE TypeOK'
            <4>1. CopyOf(r) \in Copy BY DEF CopyOf, Copy, Record
            <4> QED BY <3>19, <4>1 DEF Derive
        <3>20. CASE Crash(i)
            <4> DEFINE rows == IF DurableStore THEN records ELSE {}
                       log == IF AuditFile THEN trail ELSE {}
            <4>1. rows \in SUBSET Record /\ log \in SUBSET Revocation /\ table \in SUBSET Revocation
                OBVIOUS
            <4>2. Restarted({i}, rows, table, log) BY <3>20 DEF Crash
            <4>3. promised' \in [Instances -> SUBSET Revocation]
                BY <3>20 DEF Crash, WithoutConsent
            <4> HIDE DEF rows, log
            <4>4. UNCHANGED <<backup, fault>> BY <3>20 DEF Crash
            <4> QED BY <4>1, <4>2, <4>3, <4>4, RestartedType
        <3> HIDE DEF TypeOK
        <3> QED
            BY <3>1, <3>2, <3>3, <3>4, <3>5, <3>6, <3>7, <3>8, <3>9, <3>10, <3>11, <3>12,
               <3>13, <3>14, <3>15, <3>16, <3>17, <3>18, <3>19, <3>20 DEF ProcessNext
    <2>2. CASE TakeBackup BY <2>2 DEF TakeBackup
    <2>3. CASE RestoreBackup
        <3>1. PICK b \in backup : Restarted(Instances, b.rows, b.tab, trail)
            BY <2>3 DEF RestoreBackup
        <3> DEFINE rows == b.rows
                   tab == b.tab
        <3>2. rows \in SUBSET Record /\ tab \in SUBSET Revocation OBVIOUS
        <3>8. Restarted(Instances, rows, tab, trail) BY <3>1
        <3>3. backup' = {} /\ fault' = "restored" /\ promised' = promised
            BY <2>3 DEF RestoreBackup
        <3> HIDE DEF rows, tab
        <3>4. ProcessTypes' BY <3>2, <3>8, RestartedType
        <3>5. OperationTypes' BY <3>2, <3>8, RestartedType
        <3>6. StoreTypes' BY <3>2, <3>8, <3>3, RestartedType
        <3>7. GhostTypes' BY <3>2, <3>8, <3>3, RestartedType
        <3> QED BY <3>4, <3>5, <3>6, <3>7
    <2>4. CASE LoseAuditFile
        <3>1. Restarted(Instances, records, table, {}) BY <2>4 DEF LoseAuditFile
        <3>2. backup' = {} /\ fault' = "audit_lost"
              /\ promised' \in [Instances -> SUBSET Revocation]
            BY <2>4 DEF LoseAuditFile, WithoutConsent
        <3>3. records \in SUBSET Record /\ table \in SUBSET Revocation /\ {} \in SUBSET Revocation
            OBVIOUS
        <3>4. ProcessTypes' BY <3>1, <3>3, RestartedType
        <3>5. OperationTypes' BY <3>1, <3>3, RestartedType
        <3>6. StoreTypes' BY <3>1, <3>2, <3>3, RestartedType
        <3>7. GhostTypes' BY <3>1, <3>2, <3>3, RestartedType
        <3> QED BY <3>4, <3>5, <3>6, <3>7
    <2>5. CASE UNCHANGED vars
        <3>1. /\ UNCHANGED <<policy, registry, pending, id_counter, views, inflight>>
              /\ UNCHANGED <<records, table, trail, derived, backup, fault>>
              /\ UNCHANGED <<promised, authorised, orphans>>
            BY <2>5 DEF vars
        <3> QED BY <3>1
    <2> QED BY <2>1, <2>2, <2>3, <2>4, <2>5, NextSplits
<1> QED BY <1>1, <1>2, PTL DEF Spec

-----------------------------------------------------------------------------
(* The promise. *)

\* A step that touches no revocation, in memory or stored, and starts none.
LEMMA QuietStep ==
    ASSUME PromisesSurvive,
           UNCHANGED <<registry, table, trail, backup, fault, promised>>,
           \A j \in Instances :
              inflight'[j].step \in RevocationSteps =>
                 inflight[j].step \in RevocationSteps /\ inflight'[j].rev = inflight[j].rev
    PROVE  PromisesSurvive'
BY DEF PromisesSurvive, Survives

\* Executing a revocation stores it before anything is promised about it, except
\* a consent withdrawal, which is in the audit file when it is promised.
LEMMA ExecuteKeepsPromises ==
    ASSUME TypeOK, PromisesSurvive, NEW i \in Instances, NEW rev \in Revocation,
           Execute(i, rev), UNCHANGED <<backup, fault>>
    PROVE  PromisesSurvive'
<1> USE DEF TypeOK, ProcessTypes, OperationTypes, GhostTypes
<1>1. CASE rev.kind = "erased" /\ ExecuteForget(i, rev)
    <2>1. /\ registry' = [registry EXCEPT ![i] = Add(registry[i], rev)]
          /\ table' = AddToTable(table, rev)
          /\ inflight' = [inflight EXCEPT ![i] = [step |-> "delete", rev |-> rev, targets |-> {}]]
          /\ trail' = trail /\ promised' = promised
        BY <1>1 DEF ExecuteForget
    <2>2. table \subseteq table' /\ \A j \in Instances : registry[j] \subseteq registry'[j]
        BY <2>1 DEF AddToTable, Add
    <2>3. rev.term # {} => rev \in registry'[i] /\ (TombstoneTable => rev \in table')
        BY <2>1 DEF AddToTable, Add
    <2> QED BY <1>1, <2>1, <2>2, <2>3 DEF PromisesSurvive, Survives
<1>2. CASE rev.kind = "restricted" /\ ExecuteRestrict(i, rev)
    <2>1. /\ registry' = [registry EXCEPT ![i] = Add(registry[i], rev)]
          /\ table' = AddToTable(table, rev)
          /\ inflight' = [inflight EXCEPT ![i] =
                 [step |-> "log_restrict", rev |-> rev, targets |-> {}]]
          /\ trail' = trail /\ promised' = promised
        BY <1>2 DEF ExecuteRestrict
    <2>2. table \subseteq table' /\ \A j \in Instances : registry[j] \subseteq registry'[j]
        BY <2>1 DEF AddToTable, Add
    <2>3. rev.term # {} => rev \in registry'[i] /\ (TombstoneTable => rev \in table')
        BY <2>1 DEF AddToTable, Add
    <2> QED BY <1>2, <2>1, <2>2, <2>3 DEF PromisesSurvive, Survives
<1>3. CASE rev.kind = "consent" /\ ExecuteRevokeConsent(i, rev)
    <2>1. /\ registry' = [registry EXCEPT ![i] = Add(registry[i], rev)]
          /\ promised' = [promised EXCEPT ![i] = Add(promised[i], rev)]
          /\ trail' = trail \cup {rev}
          /\ table' = table /\ inflight' = inflight
        BY <1>3 DEF ExecuteRevokeConsent
    <2>2. trail \subseteq trail' /\ \A j \in Instances : registry[j] \subseteq registry'[j]
        BY <2>1 DEF Add
    <2>3. \A j \in Instances : \A e \in promised'[j] :
             e \in promised[j] \/ (j = i /\ e = rev /\ rev.term # {} /\ rev \in registry'[i])
        BY <2>1 DEF Add
    <2>4. rev \in trail' BY <2>1
    <2>5. \A j \in Instances : \A e \in promised'[j] : e \in registry'[j] /\ Survives(e)'
        BY <1>3, <2>1, <2>2, <2>3, <2>4 DEF PromisesSurvive, Survives
    <2> QED BY <2>1, <2>2, <2>5 DEF PromisesSurvive
<1> QED BY <1>1, <1>2, <1>3 DEF Execute

\* Logging an operation's revocation lets it be promised.
LEMMA LoggingKeepsPromises ==
    ASSUME TypeOK, PromisesSurvive, NEW i \in Instances,
           inflight[i].step \in {"certify", "log_restrict"},
           trail' = trail \cup {inflight[i].rev},
           promised' = [promised EXCEPT ![i] = Add(@, inflight[i].rev)],
           inflight' = [inflight EXCEPT ![i] = Idle],
           UNCHANGED <<registry, table, backup, fault>>
    PROVE  PromisesSurvive'
<1> USE DEF TypeOK, ProcessTypes, OperationTypes, GhostTypes
<1> DEFINE rev == inflight[i].rev
<1>1. inflight[i].step \in RevocationSteps BY DEF RevocationSteps
<1>2. \A j \in Instances : \A e \in promised'[j] :
         e \in promised[j] \/ (j = i /\ e = rev /\ rev.term # {})
    BY DEF Add
<1>3. \A j \in Instances : \A e \in promised'[j] : e \in registry'[j] /\ Survives(e)'
    <2> SUFFICES ASSUME NEW j \in Instances, NEW e \in promised'[j]
                 PROVE  e \in registry'[j] /\ Survives(e)'
        OBVIOUS
    <2>1. CASE e \in promised[j]
        BY <2>1 DEF PromisesSurvive, Survives
    <2>2. CASE j = i /\ e = rev /\ rev.term # {}
        <3>1. rev \in registry[i] /\ (TombstoneTable /\ fault # "restored" => rev \in table)
            BY <1>1, <2>2 DEF PromisesSurvive
        <3>2. rev \in trail' OBVIOUS
        <3> QED BY <2>2, <3>1, <3>2 DEF Survives
    <2> QED BY <1>2, <2>1, <2>2
<1>4. Idle.step \notin RevocationSteps BY DEF Idle, RevocationSteps
<1> QED BY <1>3, <1>4 DEF PromisesSurvive

\* After a start-up from a store and an audit file, promises reach as far as both do.
LEMMA RestartKeepsPromises ==
    ASSUME TypeOK, PromisesSurvive, NEW is \in SUBSET Instances, NEW rows,
           NEW tab, NEW log, Restarted(is, rows, tab, log),
           \A i \in Instances : promised'[i] \subseteq promised[i],
           \A i \in Instances : \A e \in promised'[i] :
              Survives(e)' /\ (i \in is => e \in tab \cup log),
           \A i \in Instances \ is :
              inflight[i].step \in RevocationSteps /\ inflight[i].rev.term # {} =>
                 (TombstoneTable /\ fault' # "restored" => inflight[i].rev \in tab),
           fault' = "restored" \/ backup' # {} => AuditFile,
           fault' = "audit_lost" => TombstoneTable
    PROVE  PromisesSurvive'
<1>1. \A i \in Instances : \A e \in promised'[i] : e \in registry'[i] /\ Survives(e)'
    <2> SUFFICES ASSUME NEW i \in Instances, NEW e \in promised'[i]
                 PROVE  e \in registry'[i]
        OBVIOUS
    <2>1. e \in registry[i] /\ e.term # {} BY DEF PromisesSurvive, Survives
    <2>2. registry'[i] = IF i \in is THEN Rebuild(tab, log) ELSE registry[i]
        BY DEF Restarted
    <2> QED BY <2>1, <2>2 DEF Rebuild
<1>2. \A i \in Instances :
          inflight'[i].step \in RevocationSteps /\ inflight'[i].rev.term # {} =>
              /\ inflight'[i].rev \in registry'[i]
              /\ inflight'[i].rev.kind # "consent"
              /\ TombstoneTable /\ fault' # "restored" => inflight'[i].rev \in table'
    <2> SUFFICES ASSUME NEW i \in Instances, inflight'[i].step \in RevocationSteps,
                        inflight'[i].rev.term # {}
                 PROVE  /\ inflight'[i].rev \in registry'[i]
                        /\ inflight'[i].rev.kind # "consent"
                        /\ TombstoneTable /\ fault' # "restored" => inflight'[i].rev \in table'
        OBVIOUS
    <2>1. inflight'[i] = IF i \in is THEN Idle ELSE inflight[i] BY DEF Restarted
    <2>2. i \notin is BY <2>1 DEF Idle, RevocationSteps
    <2>3. registry'[i] = registry[i] /\ table' = tab BY <2>2 DEF Restarted
    <2> QED BY <2>1, <2>2, <2>3 DEF PromisesSurvive
<1> QED BY <1>1, <1>2 DEF PromisesSurvive

\* Whatever a process acknowledged survives every behaviour of the system.
THEOREM PromisesCorrect == Spec => []PromisesSurvive
<1>1. Init => PromisesSurvive
    BY DEF Init, PromisesSurvive, Idle, RevocationSteps
<1>2. TypeOK /\ PromisesSurvive /\ [Next]_vars => PromisesSurvive'
    <2> SUFFICES ASSUME TypeOK, PromisesSurvive, [Next]_vars PROVE PromisesSurvive' OBVIOUS
    <2> USE DEF volatile, durable, ghosts
    <2>1. CASE \E i \in Instances : ProcessNext(i)
        <3> SUFFICES ASSUME NEW i \in Instances, ProcessNext(i) PROVE PromisesSurvive' BY <2>1
        <3>a. inflight \in [Instances -> InFlight \cup {Idle}] BY DEF TypeOK, OperationTypes
        <3>b. Idle.step \notin RevocationSteps BY DEF Idle, RevocationSteps
        <3>1. ASSUME NEW t \in Tenants, NEW c \in Contents, NEW consent \in BOOLEAN,
                     Remember(i, t, c, consent)
              PROVE  PromisesSurvive'
            BY <3>1, QuietStep DEF Remember
        <3>2. ASSUME NEW r \in records, NEW override \in BOOLEAN, ReleaseDelete(i, r, override)
              PROVE  PromisesSurvive'
            BY <3>a, <3>2, QuietStep DEF ReleaseDelete, RevocationSteps
        <3>3. CASE ReleaseWriteBack(i)
            BY <3>a, <3>b, <3>3, QuietStep DEF ReleaseWriteBack
        <3>4. ASSUME NEW rev \in Revocation, NEW q \in Requesters, NEW risky \in BOOLEAN,
                     Revoke(i, rev, q, risky)
              PROVE  PromisesSurvive'
            <4>1. Execute(i, rev) /\ UNCHANGED <<backup, fault>> BY <3>4 DEF Revoke
            <4> QED BY <4>1, ExecuteKeepsPromises
        <3>5. ASSUME NEW rev \in Revocation, NEW q \in Requesters, NEW risky \in BOOLEAN,
                     NEW n \in 1..MaxHolds, HoldRevocation(i, rev, q, risky, n)
              PROVE  PromisesSurvive'
            BY <3>5, QuietStep DEF HoldRevocation
        <3>6. ASSUME NEW n \in 1..MaxHolds, ApproveRevocation(i, n) PROVE PromisesSurvive'
            <4> DEFINE h == pending[i][n]
            <4>1. /\ Execute(i, OnApproval(h.rev)) /\ UNCHANGED <<backup, fault>>
                  /\ h.status = "pending"
                BY <3>6 DEF ApproveRevocation
            <4>2. h \in Hold BY <4>1, Bounds DEF NoHold, TypeOK, ProcessTypes
            <4>3. OnApproval(h.rev) \in Revocation
                BY <4>2 DEF Hold, OnApproval, Revocation, Kinds
            <4> HIDE DEF h
            <4> QED BY <4>1, <4>3, ExecuteKeepsPromises
        <3>7. ASSUME NEW n \in 1..MaxHolds, RejectRevocation(i, n) PROVE PromisesSurvive'
            BY <3>7, QuietStep DEF RejectRevocation
        <3>8. CASE ForgetDelete(i)
            BY <3>a, <3>8, QuietStep DEF ForgetDelete, RevocationSteps
        <3>9. CASE ForgetPurge(i)
            BY <3>a, <3>9, QuietStep DEF ForgetPurge, RevocationSteps
        <3>10. CASE ForgetCertify(i)
            BY <3>10, LoggingKeepsPromises DEF ForgetCertify
        <3>11. CASE RestrictLog(i)
            BY <3>11, LoggingKeepsPromises DEF RestrictLog
        <3>12. ASSUME NEW expired \in SUBSET records, CleanupDelete(i, expired)
               PROVE  PromisesSurvive'
            BY <3>a, <3>12, QuietStep DEF CleanupDelete, RevocationSteps
        <3>13. CASE CleanupPurge(i)
            BY <3>a, <3>b, <3>13, QuietStep DEF CleanupPurge
        <3>14. CASE PurgeRaises(i)
            BY <3>a, <3>b, <3>14, QuietStep DEF PurgeRaises
        <3>15. ASSUME NEW ts \in SUBSET Tenants, Reconcile(i, ts) PROVE PromisesSurvive'
            BY <3>15, QuietStep DEF Reconcile
        <3>16. ASSUME NEW p \in Policies, SetPolicy(i, p) PROVE PromisesSurvive'
            BY <3>16, QuietStep DEF SetPolicy
        <3>17. ASSUME NEW n \in 1..MaxViews, ViewExpires(i, n) PROVE PromisesSurvive'
            BY <3>17, QuietStep DEF ViewExpires
        <3>18. ASSUME NEW n \in 1..MaxViews, NEW t \in Tenants, IssueView(i, t, n)
               PROVE  PromisesSurvive'
            BY <3>18, QuietStep DEF IssueView
        <3>19. ASSUME NEW r \in records, Derive(i, r) PROVE PromisesSurvive'
            BY <3>19, QuietStep DEF Derive
        <3>20. CASE Crash(i)
            <4> DEFINE rows == IF DurableStore THEN records ELSE {}
                       log == IF AuditFile THEN trail ELSE {}
            <4>1. Restarted({i}, rows, table, log) /\ UNCHANGED <<backup, fault>>
                  /\ promised' = IF AuditFile THEN promised
                                 ELSE [promised EXCEPT ![i] = WithoutConsent(promised[i])]
                BY <3>20 DEF Crash
            <4>2. table' = table /\ trail' = log BY <4>1 DEF Restarted
            <4>3. TombstoneTable \/ AuditFile BY ConstantsAssumption
            <4>4. \A j \in Instances : promised'[j] \subseteq promised[j]
                BY <4>1 DEF WithoutConsent, TypeOK, GhostTypes
            <4>5. ASSUME NEW j \in Instances, NEW e \in promised'[j]
                  PROVE  Survives(e)' /\ (j \in {i} => e \in table \cup log)
                <5>1. Survives(e) BY <4>4, <4>5 DEF PromisesSurvive
                <5>2. CASE AuditFile
                    BY <4>1, <4>2, <5>1, <5>2 DEF Survives, PromisesSurvive
                <5>3. CASE ~AuditFile
                    <6>1. TombstoneTable /\ fault # "restored"
                        BY <4>3, <5>3 DEF PromisesSurvive
                    <6>2. j = i => e.kind # "consent"
                        BY <4>1, <4>5, <5>3 DEF WithoutConsent, TypeOK, GhostTypes
                    <6> QED BY <4>1, <4>2, <5>1, <5>3, <6>1, <6>2 DEF Survives
                <5> QED BY <5>2, <5>3
            <4>6. \A j \in Instances \ {i} :
                     inflight[j].step \in RevocationSteps /\ inflight[j].rev.term # {} =>
                        (TombstoneTable /\ fault' # "restored" => inflight[j].rev \in table)
                BY <4>1 DEF PromisesSurvive
            <4>7. /\ fault' = "restored" \/ backup' # {} => AuditFile
                  /\ fault' = "audit_lost" => TombstoneTable
                BY <4>1 DEF PromisesSurvive
            <4> HIDE DEF rows, log
            <4> QED BY <4>1, <4>4, <4>5, <4>6, <4>7, RestartKeepsPromises
        <3> QED
            BY <3>1, <3>2, <3>3, <3>4, <3>5, <3>6, <3>7, <3>8, <3>9, <3>10, <3>11, <3>12,
               <3>13, <3>14, <3>15, <3>16, <3>17, <3>18, <3>19, <3>20 DEF ProcessNext
    <2>2. CASE TakeBackup
        <3>1. AuditFile BY <2>2, ConstantsAssumption DEF TakeBackup
        <3> QED BY <2>2, <3>1 DEF TakeBackup, PromisesSurvive, Survives
    <2>3. CASE RestoreBackup
        <3>1. PICK b \in backup : Restarted(Instances, b.rows, b.tab, trail)
            BY <2>3 DEF RestoreBackup
        <3>2. /\ backup' = {} /\ fault' = "restored" /\ promised' = promised
              /\ fault = "none" /\ backup # {}
            BY <2>3 DEF RestoreBackup
        <3>3. AuditFile BY <3>2 DEF PromisesSurvive
        <3>4. trail' = trail BY <3>1 DEF Restarted
        <3>5. \A i \in Instances : \A e \in promised'[i] : Survives(e)' /\ e \in trail
            BY <3>2, <3>3, <3>4 DEF Survives, PromisesSurvive
        <3> DEFINE rows == b.rows
                   tab == b.tab
        <3>6. Restarted(Instances, rows, tab, trail) BY <3>1
        <3> HIDE DEF rows, tab
        <3> QED BY <3>2, <3>3, <3>5, <3>6, RestartKeepsPromises
    <2>4. CASE LoseAuditFile
        <3>1. /\ Restarted(Instances, records, table, {})
              /\ backup' = {} /\ fault' = "audit_lost" /\ fault = "none"
              /\ promised' = [j \in Instances |-> WithoutConsent(promised[j])]
            BY <2>4 DEF LoseAuditFile
        <3>2. TombstoneTable BY <2>4, ConstantsAssumption DEF LoseAuditFile
        <3>3. table' = table BY <3>1 DEF Restarted
        <3>4. \A j \in Instances : \A e \in promised'[j] :
                 e \in promised[j] /\ Survives(e)' /\ e \in table
            BY <3>1, <3>2, <3>3 DEF WithoutConsent, PromisesSurvive, Survives
        <3> QED BY <3>1, <3>2, <3>4, RestartKeepsPromises
    <2>5. CASE UNCHANGED vars
        <3>1. /\ UNCHANGED <<registry, table, trail, backup, fault, promised>>
              /\ UNCHANGED inflight
            BY <2>5 DEF vars
        <3> QED BY <3>1, QuietStep
    <2> QED BY <2>1, <2>2, <2>3, <2>4, <2>5, NextSplits
<1> QED BY <1>1, <1>2, TypeCorrect, PTL DEF Spec

\* No read gate ever serves what its process acknowledged as revoked.
THEOREM RevokedStaysRevoked == Spec => []RevokedNeverServed
<1>1. PromisesSurvive => RevokedNeverServed
    BY DEF PromisesSurvive, RevokedNeverServed, Servable
<1> QED BY <1>1, PromisesCorrect, PTL

-----------------------------------------------------------------------------
(* Who may revoke. *)

\* Every place a revocation can be read from, the copy of the store file and the
\* operation under way included, holds authorised ones only. (An entry whose term
\* has no tokens is logged but never enforced.)
AuthorityInv ==
    /\ \A i \in Instances : registry[i] \subseteq authorised
    /\ \A e \in table \cup trail : e.term # {} => e \in authorised
    /\ \A b \in backup : \A e \in b.tab : e.term # {} => e \in authorised
    /\ \A i \in Instances :
          inflight[i].step \in RevocationSteps /\ inflight[i].rev.term # {} =>
              inflight[i].rev \in authorised

\* A step that revokes nothing: nothing is added to a registry, the table, the trail
\* or a copy of the store, and no revocation begins.
LEMMA NothingRevoked ==
    ASSUME AuthorityInv, authorised \subseteq authorised',
           \A i \in Instances : registry'[i] \subseteq registry[i],
           table' \cup trail' \subseteq table \cup trail,
           \A b \in backup' : b \in backup \/ b.tab = table,
           \A i \in Instances :
              inflight'[i].step \in RevocationSteps =>
                 inflight[i].step \in RevocationSteps /\ inflight'[i].rev = inflight[i].rev
    PROVE  AuthorityInv'
BY DEF AuthorityInv

\* Executing a revocation that was authorised with it.
LEMMA ExecuteAuthorised ==
    ASSUME TypeOK, AuthorityInv, NEW i \in Instances, NEW rev \in Revocation, Execute(i, rev),
           authorised' = Add(authorised, rev), backup' = backup
    PROVE  AuthorityInv'
<1> USE DEF TypeOK, ProcessTypes, OperationTypes
<1>1. authorised \subseteq authorised' /\ (rev.term # {} => rev \in authorised')
    BY DEF Add
<1>2. /\ registry' = [registry EXCEPT ![i] = Add(registry[i], rev)]
      /\ table' \cup trail' \subseteq table \cup trail \cup {rev}
    BY DEF Execute, ExecuteForget, ExecuteRestrict, ExecuteRevokeConsent, Add, AddToTable
<1>3. \A j \in Instances : registry'[j] \subseteq authorised'
    BY <1>1, <1>2 DEF AuthorityInv, Add
<1>4. \A j \in Instances :
          inflight'[j] = inflight[j] \/ inflight'[j].rev = rev
    BY DEF Execute, ExecuteForget, ExecuteRestrict, ExecuteRevokeConsent
<1> QED BY <1>1, <1>2, <1>3, <1>4 DEF AuthorityInv

\* A start-up rebuilds what the store and the audit file hold, and no more.
LEMMA RestartAuthorised ==
    ASSUME AuthorityInv, NEW is \in SUBSET Instances, NEW rows, NEW tab, NEW log,
           Restarted(is, rows, tab, log), backup' \subseteq backup,
           \A e \in tab \cup log : e.term # {} => e \in authorised
    PROVE  AuthorityInv'
<1>1. table' = tab /\ trail' = log /\ authorised' = authorised BY DEF Restarted
<1>2. ASSUME NEW i \in Instances PROVE registry'[i] \subseteq authorised'
    <2>1. registry'[i] = IF i \in is THEN Rebuild(tab, log) ELSE registry[i]
        BY DEF Restarted
    <2> QED BY <1>1, <2>1 DEF Rebuild, AuthorityInv
<1>3. \A i \in Instances :
          inflight'[i].step \in RevocationSteps => inflight'[i] = inflight[i]
    BY DEF Restarted, Idle, RevocationSteps
<1> QED BY <1>1, <1>2, <1>3 DEF AuthorityInv

\* An operation logs the revocation it was authorised to carry out.
LEMMA LoggingAuthorised ==
    ASSUME TypeOK, AuthorityInv, NEW i \in Instances, inflight[i].step \in RevocationSteps,
           trail' = trail \cup {inflight[i].rev},
           inflight' = [inflight EXCEPT ![i] = Idle],
           UNCHANGED <<registry, table, backup, authorised>>
    PROVE  AuthorityInv'
<1>1. \A j \in Instances : inflight'[j].step \in RevocationSteps => inflight'[j] = inflight[j]
    BY DEF Idle, RevocationSteps, TypeOK, OperationTypes
<1> QED BY <1>1 DEF AuthorityInv

\* reliability.py, _revocation_hold_reason and approve_revocation: whatever is withheld
\* or erased, in memory or by what a restart would pick up, was asked for by an entitled
\* requester, decided by a reviewer, or accepted by a policy that was not strict.
THEOREM OnlyAuthorisedRevoke == Spec => []RevocationsAreAuthorised
<1>1. Init => AuthorityInv
    BY DEF Init, AuthorityInv, Idle, RevocationSteps
<1>2. TypeOK /\ AuthorityInv /\ [Next]_vars => AuthorityInv'
    <2> SUFFICES ASSUME TypeOK, AuthorityInv, [Next]_vars PROVE AuthorityInv' OBVIOUS
    <2> USE DEF volatile, durable, ghosts
    <2>1. CASE \E i \in Instances : ProcessNext(i)
        <3> SUFFICES ASSUME NEW i \in Instances, ProcessNext(i) PROVE AuthorityInv' BY <2>1
        <3>a. inflight \in [Instances -> InFlight \cup {Idle}] BY DEF TypeOK, OperationTypes
        <3>b. Idle.step \notin RevocationSteps BY DEF Idle, RevocationSteps
        <3>1. ASSUME NEW t \in Tenants, NEW c \in Contents, NEW consent \in BOOLEAN,
                     Remember(i, t, c, consent)
              PROVE  AuthorityInv'
            BY <3>1, NothingRevoked DEF Remember
        <3>2. ASSUME NEW r \in records, NEW override \in BOOLEAN, ReleaseDelete(i, r, override)
              PROVE  AuthorityInv'
            BY <3>a, <3>2, NothingRevoked DEF ReleaseDelete, RevocationSteps
        <3>3. CASE ReleaseWriteBack(i)
            BY <3>a, <3>b, <3>3, NothingRevoked DEF ReleaseWriteBack
        <3>4. ASSUME NEW rev \in Revocation, NEW q \in Requesters, NEW risky \in BOOLEAN,
                     Revoke(i, rev, q, risky)
              PROVE  AuthorityInv'
            <4>1. authorised' = Add(authorised, rev)
                BY <3>4 DEF Revoke, Suspicious
            <4>2. Execute(i, rev) /\ backup' = backup BY <3>4 DEF Revoke
            <4> QED BY <4>1, <4>2, ExecuteAuthorised
        <3>5. ASSUME NEW rev \in Revocation, NEW q \in Requesters, NEW risky \in BOOLEAN,
                     NEW n \in 1..MaxHolds, HoldRevocation(i, rev, q, risky, n)
              PROVE  AuthorityInv'
            BY <3>5, NothingRevoked DEF HoldRevocation
        <3>6. ASSUME NEW n \in 1..MaxHolds, ApproveRevocation(i, n) PROVE AuthorityInv'
            <4> DEFINE rev == OnApproval(pending[i][n].rev)
            <4>1. Execute(i, rev) /\ backup' = backup /\ authorised' = Add(authorised, rev)
                BY <3>6 DEF ApproveRevocation
            <4>2. pending[i][n] \in Hold
                BY <3>6, Bounds DEF ApproveRevocation, NoHold, TypeOK, ProcessTypes
            <4>3. rev \in Revocation BY <4>2 DEF Hold, OnApproval, Revocation, Kinds
            <4> HIDE DEF rev
            <4> QED BY <4>1, <4>3, ExecuteAuthorised
        <3>7. ASSUME NEW n \in 1..MaxHolds, RejectRevocation(i, n) PROVE AuthorityInv'
            BY <3>7, NothingRevoked DEF RejectRevocation
        <3>8. CASE ForgetDelete(i)
            BY <3>a, <3>8, NothingRevoked DEF ForgetDelete, RevocationSteps
        <3>9. CASE ForgetPurge(i)
            BY <3>a, <3>9, NothingRevoked DEF ForgetPurge, RevocationSteps
        <3>10. CASE ForgetCertify(i)
            BY <3>10, LoggingAuthorised DEF ForgetCertify, RevocationSteps
        <3>11. CASE RestrictLog(i)
            BY <3>11, LoggingAuthorised DEF RestrictLog, RevocationSteps
        <3>12. ASSUME NEW expired \in SUBSET records, CleanupDelete(i, expired)
               PROVE  AuthorityInv'
            BY <3>a, <3>12, NothingRevoked DEF CleanupDelete, RevocationSteps
        <3>13. CASE CleanupPurge(i)
            BY <3>a, <3>b, <3>13, NothingRevoked DEF CleanupPurge
        <3>14. CASE PurgeRaises(i)
            BY <3>a, <3>b, <3>14, NothingRevoked DEF PurgeRaises
        <3>15. ASSUME NEW ts \in SUBSET Tenants, Reconcile(i, ts) PROVE AuthorityInv'
            BY <3>15, NothingRevoked DEF Reconcile
        <3>16. ASSUME NEW p \in Policies, SetPolicy(i, p) PROVE AuthorityInv'
            BY <3>16, NothingRevoked DEF SetPolicy
        <3>17. ASSUME NEW n \in 1..MaxViews, ViewExpires(i, n) PROVE AuthorityInv'
            BY <3>17, NothingRevoked DEF ViewExpires
        <3>18. ASSUME NEW n \in 1..MaxViews, NEW t \in Tenants, IssueView(i, t, n)
               PROVE  AuthorityInv'
            BY <3>18, NothingRevoked DEF IssueView
        <3>19. ASSUME NEW r \in records, Derive(i, r) PROVE AuthorityInv'
            BY <3>19, NothingRevoked DEF Derive
        <3>20. CASE Crash(i)
            <4> DEFINE rows == IF DurableStore THEN records ELSE {}
                       log == IF AuditFile THEN trail ELSE {}
            <4>1. Restarted({i}, rows, table, log) /\ backup' = backup
                BY <3>20 DEF Crash
            <4>2. \A e \in table \cup log : e.term # {} => e \in authorised
                BY DEF AuthorityInv
            <4> HIDE DEF rows, log
            <4> QED BY <4>1, <4>2, RestartAuthorised
        <3> QED
            BY <3>1, <3>2, <3>3, <3>4, <3>5, <3>6, <3>7, <3>8, <3>9, <3>10, <3>11, <3>12,
               <3>13, <3>14, <3>15, <3>16, <3>17, <3>18, <3>19, <3>20 DEF ProcessNext
    <2>2. CASE TakeBackup
        <3>1. \A b \in backup' : b.tab = table BY <2>2 DEF TakeBackup
        <3> QED BY <2>2, <3>1, NothingRevoked DEF TakeBackup
    <2>3. CASE RestoreBackup
        <3>1. PICK b \in backup : Restarted(Instances, b.rows, b.tab, trail)
            BY <2>3 DEF RestoreBackup
        <3> DEFINE rows == b.rows
                   tab == b.tab
        <3>2. Restarted(Instances, rows, tab, trail) BY <3>1
        <3>3. \A e \in tab \cup trail : e.term # {} => e \in authorised BY DEF AuthorityInv
        <3>4. backup' \subseteq backup BY <2>3 DEF RestoreBackup
        <3> HIDE DEF rows, tab
        <3> QED BY <3>2, <3>3, <3>4, RestartAuthorised
    <2>4. CASE LoseAuditFile
        <3>1. Restarted(Instances, records, table, {}) /\ backup' \subseteq backup
            BY <2>4 DEF LoseAuditFile
        <3>2. \A e \in table \cup {} : e.term # {} => e \in authorised BY DEF AuthorityInv
        <3> QED BY <3>1, <3>2, RestartAuthorised
    <2>5. CASE UNCHANGED vars
        <3>1. UNCHANGED <<registry, table, trail, backup, authorised>> /\ UNCHANGED inflight
            BY <2>5 DEF vars
        <3> QED BY <3>1, NothingRevoked
    <2> QED BY <2>1, <2>2, <2>3, <2>4, <2>5, NextSplits
<1>3. AuthorityInv => RevocationsAreAuthorised
    BY DEF AuthorityInv, RevocationsAreAuthorised, Rebuild
<1> QED BY <1>1, <1>2, <1>3, TypeCorrect, PTL DEF Spec

-----------------------------------------------------------------------------
(* Views. *)

\* What was to be shown of one view.
Current(i, n) ==
    views[i][n].status = "valid" =>
        /\ views[i][n].granted = GovernanceOf(i, views[i][n].tenant)
        /\ views[i][n].under = policy[i]

\* A step under which policies and registries stay, and no view turns valid or, being
\* valid, changes.
LEMMA ViewsStayCurrent ==
    ASSUME ValidViewIsCurrent, UNCHANGED <<registry, policy>>,
           \A i \in Instances : \A n \in 1..MaxViews :
              views'[i][n].status = "valid" => views'[i][n] = views[i][n]
    PROVE  ValidViewIsCurrent'
<1> SUFFICES ASSUME NEW i \in Instances, NEW n \in 1..MaxViews PROVE Current(i, n)'
    BY DEF ValidViewIsCurrent, Current
<1>1. Current(i, n) BY DEF ValidViewIsCurrent, Current
<1> QED BY <1>1 DEF Current, GovernanceOf

\* A view that is revoked does not validate, and what still does was valid before.
LEMMA RevokeViewsRevokes ==
    ASSUME NEW vs \in [1..MaxViews -> View \cup {NoView}], NEW ts, NEW h \in 1..MaxViews,
           RevokeViews(vs, ts)[h].status = "valid"
    PROVE  vs[h].status = "valid" /\ vs[h].tenant \notin ts /\ RevokeViews(vs, ts)[h] = vs[h]
<1>1. CASE vs[h].status = "valid" /\ vs[h].tenant \in ts
    <2>1. vs[h] \in View BY <1>1 DEF NoView
    <2>2. [vs[h] EXCEPT !.status = "revoked"].status = "revoked" BY <2>1 DEF View
    <2> QED BY <1>1, <2>2 DEF RevokeViews
<1>2. CASE ~ (vs[h].status = "valid" /\ vs[h].tenant \in ts)
    BY <1>2 DEF RevokeViews
<1> QED BY <1>1, <1>2

\* A revocation of a tenant revokes the views of the tenant and of nobody else.
LEMMA ExecuteRevokesViews ==
    ASSUME TypeOK, ValidViewIsCurrent, NEW i \in Instances, NEW rev \in Revocation,
           Execute(i, rev), policy' = policy
    PROVE  ValidViewIsCurrent'
<1> USE DEF TypeOK, ProcessTypes
<1>1. /\ registry' = [registry EXCEPT ![i] = Add(registry[i], rev)]
      /\ views' = [views EXCEPT ![i] = RevokeViews(views[i], {rev.tenant})]
    BY DEF Execute, ExecuteForget, ExecuteRestrict, ExecuteRevokeConsent
<1> SUFFICES ASSUME NEW j \in Instances, NEW n \in 1..MaxViews PROVE Current(j, n)'
    BY DEF ValidViewIsCurrent, Current
<1>2. Current(j, n) BY DEF ValidViewIsCurrent, Current
<1>3. CASE j # i
    BY <1>1, <1>2, <1>3 DEF Current, GovernanceOf
<1>4. CASE j = i
    <2> SUFFICES ASSUME views'[i][n].status = "valid" PROVE Current(i, n)' BY <1>4 DEF Current
    <2>1. /\ views[i][n].status = "valid" /\ views[i][n].tenant # rev.tenant
          /\ views'[i][n] = views[i][n]
        <3> DEFINE ts == {rev.tenant}
        <3>1. views'[i][n] = RevokeViews(views[i], ts)[n] BY <1>1
        <3>2. views[i] \in [1..MaxViews -> View \cup {NoView}] OBVIOUS
        <3>3. RevokeViews(views[i], ts)[n].status = "valid" BY <3>1
        <3>4. rev.tenant \in ts OBVIOUS
        <3> HIDE DEF ts, TypeOK, ProcessTypes
        <3>5. /\ views[i][n].status = "valid" /\ views[i][n].tenant \notin ts
              /\ RevokeViews(views[i], ts)[n] = views[i][n]
            BY <3>2, <3>3, RevokeViewsRevokes
        <3> QED BY <3>1, <3>4, <3>5
    <2>2. GovernanceOf(i, views[i][n].tenant)' = GovernanceOf(i, views[i][n].tenant)
        BY <1>1, <2>1 DEF GovernanceOf, Add
    <2> QED BY <1>2, <1>4, <2>1, <2>2 DEF Current
<1> QED BY <1>3, <1>4

\* A process that starts has no views, and the others keep theirs and what they enforce.
LEMMA RestartEndsViews ==
    ASSUME ValidViewIsCurrent, NEW is \in SUBSET Instances, NEW rows, NEW tab, NEW log,
           Restarted(is, rows, tab, log)
    PROVE  ValidViewIsCurrent'
<1> SUFFICES ASSUME NEW i \in Instances, NEW n \in 1..MaxViews PROVE Current(i, n)'
    BY DEF ValidViewIsCurrent, Current
<1>1. CASE i \in is
    BY <1>1 DEF Restarted, Current, NoView
<1>2. CASE i \notin is
    <2>1. policy'[i] = policy[i] /\ registry'[i] = registry[i] /\ views'[i] = views[i]
        BY <1>2 DEF Restarted
    <2>2. Current(i, n) BY DEF ValidViewIsCurrent, Current
    <2> QED BY <2>1, <2>2 DEF Current, GovernanceOf
<1> QED BY <1>1, <1>2

\* reliability.py, _bump_epoch and the view gate of recall(): a view that validates was
\* issued under the policy and the revocations its process enforces now.
THEOREM ViewsAreCurrent == Spec => []ValidViewIsCurrent
<1>1. Init => ValidViewIsCurrent
    BY DEF Init, ValidViewIsCurrent, NoView
<1>2. TypeOK /\ ValidViewIsCurrent /\ [Next]_vars => ValidViewIsCurrent'
    <2> SUFFICES ASSUME TypeOK, ValidViewIsCurrent, [Next]_vars PROVE ValidViewIsCurrent' OBVIOUS
    <2> USE DEF volatile, durable, ghosts
    <2>1. CASE \E i \in Instances : ProcessNext(i)
        <3> SUFFICES ASSUME NEW i \in Instances, ProcessNext(i) PROVE ValidViewIsCurrent' BY <2>1
        <3>1. ASSUME NEW rev \in Revocation, NEW q \in Requesters, NEW risky \in BOOLEAN,
                     Revoke(i, rev, q, risky)
              PROVE  ValidViewIsCurrent'
            BY <3>1, ExecuteRevokesViews DEF Revoke
        <3>2. ASSUME NEW n \in 1..MaxHolds, ApproveRevocation(i, n) PROVE ValidViewIsCurrent'
            <4> DEFINE rev == OnApproval(pending[i][n].rev)
            <4>1. Execute(i, rev) /\ policy' = policy BY <3>2 DEF ApproveRevocation
            <4>2. pending[i][n] \in Hold
                BY <3>2, Bounds DEF ApproveRevocation, NoHold, TypeOK, ProcessTypes
            <4>3. rev \in Revocation BY <4>2 DEF Hold, OnApproval, Revocation, Kinds
            <4> HIDE DEF rev
            <4> QED BY <4>1, <4>3, ExecuteRevokesViews
        <3>3. ASSUME NEW p \in Policies, SetPolicy(i, p) PROVE ValidViewIsCurrent'
            <4>1. /\ policy' = [policy EXCEPT ![i] = p] /\ registry' = registry
                  /\ views' = [views EXCEPT ![i] = RevokeViews(views[i], Tenants)]
                BY <3>3 DEF SetPolicy
            <4> SUFFICES ASSUME NEW j \in Instances, NEW n \in 1..MaxViews PROVE Current(j, n)'
                BY DEF ValidViewIsCurrent, Current
            <4>2. CASE j # i
                <5>1. Current(j, n) BY DEF ValidViewIsCurrent, Current
                <5> QED BY <4>1, <4>2, <5>1 DEF Current, GovernanceOf, TypeOK, ProcessTypes
            <4>3. CASE j = i
                <5>1. views[i][n] \in View => views[i][n].tenant \in Tenants BY DEF View
                <5>2. views[i][n] \in View \cup {NoView} /\ NoView.status # "valid"
                    BY Bounds DEF NoView, TypeOK, ProcessTypes
                <5>3. views'[i][n].status # "valid"
                    <6>1. views'[i][n] = RevokeViews(views[i], Tenants)[n]
                        BY <4>1 DEF TypeOK, ProcessTypes
                    <6>2. views[i] \in [1..MaxViews -> View \cup {NoView}]
                        BY DEF TypeOK, ProcessTypes
                    <6> QED BY <5>1, <5>2, <6>1, <6>2, RevokeViewsRevokes
                <5> QED BY <4>3, <5>3 DEF Current
            <4> QED BY <4>2, <4>3
        <3>4. ASSUME NEW n \in 1..MaxViews, ViewExpires(i, n) PROVE ValidViewIsCurrent'
            <4>1. views[i][n] \in View
                BY <3>4, Bounds DEF ViewExpires, NoView, TypeOK, ProcessTypes
            <4>2. views' = [views EXCEPT ![i][n] = [views[i][n] EXCEPT !.status = "expired"]]
                  /\ UNCHANGED <<registry, policy>>
                BY <3>4 DEF ViewExpires
            <4>3. [views[i][n] EXCEPT !.status = "expired"].status # "valid"
                BY <4>1 DEF View
            <4>4. \A j \in Instances : \A m \in 1..MaxViews :
                     views'[j][m].status = "valid" => views'[j][m] = views[j][m]
                BY <4>2, <4>3 DEF TypeOK, ProcessTypes
            <4> QED BY <4>2, <4>4, ViewsStayCurrent
        <3>5. ASSUME NEW n \in 1..MaxViews, NEW t \in Tenants, IssueView(i, t, n)
              PROVE  ValidViewIsCurrent'
            <4> DEFINE v == [tenant |-> t, status |-> "valid",
                             granted |-> GovernanceOf(i, t), under |-> policy[i]]
            <4>1. views' = [views EXCEPT ![i][n] = v] /\ UNCHANGED <<registry, policy>>
                BY <3>5 DEF IssueView
            <4> SUFFICES ASSUME NEW j \in Instances, NEW m \in 1..MaxViews PROVE Current(j, m)'
                BY DEF ValidViewIsCurrent, Current
            <4>2. CASE j = i /\ m = n
                <5>1. views'[j][m] = v BY <4>1, <4>2 DEF TypeOK, ProcessTypes
                <5> QED BY <4>1, <4>2, <5>1 DEF Current, GovernanceOf
            <4>3. CASE ~ (j = i /\ m = n)
                <5>1. views'[j][m] = views[j][m]
                    <6> HIDE DEF v
                    <6> QED BY <4>1, <4>3 DEF TypeOK, ProcessTypes
                <5>2. Current(j, m) BY DEF ValidViewIsCurrent, Current
                <5> QED BY <4>1, <5>1, <5>2 DEF Current, GovernanceOf
            <4> QED BY <4>2, <4>3
        <3>6. CASE Crash(i)
            <4> DEFINE rows == IF DurableStore THEN records ELSE {}
                       log == IF AuditFile THEN trail ELSE {}
            <4>1. Restarted({i}, rows, table, log) BY <3>6 DEF Crash
            <4> HIDE DEF rows, log
            <4> QED BY <4>1, RestartEndsViews
        <3>7. ASSUME UNCHANGED <<registry, policy, views>> PROVE ValidViewIsCurrent'
            BY <3>7, ViewsStayCurrent
        <3>8. CASE \/ \E t \in Tenants, c \in Contents, consent \in BOOLEAN :
                         Remember(i, t, c, consent)
                   \/ \E r \in records, override \in BOOLEAN : ReleaseDelete(i, r, override)
                   \/ ReleaseWriteBack(i)
            BY <3>7, <3>8 DEF Remember, ReleaseDelete, ReleaseWriteBack
        <3>9. CASE \/ \E rev \in Revocation, q \in Requesters, risky \in BOOLEAN, n \in 1..MaxHolds :
                         HoldRevocation(i, rev, q, risky, n)
                   \/ \E n \in 1..MaxHolds : RejectRevocation(i, n)
            BY <3>7, <3>9 DEF HoldRevocation, RejectRevocation
        <3>10. CASE ForgetDelete(i) \/ ForgetPurge(i) \/ ForgetCertify(i) \/ RestrictLog(i)
            BY <3>7, <3>10 DEF ForgetDelete, ForgetPurge, ForgetCertify, RestrictLog
        <3>11. CASE \/ \E expired \in SUBSET records : CleanupDelete(i, expired)
                    \/ CleanupPurge(i) \/ PurgeRaises(i)
                    \/ \E ts \in SUBSET Tenants : Reconcile(i, ts)
                    \/ \E r \in records : Derive(i, r)
            BY <3>7, <3>11 DEF CleanupDelete, CleanupPurge, PurgeRaises, Reconcile, Derive
        <3> QED
            BY <3>1, <3>2, <3>3, <3>4, <3>5, <3>6, <3>8, <3>9, <3>10, <3>11 DEF ProcessNext
    <2>2. CASE TakeBackup BY <2>2, ViewsStayCurrent DEF TakeBackup
    <2>3. CASE RestoreBackup
        <3>1. PICK b \in backup : Restarted(Instances, b.rows, b.tab, trail)
            BY <2>3 DEF RestoreBackup
        <3> DEFINE rows == b.rows
                   tab == b.tab
        <3>2. Restarted(Instances, rows, tab, trail) BY <3>1
        <3> HIDE DEF rows, tab
        <3> QED BY <3>2, RestartEndsViews
    <2>4. CASE LoseAuditFile
        <3>1. Restarted(Instances, records, table, {}) BY <2>4 DEF LoseAuditFile
        <3> QED BY <3>1, RestartEndsViews
    <2>5. CASE UNCHANGED vars
        <3>1. UNCHANGED <<registry, policy, views>> BY <2>5 DEF vars
        <3> QED BY <3>1, ViewsStayCurrent
    <2> QED BY <2>1, <2>2, <2>3, <2>4, <2>5, NextSplits
<1> QED BY <1>1, <1>2, TypeCorrect, PTL DEF Spec

-----------------------------------------------------------------------------
(* One process on its store. *)

SingleProcess == \A i, j \in Instances : i = j

\* With one process, what a revocation adds to its registry it adds to the table or
\* the trail, and what is logged later is enforced already.
LEMMA ExecuteRebuilds ==
    ASSUME SingleProcess, TypeOK, RestartChangesNothing, NEW i \in Instances,
           NEW rev \in Revocation, Execute(i, rev)
    PROVE  RestartChangesNothing'
<1> SUFFICES ASSUME TombstoneTable, NEW j \in Instances
             PROVE  registry'[j] = Rebuild(table', trail')
    BY DEF RestartChangesNothing
<1>1. j = i BY DEF SingleProcess
<1>2. registry[i] = Rebuild(table, trail) BY DEF RestartChangesNothing
<1>3. registry'[i] = Add(registry[i], rev)
    BY DEF Execute, ExecuteForget, ExecuteRestrict, ExecuteRevokeConsent, TypeOK, ProcessTypes
<1>4. \/ table' = Add(table, rev) /\ trail' = trail
      \/ table' = table /\ trail' = trail \cup {rev}
    BY DEF Execute, ExecuteForget, ExecuteRestrict, ExecuteRevokeConsent, AddToTable
<1> QED BY <1>1, <1>2, <1>3, <1>4 DEF Add, Rebuild

LEMMA LoggingRebuilds ==
    ASSUME SingleProcess, PromisesSurvive, RestartChangesNothing, NEW i \in Instances,
           inflight[i].step \in RevocationSteps, trail' = trail \cup {inflight[i].rev},
           UNCHANGED <<registry, table>>
    PROVE  RestartChangesNothing'
<1> SUFFICES ASSUME TombstoneTable, NEW j \in Instances
             PROVE  registry'[j] = Rebuild(table', trail')
    BY DEF RestartChangesNothing
<1>1. j = i BY DEF SingleProcess
<1>2. registry[i] = Rebuild(table, trail) BY DEF RestartChangesNothing
<1>3. inflight[i].rev.term # {} => inflight[i].rev \in registry[i] BY DEF PromisesSurvive
<1> QED BY <1>1, <1>2, <1>3 DEF Rebuild

\* A process that starts enforces what it rebuilt.
LEMMA RestartRebuilds ==
    ASSUME NEW rows, NEW tab, NEW log, Restarted(Instances, rows, tab, log)
    PROVE  RestartChangesNothing'
BY DEF Restarted, RestartChangesNothing

\* reliability.py, __init__ and the order of effects in _execute_forget, restrict and
\* revoke_consent: for one process on a store with a tombstone table, what a start-up
\* would rebuild is at every moment, between two effects of an operation as well, what
\* the process enforces.
THEOREM RestartsAreInvisible == SingleProcess => (Spec => []RestartChangesNothing)
<1> SUFFICES ASSUME SingleProcess PROVE Spec => []RestartChangesNothing OBVIOUS
<1>1. Init => RestartChangesNothing
    BY DEF Init, RestartChangesNothing, Rebuild
<1>2. TypeOK /\ PromisesSurvive /\ RestartChangesNothing /\ [Next]_vars => RestartChangesNothing'
    <2> SUFFICES ASSUME TypeOK, PromisesSurvive, RestartChangesNothing, [Next]_vars
                 PROVE  RestartChangesNothing'
        OBVIOUS
    <2> USE DEF volatile, durable, ghosts
    <2>0. UNCHANGED <<registry, table, trail>> => RestartChangesNothing'
        BY DEF RestartChangesNothing
    <2>1. CASE \E i \in Instances : ProcessNext(i)
        <3> SUFFICES ASSUME NEW i \in Instances, ProcessNext(i) PROVE RestartChangesNothing' BY <2>1
        <3>0. {i} = Instances BY DEF SingleProcess
        <3>1. ASSUME NEW rev \in Revocation, NEW q \in Requesters, NEW risky \in BOOLEAN,
                     Revoke(i, rev, q, risky)
              PROVE  RestartChangesNothing'
            BY <3>1, ExecuteRebuilds DEF Revoke
        <3>2. ASSUME NEW n \in 1..MaxHolds, ApproveRevocation(i, n) PROVE RestartChangesNothing'
            <4> DEFINE rev == OnApproval(pending[i][n].rev)
            <4>1. Execute(i, rev) BY <3>2 DEF ApproveRevocation
            <4>2. pending[i][n] \in Hold
                BY <3>2, Bounds DEF ApproveRevocation, NoHold, TypeOK, ProcessTypes
            <4>3. rev \in Revocation BY <4>2 DEF Hold, OnApproval, Revocation, Kinds
            <4> HIDE DEF rev
            <4> QED BY <4>1, <4>3, ExecuteRebuilds
        <3>3. CASE ForgetCertify(i) \/ RestrictLog(i)
            BY <3>3, LoggingRebuilds DEF ForgetCertify, RestrictLog, RevocationSteps
        <3>4. CASE Crash(i)
            <4> DEFINE rows == IF DurableStore THEN records ELSE {}
                       log == IF AuditFile THEN trail ELSE {}
            <4>1. Restarted(Instances, rows, table, log) BY <3>0, <3>4 DEF Crash
            <4> HIDE DEF rows, log
            <4> QED BY <4>1, RestartRebuilds
        <3>5. CASE \/ \E t \in Tenants, c \in Contents, consent \in BOOLEAN :
                         Remember(i, t, c, consent)
                   \/ \E r \in records, override \in BOOLEAN : ReleaseDelete(i, r, override)
                   \/ ReleaseWriteBack(i)
            BY <2>0, <3>5 DEF Remember, ReleaseDelete, ReleaseWriteBack
        <3>6. CASE \/ \E rev \in Revocation, q \in Requesters, risky \in BOOLEAN, n \in 1..MaxHolds :
                         HoldRevocation(i, rev, q, risky, n)
                   \/ \E n \in 1..MaxHolds : RejectRevocation(i, n)
                   \/ ForgetDelete(i) \/ ForgetPurge(i)
            BY <2>0, <3>6 DEF HoldRevocation, RejectRevocation, ForgetDelete, ForgetPurge
        <3>7. CASE \/ \E expired \in SUBSET records : CleanupDelete(i, expired)
                   \/ CleanupPurge(i) \/ PurgeRaises(i)
                   \/ \E ts \in SUBSET Tenants : Reconcile(i, ts)
            BY <2>0, <3>7 DEF CleanupDelete, CleanupPurge, PurgeRaises, Reconcile
        <3>8. CASE \/ \E p \in Policies : SetPolicy(i, p)
                   \/ \E n \in 1..MaxViews : ViewExpires(i, n)
                   \/ \E n \in 1..MaxViews, t \in Tenants : IssueView(i, t, n)
                   \/ \E r \in records : Derive(i, r)
            BY <2>0, <3>8 DEF SetPolicy, ViewExpires, IssueView, Derive
        <3> QED BY <3>1, <3>2, <3>3, <3>4, <3>5, <3>6, <3>7, <3>8 DEF ProcessNext
    <2>2. CASE TakeBackup BY <2>0, <2>2 DEF TakeBackup
    <2>3. CASE RestoreBackup
        <3>1. PICK b \in backup : Restarted(Instances, b.rows, b.tab, trail)
            BY <2>3 DEF RestoreBackup
        <3> DEFINE rows == b.rows
                   tab == b.tab
        <3>2. Restarted(Instances, rows, tab, trail) BY <3>1
        <3> HIDE DEF rows, tab
        <3> QED BY <3>2, RestartRebuilds
    <2>4. CASE LoseAuditFile
        <3>1. Restarted(Instances, records, table, {}) BY <2>4 DEF LoseAuditFile
        <3> QED BY <3>1, RestartRebuilds
    <2>5. CASE UNCHANGED vars BY <2>0, <2>5 DEF vars
    <2> QED BY <2>1, <2>2, <2>3, <2>4, <2>5, NextSplits
<1> QED BY <1>1, <1>2, TypeCorrect, PromisesCorrect, PTL DEF Spec

-----------------------------------------------------------------------------
(* Rows, their ids and their copies, with one process on the store. *)

\* Ids are not reused while their row is stored, and the row that release has
\* deleted and will write back finds its id free.
IdsInv ==
    /\ \A i \in Instances : \A r \in records : r.id <= id_counter[i]
    /\ \A r, s \in records : r.id = s.id => r = s
    /\ \A b \in backup : \A r, s \in b.rows : r.id = s.id => r = s
    /\ \A i \in Instances : inflight[i].step = "write_back" =>
          \E r \in Record : /\ inflight[i].targets = {r}
                            /\ r.id <= id_counter[i]
                            /\ \A s \in records : s.id # r.id

\* A copy that is not stranded has its row, or the row is a target of the
\* operation that will purge the copy or write the row back.
CopiesInv ==
    \A d \in derived \ orphans :
        \/ d \in CopiesOf(records)
        \/ \E i \in Instances : /\ inflight[i].step \in {"purge", "purge_expired", "write_back"}
                                /\ d \in CopiesOf(inflight[i].targets)

\* From its deletion to its certificate an erasure has left no matching row.
ErasedRowsGone ==
    \A i \in Instances : inflight[i].step \in {"purge", "certify"} =>
        \A r \in records :
            ~ (r.tenant = inflight[i].rev.tenant /\ TermHits(i, inflight[i].rev.term, r.content))

StoreInv == IdsInv /\ CopiesInv /\ ErasedRowsGone

\* The steps of an operation that still has a row or its copies to see to.
Attending == {"purge", "purge_expired", "write_back"}

\* A step that leaves rows, copies and ids alone, and neither begins nor ends such a
\* stretch of an operation; a policy is swapped while no erasure is under way.
LEMMA StoreQuiet ==
    ASSUME StoreInv,
           UNCHANGED <<id_counter, records, derived, orphans>>,
           \A b \in backup' : b \in backup \/ b.rows = records,
           \A j \in Instances :
              \/ inflight'[j] = inflight[j]
              \/ /\ inflight'[j].step \notin Attending \cup {"certify"}
                 /\ inflight[j].step \notin Attending,
           \/ policy' = policy
           \/ \A j \in Instances : inflight'[j].step \notin {"purge", "certify"}
    PROVE  StoreInv'
<1>1. IdsInv' BY DEF StoreInv, IdsInv, Attending
<1>2. CopiesInv' BY DEF StoreInv, CopiesInv, Attending
<1>3. ErasedRowsGone' BY DEF StoreInv, ErasedRowsGone, Attending, TermHits, ErasureTokens
<1> QED BY <1>1, <1>2, <1>3 DEF StoreInv

\* Processes that start over a store with distinct ids number on from its highest, and
\* count every copy without a row as stranded.
LEMMA RestartStore ==
    ASSUME StoreInv, NEW rows, NEW tab, NEW log, Restarted(Instances, rows, tab, log),
           backup' \subseteq backup, \A r, s \in rows : r.id = s.id => r = s
    PROVE  StoreInv'
<1>1. /\ records' = rows /\ derived' = derived /\ orphans' = Strand(rows)
      /\ \A j \in Instances : inflight'[j] = Idle /\ IsMaxCounter(id_counter'[j], rows)
    BY DEF Restarted
<1>2. Idle.step \notin Attending \cup {"certify"} BY DEF Idle, Attending
<1>3. IdsInv' BY <1>1, <1>2 DEF StoreInv, IdsInv, IsMaxCounter, Attending
<1>4. CopiesInv' BY <1>1 DEF CopiesInv, Strand
<1>5. ErasedRowsGone' BY <1>1, <1>2 DEF ErasedRowsGone, Attending
<1> QED BY <1>3, <1>4, <1>5 DEF StoreInv

\* Ids and counters are numbers.
LEMMA NumberedIds ==
    ASSUME TypeOK
    PROVE  /\ \A i \in Instances : id_counter[i] \in Nat
           /\ \A r \in Record : r.id \in Nat
           /\ \A r \in records : r.id \in Nat
<1>1. \A r \in Record : r.id \in 1..MaxIds BY DEF Record
<1>2. \A i \in Instances : id_counter[i] \in 0..MaxIds BY DEF TypeOK, ProcessTypes
<1>3. records \subseteq Record BY DEF TypeOK, StoreTypes
<1> QED BY <1>1, <1>2, <1>3, Bounds

\* A write takes an id no row has.
LEMMA RememberStore ==
    ASSUME SingleProcess, TypeOK, StoreInv, NEW i \in Instances, NEW t \in Tenants,
           NEW c \in Contents, NEW consent \in BOOLEAN, Remember(i, t, c, consent)
    PROVE  StoreInv' /\ records \subseteq records'
<1> DEFINE id == id_counter[i] + 1
           new == [id |-> id, tenant |-> t, content |-> c, held |-> HoldReason(i, t, c, consent)]
<1>0. id_counter[i] \in Nat /\ \A r \in records : r.id \in Nat /\ r.id <= id_counter[i]
    BY NumberedIds DEF StoreInv, IdsInv
<1>1. /\ records' = Insert(records, new) /\ id_counter' = [id_counter EXCEPT ![i] = id]
      /\ UNCHANGED <<policy, inflight, derived, orphans, backup>> /\ inflight[i] = Idle
    BY DEF Remember, NextId, Free, ghosts
<1>2. \A r \in records : r.id < id /\ r.id # id BY <1>0
<1>3. new.id = id OBVIOUS
<1>4. \A j \in Instances : id_counter'[j] = id /\ inflight'[j] = Idle
    BY <1>1 DEF SingleProcess, TypeOK, ProcessTypes
<1> HIDE DEF new, id
<1>5. records' = records \cup {new} BY <1>1, <1>2, <1>3 DEF Insert
<1>6. id \in Nat BY <1>0 DEF id
<1>7. Idle.step \notin Attending \cup {"certify"} BY DEF Idle, Attending
<1>8. IdsInv'
    <2>1. \A r, s \in records' : r.id = s.id => r = s
        BY <1>2, <1>3, <1>5 DEF StoreInv, IdsInv
    <2>2. \A j \in Instances : \A r \in records' : r.id <= id_counter'[j]
        BY <1>2, <1>3, <1>4, <1>5, <1>6, <1>0
    <2> QED BY <1>1, <1>4, <1>7, <2>1, <2>2 DEF StoreInv, IdsInv, Attending
<1>9. CopiesInv'
    BY <1>1, <1>5 DEF StoreInv, CopiesInv, CopiesOf
<1>10. ErasedRowsGone' BY <1>4, <1>7 DEF ErasedRowsGone, Attending
<1> QED BY <1>5, <1>8, <1>9, <1>10 DEF StoreInv

\* Rows that an operation deletes, with itself as the one that still has their copies,
\* or the row, to see to.
LEMMA DeleteStore ==
    ASSUME SingleProcess, TypeOK, StoreInv, NEW i \in Instances, NEW op, NEW gone \in SUBSET records,
           inflight[i].step \notin Attending \cup {"certify"},
           records' = records \ gone, inflight' = [inflight EXCEPT ![i] = op],
           op.targets = gone, op.step \in Attending,
           op.step = "write_back" => \E r \in records : gone = {r},
           op.step = "purge" => gone = Matching(i, op.rev),
           UNCHANGED <<policy, id_counter, derived, orphans, backup>>
    PROVE  StoreInv'
<1>1. \A j \in Instances : inflight'[j] = op /\ j = i
    BY DEF SingleProcess, TypeOK, OperationTypes
<1>2. IdsInv'
    <2>1. ASSUME op.step = "write_back"
          PROVE  \E r \in Record : /\ op.targets = {r} /\ r.id <= id_counter[i]
                                   /\ \A s \in records' : s.id # r.id
        <3>1. PICK r \in records : gone = {r} BY <2>1
        <3>2. r \in Record BY DEF TypeOK, StoreTypes
        <3> QED BY <3>1, <3>2 DEF StoreInv, IdsInv
    <2> QED BY <1>1, <2>1 DEF StoreInv, IdsInv
<1>3. CopiesInv'
    <2> SUFFICES ASSUME NEW d \in derived \ orphans
                 PROVE  d \in CopiesOf(records') \/ d \in CopiesOf(gone)
        BY <1>1 DEF CopiesInv, Attending
    <2>1. d \in CopiesOf(records)
        BY DEF StoreInv, CopiesInv, Attending, SingleProcess
    <2> QED BY <2>1 DEF CopiesOf
<1>4. ErasedRowsGone'
    BY <1>1 DEF ErasedRowsGone, Attending, Matching, TermHits, ErasureTokens
<1> QED BY <1>2, <1>3, <1>4 DEF StoreInv

\* The row comes back under its id, which nobody took in the meantime.
LEMMA WriteBackStore ==
    ASSUME SingleProcess, TypeOK, StoreInv, NEW i \in Instances, ReleaseWriteBack(i)
    PROVE  StoreInv' /\ records \subseteq records' /\ RowsAreBack(i)
<1>1. PICK r \in Record : /\ inflight[i].targets = {r} /\ r.id <= id_counter[i]
                          /\ \A s \in records : s.id # r.id
    BY DEF ReleaseWriteBack, StoreInv, IdsInv
<1> DEFINE clean == [r EXCEPT !.held = ""]
<1>2. clean.id = r.id /\ CopyOf(clean) = CopyOf(r) BY <1>1 DEF Record, CopyOf
<1>3. /\ records' = Insert(records, clean) /\ id_counter' = [id_counter EXCEPT ![i] = id_counter[i] + 1]
      /\ inflight' = [inflight EXCEPT ![i] = Idle]
      /\ UNCHANGED <<policy, derived, backup, orphans>>
    BY <1>1 DEF ReleaseWriteBack, ghosts
<1> HIDE DEF clean
<1>4. records' = records \cup {clean} BY <1>1, <1>2, <1>3 DEF Insert
<1>5. id_counter[i] \in Nat /\ r.id \in Nat /\ \A s \in records : s.id \in Nat
    BY NumberedIds, <1>1
<1>6. \A j \in Instances : id_counter'[j] = id_counter[i] + 1 /\ inflight'[j] = Idle /\ j = i
    BY <1>3 DEF SingleProcess, TypeOK, ProcessTypes, OperationTypes
<1>7. Idle.step \notin Attending \cup {"certify"} BY DEF Idle, Attending
<1>8. IdsInv'
    <2>1. \A s, u \in records' : s.id = u.id => s = u
        BY <1>1, <1>2, <1>4 DEF StoreInv, IdsInv
    <2>2. \A j \in Instances : \A s \in records' : s.id <= id_counter'[j]
        <3>1. \A s \in records : s.id <= id_counter[i] BY DEF StoreInv, IdsInv
        <3> QED BY <1>1, <1>2, <1>4, <1>5, <1>6, <3>1
    <2> QED BY <1>3, <1>6, <1>7, <2>1, <2>2 DEF StoreInv, IdsInv, Attending
<1>9. CopiesInv'
    <2> SUFFICES ASSUME NEW d \in derived \ orphans PROVE d \in CopiesOf(records')
        BY <1>3 DEF CopiesInv
    <2>1. d \in CopiesOf(records) \/ d \in CopiesOf({r})
        BY <1>1 DEF StoreInv, CopiesInv, SingleProcess
    <2> QED BY <1>2, <1>4, <2>1 DEF CopiesOf
<1>10. ErasedRowsGone' BY <1>6, <1>7 DEF ErasedRowsGone, Attending
<1>11. RowsAreBack(i) BY <1>1, <1>2, <1>4 DEF RowsAreBack, CopiesOf
<1> QED BY <1>4, <1>8, <1>9, <1>10, <1>11 DEF StoreInv

\* The copies of deleted rows are purged, or stranded, or were never held.
LEMMA PurgeStore ==
    ASSUME SingleProcess, TypeOK, StoreInv, NEW i \in Instances,
           inflight[i].step \in {"purge", "purge_expired"},
           Purge(inflight[i].targets) \/ (derived' = derived /\ orphans' = Strand(records)),
           \/ inflight' = [inflight EXCEPT ![i] = Idle]
           \/ inflight[i].step = "purge" /\ inflight' = [inflight EXCEPT ![i].step = "certify"],
           UNCHANGED <<policy, id_counter, records, backup>>
    PROVE  StoreInv'
<1> DEFINE op == [inflight[i] EXCEPT !.step = "certify"]
<1>0. inflight[i] \in InFlight BY DEF TypeOK, OperationTypes, Idle
<1>a. op.step = "certify" /\ op.rev = inflight[i].rev BY <1>0 DEF InFlight
<1>b. \/ inflight' = [inflight EXCEPT ![i] = Idle]
      \/ inflight[i].step = "purge" /\ inflight' = [inflight EXCEPT ![i] = op]
    OBVIOUS
<1> HIDE DEF op
<1>1. \A j \in Instances : j = i /\ (inflight'[j] = Idle \/ (inflight[i].step = "purge" /\ inflight'[j] = op))
    BY <1>b DEF SingleProcess, TypeOK, OperationTypes
<1>2. Idle.step \notin Attending \cup {"certify"} BY DEF Idle, Attending
<1>3. IdsInv' BY <1>1, <1>2, <1>a DEF StoreInv, IdsInv, Attending
<1>4. CopiesInv'
    <2> SUFFICES ASSUME NEW d \in derived' \ orphans' PROVE d \in CopiesOf(records)
        BY DEF CopiesInv
    <2>1. CASE Purge(inflight[i].targets)
        BY <2>1 DEF Purge, StoreInv, CopiesInv, SingleProcess
    <2>2. CASE derived' = derived /\ orphans' = Strand(records)
        BY <2>2 DEF Strand
    <2> QED BY <2>1, <2>2
<1>5. ErasedRowsGone'
    BY <1>1, <1>2, <1>a DEF StoreInv, ErasedRowsGone, Attending, TermHits, ErasureTokens
<1> QED BY <1>3, <1>4, <1>5 DEF StoreInv

\* Reconciliation deletes rows between two operations and strands their copies.
LEMMA ReconcileStore ==
    ASSUME SingleProcess, StoreInv, NEW i \in Instances, inflight[i] = Idle,
           NEW gone \in SUBSET records, records' = records \ gone, orphans' = Strand(records \ gone),
           UNCHANGED <<policy, id_counter, inflight, derived, backup>>
    PROVE  StoreInv'
<1>1. Idle.step \notin Attending \cup {"certify"} BY DEF Idle, Attending
<1>2. \A j \in Instances : inflight'[j] = Idle BY DEF SingleProcess
<1>3. IdsInv' BY <1>1, <1>2 DEF StoreInv, IdsInv, Attending
<1>4. CopiesInv' BY DEF CopiesInv, Strand
<1>5. ErasedRowsGone' BY <1>1, <1>2 DEF ErasedRowsGone, Attending
<1> QED BY <1>3, <1>4, <1>5 DEF StoreInv

\* A derivative store copies a row that is there.
LEMMA DeriveStore ==
    ASSUME StoreInv, NEW r \in records, derived' = derived \cup {CopyOf(r)},
           orphans' = orphans \ {CopyOf(r)},
           UNCHANGED <<policy, id_counter, inflight, records, backup>>
    PROVE  StoreInv'
<1>1. IdsInv' BY DEF StoreInv, IdsInv
<1>2. CopiesInv' BY DEF StoreInv, CopiesInv, CopiesOf
<1>3. ErasedRowsGone' BY DEF StoreInv, ErasedRowsGone, TermHits, ErasureTokens
<1> QED BY <1>1, <1>2, <1>3 DEF StoreInv

\* Every step keeps ids, copies and erased rows in order.
LEMMA StoreStep ==
    ASSUME SingleProcess, TypeOK, StoreInv, [Next]_vars
    PROVE  StoreInv'
<1> USE DEF volatile, durable, ghosts
<1>1. CASE \E i \in Instances : ProcessNext(i)
    <2> SUFFICES ASSUME NEW i \in Instances, ProcessNext(i) PROVE StoreInv' BY <1>1
    <2>a. inflight \in [Instances -> InFlight \cup {Idle}] BY DEF TypeOK, OperationTypes
    <2>b. Idle.step \notin Attending \cup {"certify"} BY DEF Idle, Attending
    <2>c. {i} = Instances BY DEF SingleProcess
    <2>1. ASSUME NEW t \in Tenants, NEW c \in Contents, NEW consent \in BOOLEAN,
                 Remember(i, t, c, consent)
          PROVE  StoreInv'
        BY <2>1, RememberStore
    <2>2. ASSUME NEW r \in records, NEW override \in BOOLEAN, ReleaseDelete(i, r, override)
          PROVE  StoreInv'
        <3> DEFINE gone == {r}
                   op == [step |-> "write_back", rev |-> NoRevocation, targets |-> {r}]
        <3>1. /\ op.targets = gone /\ op.step = "write_back" /\ op.step \in Attending
              /\ gone \in SUBSET records /\ \E s \in records : gone = {s}
            BY DEF Attending
        <3>2. /\ records' = records \ gone /\ inflight' = [inflight EXCEPT ![i] = op]
              /\ UNCHANGED <<policy, id_counter, derived, orphans, backup>>
              /\ inflight[i] = Idle
            BY <2>2 DEF ReleaseDelete, Free
        <3> HIDE DEF op, gone
        <3> QED BY <2>b, <3>1, <3>2, DeleteStore
    <2>3. CASE ReleaseWriteBack(i) BY <2>3, WriteBackStore
    <2>4. ASSUME NEW rev, Execute(i, rev), inflight[i] = Idle,
                 UNCHANGED <<policy, id_counter, records, derived, backup, orphans>>
          PROVE  StoreInv'
        <3>1. \A j \in Instances :
                 inflight'[j] = inflight[j] \/ inflight'[j].step \in {"delete", "log_restrict"}
            BY <2>4, <2>a DEF Execute, ExecuteForget, ExecuteRestrict, ExecuteRevokeConsent
        <3>2. \A j \in Instances : inflight[j] = Idle BY <2>4 DEF SingleProcess
        <3> QED BY <2>4, <2>b, <3>1, <3>2, StoreQuiet DEF Attending
    <2>5. ASSUME NEW rev \in Revocation, NEW q \in Requesters, NEW risky \in BOOLEAN,
                 Revoke(i, rev, q, risky)
          PROVE  StoreInv'
        BY <2>4, <2>5 DEF Revoke, Free
    <2>6. ASSUME NEW n \in 1..MaxHolds, ApproveRevocation(i, n) PROVE StoreInv'
        BY <2>4, <2>6 DEF ApproveRevocation, Free
    <2>7. CASE ForgetDelete(i)
        <3> DEFINE gone == Matching(i, inflight[i].rev)
                   op == [inflight[i] EXCEPT !.step = "purge", !.targets = gone]
        <3>1. inflight[i] \in InFlight /\ inflight[i].step = "delete"
            BY <2>7, <2>a DEF ForgetDelete, Idle
        <3>2. op.targets = gone /\ op.step = "purge" /\ op.rev = inflight[i].rev
            BY <3>1 DEF InFlight
        <3>3. /\ records' = records \ gone /\ inflight' = [inflight EXCEPT ![i] = op]
              /\ UNCHANGED <<policy, id_counter, derived, orphans, backup>>
            BY <2>7 DEF ForgetDelete
        <3>4. gone = Matching(i, op.rev) /\ gone \in SUBSET records BY <3>2 DEF Matching
        <3> HIDE DEF op, gone
        <3> QED BY <3>1, <3>2, <3>3, <3>4, DeleteStore DEF Attending
    <2>8. CASE ForgetPurge(i) BY <2>8, PurgeStore DEF ForgetPurge
    <2>9. CASE CleanupPurge(i) BY <2>9, PurgeStore DEF CleanupPurge
    <2>10. CASE PurgeRaises(i) BY <2>10, PurgeStore DEF PurgeRaises
    <2>11. CASE ForgetCertify(i) \/ RestrictLog(i)
        <3>1. \A j \in Instances : inflight'[j] = Idle /\ inflight[j].step \notin Attending
            BY <2>11, <2>a DEF ForgetCertify, RestrictLog, SingleProcess, Attending
        <3> QED BY <2>11, <2>b, <3>1, StoreQuiet DEF ForgetCertify, RestrictLog
    <2>12. ASSUME NEW expired \in SUBSET records, CleanupDelete(i, expired) PROVE StoreInv'
        <3> DEFINE op == [step |-> "purge_expired", rev |-> NoRevocation, targets |-> expired]
        <3>1. op.targets = expired /\ op.step = "purge_expired" OBVIOUS
        <3>2. /\ records' = records \ expired /\ inflight' = [inflight EXCEPT ![i] = op]
              /\ UNCHANGED <<policy, id_counter, derived, orphans, backup>>
              /\ inflight[i] = Idle
            BY <2>12 DEF CleanupDelete, Free
        <3> HIDE DEF op
        <3> QED BY <2>b, <3>1, <3>2, DeleteStore DEF Attending
    <2>13. ASSUME NEW ts \in SUBSET Tenants, Reconcile(i, ts) PROVE StoreInv'
        <3> DEFINE gone == {r \in records : r.tenant \in ts /\ ErasedContent(i, r.tenant, r.content)}
        <3>1. gone \in SUBSET records OBVIOUS
        <3>2. /\ records' = records \ gone /\ orphans' = Strand(records \ gone) /\ inflight[i] = Idle
              /\ UNCHANGED <<policy, id_counter, inflight, derived, backup>>
            BY <2>13 DEF Reconcile, Free
        <3> HIDE DEF gone
        <3> QED BY <3>1, <3>2, ReconcileStore
    <2>14. ASSUME NEW p \in Policies, SetPolicy(i, p) PROVE StoreInv'
        <3>1. \A j \in Instances : inflight'[j] = Idle BY <2>14 DEF SetPolicy, Free, SingleProcess
        <3> QED BY <2>14, <2>b, <3>1, StoreQuiet DEF SetPolicy, Attending
    <2>15. ASSUME NEW r \in records, Derive(i, r) PROVE StoreInv'
        BY <2>15, DeriveStore DEF Derive
    <2>16. CASE Crash(i)
        <3> DEFINE rows == IF DurableStore THEN records ELSE {}
                   log == IF AuditFile THEN trail ELSE {}
        <3>1. Restarted(Instances, rows, table, log) /\ backup' \subseteq backup
            BY <2>16, <2>c DEF Crash
        <3>2. \A r, s \in rows : r.id = s.id => r = s BY DEF StoreInv, IdsInv
        <3> HIDE DEF rows, log
        <3> QED BY <3>1, <3>2, RestartStore
    <2>17. CASE \/ \E rev \in Revocation, q \in Requesters, risky \in BOOLEAN, n \in 1..MaxHolds :
                      HoldRevocation(i, rev, q, risky, n)
                \/ \E n \in 1..MaxHolds : RejectRevocation(i, n)
                \/ \E n \in 1..MaxViews : ViewExpires(i, n)
                \/ \E n \in 1..MaxViews, t \in Tenants : IssueView(i, t, n)
        BY <2>17, StoreQuiet DEF HoldRevocation, RejectRevocation, ViewExpires, IssueView
    <2> QED
        BY <2>1, <2>2, <2>3, <2>5, <2>6, <2>7, <2>8, <2>9, <2>10, <2>11, <2>12, <2>13,
           <2>14, <2>15, <2>16, <2>17 DEF ProcessNext
<1>2. CASE TakeBackup
    <2>1. \A b \in backup' : b.rows = records BY <1>2 DEF TakeBackup
    <2> QED BY <1>2, <2>1, StoreQuiet DEF TakeBackup
<1>3. CASE RestoreBackup
    <2>1. PICK b \in backup : Restarted(Instances, b.rows, b.tab, trail)
        BY <1>3 DEF RestoreBackup
    <2> DEFINE rows == b.rows
               tab == b.tab
    <2>2. Restarted(Instances, rows, tab, trail) BY <2>1
    <2>3. \A r, s \in rows : r.id = s.id => r = s BY DEF StoreInv, IdsInv
    <2>4. backup' \subseteq backup BY <1>3 DEF RestoreBackup
    <2> HIDE DEF rows, tab
    <2> QED BY <2>2, <2>3, <2>4, RestartStore
<1>4. CASE LoseAuditFile
    <2>1. Restarted(Instances, records, table, {}) /\ backup' \subseteq backup
        BY <1>4 DEF LoseAuditFile
    <2>2. \A r, s \in records : r.id = s.id => r = s BY DEF StoreInv, IdsInv
    <2> QED BY <2>1, <2>2, RestartStore
<1>5. CASE UNCHANGED vars
    <2>1. UNCHANGED <<policy, id_counter, records, derived, orphans, backup, inflight>>
        BY <1>5 DEF vars
    <2> QED BY <2>1, StoreQuiet
<1> QED BY <1>1, <1>2, <1>3, <1>4, <1>5, NextSplits

LEMMA StoreInit == Init => StoreInv
BY DEF Init, StoreInv, IdsInv, CopiesInv, ErasedRowsGone, Idle

\* reliability.py, _execute_forget: for one process, whatever was written, released,
\* derived or interrupted before, a certificate is written over a store without a
\* matching row, and the only matching copies are those a failure had stranded.
THEOREM CertificatesAreComplete == SingleProcess => (Spec => []CertificateIsComplete)
<1> SUFFICES ASSUME SingleProcess PROVE Spec => []CertificateIsComplete OBVIOUS
<1>1. TypeOK /\ StoreInv /\ [Next]_vars => StoreInv' BY StoreStep
<1>2. StoreInv => CertificateIsComplete
    <2> SUFFICES ASSUME StoreInv, NEW i \in Instances, inflight[i].step = "certify",
                        NEW d \in CopiesOf(records) \cup (derived \ orphans)
                 PROVE  ~ (d.tenant = inflight[i].rev.tenant /\ TermHits(i, inflight[i].rev.term, d.content))
        BY DEF CertificateIsComplete
    <2>1. d \in CopiesOf(records)
        BY DEF StoreInv, CopiesInv, SingleProcess
    <2>2. PICK r \in records : d = CopyOf(r) BY <2>1 DEF CopiesOf
    <2>3. d.tenant = r.tenant /\ d.content = r.content BY <2>2 DEF CopyOf
    <2> QED BY <2>3 DEF StoreInv, ErasedRowsGone
<1> QED BY <1>1, <1>2, StoreInit, TypeCorrect, PTL DEF Spec

-----------------------------------------------------------------------------
(* No row vanishes. *)

\* One step's share of RowsLeaveByRightOnly.
RowsLeaveByRight ==
    \A r \in records :
        \/ CopyOf(r) \in CopiesOf(records')
        \/ \E i \in Instances : r \in inflight'[i].targets
        \/ \E i \in Instances : ErasedContent(i, r.tenant, r.content)
        \/ fault' # fault \/ ~DurableStore

\* A row that is still there, or whose deletion is the business of an operation.
LEMMA RowsKept ==
    ASSUME \/ records \subseteq records'
           \/ \E i \in Instances, gone \in SUBSET records :
                 records' = records \ gone /\ gone \subseteq inflight'[i].targets
    PROVE  RowsLeaveByRight
BY DEF RowsLeaveByRight, CopiesOf

ReleasesPutBack ==
    \A i \in Instances : ReleaseEnds(i) => RowsAreBack(i) \/ Crash(i) \/ fault' # fault

\* A release is under way until its row is written back, or its process crashes.
LEMMA ReleaseIsEnded ==
    ASSUME SingleProcess, TypeOK, StoreInv, NEW i \in Instances, ProcessNext(i), ReleaseEnds(i)
    PROVE  RowsAreBack(i) \/ Crash(i)
<1>1. ~ Free(i) /\ inflight[i].step = "write_back" BY DEF ReleaseEnds, Free, Idle
<1>2. ReleaseWriteBack(i) \/ Crash(i)
    <2>1. ~ \E t \in Tenants, c \in Contents, consent \in BOOLEAN : Remember(i, t, c, consent)
        BY <1>1 DEF Remember
    <2>2. ~ \E r \in records, override \in BOOLEAN : ReleaseDelete(i, r, override)
        BY <1>1 DEF ReleaseDelete
    <2>3. /\ ~ \E rev \in Revocation, q \in Requesters, risky \in BOOLEAN : Revoke(i, rev, q, risky)
          /\ ~ \E rev \in Revocation, q \in Requesters, risky \in BOOLEAN, n \in 1..MaxHolds :
                   HoldRevocation(i, rev, q, risky, n)
        BY <1>1 DEF Revoke, HoldRevocation
    <2>4. /\ ~ \E n \in 1..MaxHolds : ApproveRevocation(i, n)
          /\ ~ \E n \in 1..MaxHolds : RejectRevocation(i, n)
        BY <1>1 DEF ApproveRevocation, RejectRevocation
    <2>5. ~ (ForgetDelete(i) \/ ForgetPurge(i) \/ ForgetCertify(i) \/ RestrictLog(i))
        BY <1>1 DEF ForgetDelete, ForgetPurge, ForgetCertify, RestrictLog
    <2>6. /\ ~ \E expired \in SUBSET records : CleanupDelete(i, expired)
          /\ ~ CleanupPurge(i) /\ ~ PurgeRaises(i)
          /\ ~ \E ts \in SUBSET Tenants : Reconcile(i, ts)
        BY <1>1 DEF CleanupDelete, CleanupPurge, PurgeRaises, Reconcile
    <2>7. /\ ~ \E p \in Policies : SetPolicy(i, p)
          /\ ~ \E n \in 1..MaxViews, t \in Tenants : IssueView(i, t, n)
          /\ ~ \E r \in records : Derive(i, r)
        BY <1>1 DEF SetPolicy, IssueView, Derive
    <2>8. ~ \E n \in 1..MaxViews : ViewExpires(i, n) BY DEF ViewExpires, ReleaseEnds
    <2> QED BY <2>1, <2>2, <2>3, <2>4, <2>5, <2>6, <2>7, <2>8 DEF ProcessNext
<1>3. ReleaseWriteBack(i) => RowsAreBack(i) BY WriteBackStore
<1> QED BY <1>2, <1>3

\* reliability.py, remember, release, cleanup and sqlite_backend.py, _max_counter: for
\* one process on its store no row is overwritten or lost with nobody accounting for it, and
\* what a release takes out it puts back unless the process dies in between.
THEOREM RowsAreAccountedFor == SingleProcess => (Spec => RowsLeaveByRightOnly)
<1> SUFFICES ASSUME SingleProcess PROVE Spec => RowsLeaveByRightOnly OBVIOUS
<1>1. TypeOK /\ StoreInv /\ [Next]_vars => StoreInv' BY StoreStep
<1>2. TypeOK /\ StoreInv /\ [Next]_vars => [RowsLeaveByRight]_vars
    <2> SUFFICES ASSUME TypeOK, StoreInv, Next PROVE RowsLeaveByRight OBVIOUS
    <2> USE DEF volatile, durable, ghosts
    <2>a. inflight \in [Instances -> InFlight \cup {Idle}] BY DEF TypeOK, OperationTypes
    <2>1. CASE \E i \in Instances : ProcessNext(i)
        <3> SUFFICES ASSUME NEW i \in Instances, ProcessNext(i) PROVE RowsLeaveByRight BY <2>1
        <3>0. records' = records => RowsLeaveByRight BY RowsKept
        <3>1. ASSUME NEW t \in Tenants, NEW c \in Contents, NEW consent \in BOOLEAN,
                     Remember(i, t, c, consent)
              PROVE  RowsLeaveByRight
            BY <3>1, RememberStore, RowsKept
        <3>2. ASSUME NEW r \in records, NEW override \in BOOLEAN, ReleaseDelete(i, r, override)
              PROVE  RowsLeaveByRight
            <4>1. records' = records \ {r} /\ inflight'[i].targets = {r}
                BY <2>a, <3>2 DEF ReleaseDelete
            <4> QED BY <4>1, RowsKept
        <3>3. CASE ReleaseWriteBack(i) BY <3>3, WriteBackStore, RowsKept
        <3>4. CASE ForgetDelete(i)
            <4> DEFINE gone == Matching(i, inflight[i].rev)
                       op == [inflight[i] EXCEPT !.step = "purge", !.targets = gone]
            <4>1. inflight[i] \in InFlight BY <2>a, <3>4 DEF ForgetDelete, Idle
            <4>2. op.targets = gone BY <4>1 DEF InFlight
            <4>3. records' = records \ gone /\ inflight' = [inflight EXCEPT ![i] = op]
                BY <3>4 DEF ForgetDelete
            <4>4. gone \in SUBSET records BY DEF Matching
            <4> HIDE DEF op, gone
            <4>5. inflight'[i] = op BY <2>a, <4>3
            <4> QED BY <4>2, <4>3, <4>4, <4>5, RowsKept
        <3>5. ASSUME NEW expired \in SUBSET records, CleanupDelete(i, expired)
              PROVE  RowsLeaveByRight
            <4>1. records' = records \ expired /\ inflight'[i].targets = expired
                BY <2>a, <3>5 DEF CleanupDelete
            <4> QED BY <4>1, RowsKept
        <3>6. ASSUME NEW ts \in SUBSET Tenants, Reconcile(i, ts) PROVE RowsLeaveByRight
            BY <3>6 DEF Reconcile, RowsLeaveByRight, CopiesOf
        <3>7. CASE Crash(i)
            <4>1. records' = IF DurableStore THEN records ELSE {} BY <3>7 DEF Crash, Restarted
            <4> QED BY <4>1 DEF RowsLeaveByRight, CopiesOf
        <3>8. CASE \/ \E rev \in Revocation, q \in Requesters, risky \in BOOLEAN :
                         Revoke(i, rev, q, risky)
                   \/ \E rev \in Revocation, q \in Requesters, risky \in BOOLEAN, n \in 1..MaxHolds :
                         HoldRevocation(i, rev, q, risky, n)
                   \/ \E n \in 1..MaxHolds : ApproveRevocation(i, n)
                   \/ \E n \in 1..MaxHolds : RejectRevocation(i, n)
            BY <3>0, <3>8 DEF Revoke, HoldRevocation, ApproveRevocation, RejectRevocation
        <3>9. CASE ForgetPurge(i) \/ ForgetCertify(i) \/ RestrictLog(i) \/ CleanupPurge(i) \/ PurgeRaises(i)
            BY <3>0, <3>9 DEF ForgetPurge, ForgetCertify, RestrictLog, CleanupPurge, PurgeRaises
        <3>10. CASE \/ \E p \in Policies : SetPolicy(i, p)
                    \/ \E n \in 1..MaxViews : ViewExpires(i, n)
                    \/ \E n \in 1..MaxViews, t \in Tenants : IssueView(i, t, n)
                    \/ \E r \in records : Derive(i, r)
            BY <3>0, <3>10 DEF SetPolicy, ViewExpires, IssueView, Derive
        <3> QED
            BY <3>1, <3>2, <3>3, <3>4, <3>5, <3>6, <3>7, <3>8, <3>9, <3>10 DEF ProcessNext
    <2>2. CASE TakeBackup BY <2>2, RowsKept DEF TakeBackup
    <2>3. CASE RestoreBackup BY <2>3 DEF RestoreBackup, RowsLeaveByRight
    <2>4. CASE LoseAuditFile BY <2>4 DEF LoseAuditFile, RowsLeaveByRight
    <2> QED BY <2>1, <2>2, <2>3, <2>4, NextSplits
<1>3. TypeOK /\ StoreInv /\ [Next]_vars => [ReleasesPutBack]_vars
    <2> SUFFICES ASSUME TypeOK, StoreInv, Next, NEW i \in Instances, ReleaseEnds(i)
                 PROVE  RowsAreBack(i) \/ Crash(i) \/ fault' # fault
        BY DEF ReleasesPutBack
    <2> USE DEF volatile, durable, ghosts
    <2>1. CASE ProcessNext(i) BY <2>1, ReleaseIsEnded
    <2>2. ASSUME NEW j \in Instances, ProcessNext(j) PROVE j = i BY DEF SingleProcess
    <2>3. CASE TakeBackup BY <2>3 DEF TakeBackup, ReleaseEnds
    <2>4. CASE RestoreBackup BY <2>4 DEF RestoreBackup
    <2>5. CASE LoseAuditFile BY <2>5 DEF LoseAuditFile
    <2> QED BY <2>1, <2>2, <2>3, <2>4, <2>5, NextSplits
<1>4. [RowsLeaveByRight]_vars /\ [ReleasesPutBack]_vars <=>
          [/\ \A r \in records :
                 \/ CopyOf(r) \in CopiesOf(records')
                 \/ \E i \in Instances : r \in inflight'[i].targets
                 \/ \E i \in Instances : ErasedContent(i, r.tenant, r.content)
                 \/ fault' # fault \/ ~DurableStore
           /\ \A i \in Instances :
                 ReleaseEnds(i) => RowsAreBack(i) \/ Crash(i) \/ fault' # fault]_vars
    BY DEF RowsLeaveByRight, ReleasesPutBack
<1> QED BY <1>1, <1>2, <1>3, <1>4, StoreInit, TypeCorrect, PTL DEF Spec, RowsLeaveByRightOnly
=============================================================================
