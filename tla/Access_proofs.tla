---------------------------- MODULE Access_proofs ----------------------------
(***************************************************************************)
(* Proofs about Access, for any number of accounts, employees and invites. *)
(***************************************************************************)
EXTENDS Access, TLAPS

(* Every variable keeps its type.                                          *)
THEOREM TypeCorrect == Spec => []TypeOK
<1> USE NoTgAssumption DEF NoTgAssumption
<1>0. MaxCodes \in Nat /\ 0 \in 0..MaxCodes
  BY MaxCodesAssumption DEF MaxCodesAssumption
<1>1. Init => TypeOK
  <2> SUFFICES ASSUME Init PROVE TypeOK
    OBVIOUS
  <2> USE DEF Init, Roles, Dialogs
  <2>1. /\ role \in [Tg -> Roles \cup {"absent"}]
        /\ franchisee \in [Tg -> {"none", "open", "blocked"}]
        /\ previous \in [Tg -> Roles \cup {"absent", "unset"}]
        /\ fsm \in [Tg -> Dialogs]
        /\ invite \in [Invites -> {"unissued", "active", "lapsed", "used"}]
    OBVIOUS
  <2>2. /\ linked \in [Employees -> Tg \cup {NoTg}]
        /\ codes \in [Employees -> 0..MaxCodes]
        /\ target \in [Tg -> Tg \cup {NoTg}]
    BY <1>0
  <2>3. /\ active \in SUBSET Tg /\ configured \in BOOLEAN
        /\ session \in SUBSET Tg /\ admitted \in SUBSET Tg /\ rooted \in SUBSET Tg
    OBVIOUS
  <2>. QED
    BY <2>1, <2>2, <2>3 DEF TypeOK
<1>2. ASSUME TypeOK, [Next]_vars
      PROVE  TypeOK'
  <2> USE DEF TypeOK, Roles, Dialogs, db, memory, history, Dialog, Admit, Grant, RolledBack
  <2>1. ASSUME NEW t \in Tg, AdminCommand(t) PROVE TypeOK'
    BY <1>2, <2>1 DEF AdminCommand
  <2>2. ASSUME NEW t \in Tg, InitialPassword(t) PROVE TypeOK'
    BY <1>2, <2>2 DEF InitialPassword, RegisterInitialAdmin
  <2>3. ASSUME NEW t \in Tg, Password(t) PROVE TypeOK'
    BY <1>2, <2>3 DEF Password
  <2>4. ASSUME NEW t \in Tg, SetupCallback(t) \/ SetupYclients(t) \/ LeaveDialog(t) \/ Start(t)
        PROVE TypeOK'
    BY <1>2, <2>4 DEF SetupCallback, SetupYclients, LeaveDialog, Start
  <2>5. ASSUME NEW t \in Tg, ResetConfirm(t) PROVE TypeOK'
    <3>1. CASE ResetToRegistration
      <4>1. /\ role' \in [Tg -> Roles \cup {"absent"}]
            /\ active' \in SUBSET Tg
            /\ franchisee' \in [Tg -> {"none", "open", "blocked"}]
        BY <3>1 DEF ResetToRegistration
      <4>2. /\ linked' \in [Employees -> Tg \cup {NoTg}]
            /\ codes' \in [Employees -> 0..MaxCodes]
            /\ configured' \in BOOLEAN
        BY <1>0, <3>1 DEF ResetToRegistration
      <4>. QED
        BY <1>2, <2>5, <3>1, <4>1, <4>2 DEF ResetConfirm, ResetToRegistration
    <3>2. CASE RolledBack
      BY <1>2, <2>5, <3>2 DEF ResetConfirm
    <3>. QED
      BY <2>5, <3>1, <3>2 DEF ResetConfirm
  <2>6. ASSUME NEW t \in Tg, DeveloperStart(t) PROVE TypeOK'
    BY <1>2, <2>6 DEF DeveloperStart, DeveloperPreviousRole
  <2>7. ASSUME NEW t \in Tg, DevExitCommand(t) \/ LogoutButton(t) PROVE TypeOK'
    <3>1. RestoredRole(t) \in Roles
      BY DEF RestoredRole
    <3>. QED
      BY <1>2, <2>7, <3>1 DEF DevExitCommand, LogoutButton, DeveloperLogout
  <2>8. ASSUME NEW t \in Tg, NEW e \in Employees,
               IssueCode(t, e) \/ BindEmployee(t, e) \/ DisconnectEmployee(t, e)
        PROVE TypeOK'
    BY <1>0, <1>2, <2>8 DEF IssueCode, BindEmployee, DisconnectEmployee, Unlink
  <2>9. ASSUME NEW t \in Tg, NEW i \in Invites, IssueInvite(t, i) \/ AcceptInvite(t, i)
        PROVE TypeOK'
    BY <1>2, <2>9 DEF IssueInvite, AcceptInvite, BindFranchisee
  <2>10. ASSUME NEW t \in Tg, NEW f \in Tg, NEW b \in BOOLEAN,
                DeleteFranchisee(t, f) \/ SetBlocked(t, f, b)
         PROVE TypeOK'
    BY <1>2, <2>10 DEF DeleteFranchisee, SetBlocked
  <2>11. ASSUME NEW t \in Tg, NEW f \in Tg \cup {NoTg}, Impersonate(t, f) PROVE TypeOK'
    BY <1>2, <2>11 DEF Impersonate
  <2>12. ASSUME NEW e \in Employees, Unlink(e) \/ CodeExpires(e) PROVE TypeOK'
    BY <1>0, <1>2, <2>12 DEF Unlink, CodeExpires
  <2>13. ASSUME NEW i \in Invites, InviteExpires(i) PROVE TypeOK'
    BY <1>2, <2>13 DEF InviteExpires
  <2>14. CASE Restart
    BY <1>2, <2>14 DEF Restart
  <2>15. CASE UNCHANGED vars
    BY <1>2, <2>15 DEF vars
  <2>. QED
    BY <1>2, <2>1, <2>2, <2>3, <2>4, <2>5, <2>6, <2>7, <2>8, <2>9, <2>10,
       <2>11, <2>12, <2>13, <2>14, <2>15 DEF Next
<1>. QED
  BY <1>1, <1>2, PTL DEF Spec

-----------------------------------------------------------------------------
(* Whose rights an update is handled with is an account.                   *)
LEMMA EffectiveIsAccount ==
  ASSUME TypeOK, NEW t \in Tg
  PROVE  Effective(t) \in Tg
BY DEF Effective, TypeOK

(* A manager is admitted: his own row says so, or his session does.        *)
LEMMA AdmittedInvGives ==
  ASSUME TypeOK, AdmittedInv
  PROVE  OnlyAdmitted
<1> SUFFICES ASSUME NEW t \in Tg, IsManager(t) PROVE t \in admitted
  BY DEF OnlyAdmitted
<1>1. CASE t \in session /\ target[t] # NoTg
  BY <1>1 DEF AdmittedInv
<1>2. CASE ~(t \in session /\ target[t] # NoTg)
  <2>1. Effective(t) = t
    BY <1>2 DEF Effective
  <2>. QED
    BY <2>1 DEF IsManager, ManagerRow, AdminRow, AdmittedInv, Managers
<1>. QED
  BY <1>1, <1>2

(* Every step keeps AdmittedInv.  A role is written by five handlers: the  *)
(* first three admit the account, the employee's is no manager's, and what *)
(* the developer mode gives back was set aside from an admitted account.   *)
LEMMA AdmittedInductive ==
  ASSUME TypeOK, AdmittedInv, [Next]_vars
  PROVE  AdmittedInv'
<1> USE DEF TypeOK, Managers, db, memory, history, Dialog, Admit, Grant, RolledBack
<1>1. ASSUME NEW t \in Tg,
             AdminCommand(t) \/ SetupCallback(t) \/ SetupYclients(t) \/ LeaveDialog(t) \/ Start(t)
      PROVE  AdmittedInv'
  BY <1>1 DEF AdmittedInv, AdminCommand, SetupCallback, SetupYclients, LeaveDialog, Start
<1>2. ASSUME NEW t \in Tg, InitialPassword(t) \/ Password(t) PROVE AdmittedInv'
  BY <1>2 DEF AdmittedInv, InitialPassword, RegisterInitialAdmin, Password
<1>3. ASSUME NEW t \in Tg, ResetConfirm(t) PROVE AdmittedInv'
  <2>1. \A u \in Tg : role'[u] \in {"absent", role[u]}
    BY <1>3 DEF ResetConfirm, ResetToRegistration
  <2>2. UNCHANGED <<session, previous, admitted>>
    BY <1>3 DEF ResetConfirm
  <2>. QED
    BY <2>1, <2>2 DEF AdmittedInv
<1>4. ASSUME NEW t \in Tg, DeveloperStart(t) PROVE AdmittedInv'
  <2>1. admitted' = admitted \cup {t} /\ session' = session \cup {t}
    BY <1>4 DEF DeveloperStart
  <2>2. \A u \in Tg \ {t} : role'[u] = role[u] /\ previous'[u] = previous[u]
    BY <1>4 DEF DeveloperStart
  <2>. QED
    BY <2>1, <2>2 DEF AdmittedInv
<1>5. ASSUME NEW t \in Tg, DevExitCommand(t) \/ LogoutButton(t) PROVE AdmittedInv'
  <2>1. admitted' = admitted /\ session' \subseteq session
    BY <1>5 DEF DevExitCommand, LogoutButton, DeveloperLogout
  <2>2. \A u \in Tg \ {t} : role'[u] = role[u] /\ previous'[u] = previous[u]
    BY <1>5 DEF DevExitCommand, LogoutButton, DeveloperLogout
  <2>3. previous'[t] = "unset"
    BY <1>5 DEF DevExitCommand, LogoutButton, DeveloperLogout
  <2>4. role'[t] \in {role[t], RestoredRole(t)}
    BY <1>5 DEF DevExitCommand, LogoutButton, DeveloperLogout
  <2>5. RestoredRole(t) \in {"employee", previous[t]}
    BY DEF RestoredRole
  <2>. QED
    BY <2>1, <2>2, <2>3, <2>4, <2>5 DEF AdmittedInv
<1>6. ASSUME NEW t \in Tg, NEW e \in Employees,
             IssueCode(t, e) \/ BindEmployee(t, e) \/ DisconnectEmployee(t, e)
      PROVE  AdmittedInv'
  BY <1>6 DEF AdmittedInv, IssueCode, BindEmployee, DisconnectEmployee, Unlink
<1>7. ASSUME NEW t \in Tg, NEW i \in Invites, IssueInvite(t, i) \/ AcceptInvite(t, i)
      PROVE  AdmittedInv'
  BY <1>7 DEF AdmittedInv, IssueInvite, AcceptInvite, BindFranchisee
<1>8. ASSUME NEW t \in Tg, NEW f \in Tg, NEW b \in BOOLEAN,
             DeleteFranchisee(t, f) \/ SetBlocked(t, f, b)
      PROVE  AdmittedInv'
  BY <1>8 DEF AdmittedInv, DeleteFranchisee, SetBlocked
<1>9. ASSUME NEW t \in Tg, NEW f \in Tg \cup {NoTg}, Impersonate(t, f) PROVE AdmittedInv'
  BY <1>9 DEF AdmittedInv, Impersonate
<1>10. ASSUME NEW e \in Employees, Unlink(e) \/ CodeExpires(e) PROVE AdmittedInv'
  BY <1>10 DEF AdmittedInv, Unlink, CodeExpires
<1>11. ASSUME NEW i \in Invites, InviteExpires(i) PROVE AdmittedInv'
  BY <1>11 DEF AdmittedInv, InviteExpires
<1>12. CASE Restart
  BY <1>12 DEF AdmittedInv, Restart
<1>13. CASE UNCHANGED vars
  BY <1>13 DEF AdmittedInv, vars
<1>. QED
  BY <1>1, <1>2, <1>3, <1>4, <1>5, <1>6, <1>7, <1>8, <1>9, <1>10, <1>11, <1>12, <1>13
     DEF Next

LEMMA AdmittedAlways == Spec => []AdmittedInv
<1>1. Init => AdmittedInv
  BY DEF Init, AdmittedInv, Managers
<1>2. TypeOK /\ AdmittedInv /\ [Next]_vars => AdmittedInv'
  BY AdmittedInductive
<1>. QED
  BY <1>1, <1>2, TypeCorrect, PTL DEF Spec

(* Nobody acts as a manager who was never admitted, whatever fails and     *)
(* however often the process restarts.                                     *)
THEOREM OnlyAdmittedAlways == Spec => []OnlyAdmitted
<1>1. TypeOK /\ AdmittedInv => OnlyAdmitted
  BY AdmittedInvGives
<1>. QED
  BY <1>1, TypeCorrect, AdmittedAlways, PTL

-----------------------------------------------------------------------------
(* No step leaves a franchisee profile or an employee link without the     *)
(* row of its account: rows are only removed by the reset, all together.   *)
LEMMA RowsInductive ==
  ASSUME TypeOK, RowsBelongToUsers, [Next]_vars
  PROVE  RowsBelongToUsers'
<1> USE DEF TypeOK, Roles, db, memory, history, Dialog, Admit, Grant, RolledBack
<1> USE NoTgAssumption DEF NoTgAssumption
<1>1. ASSUME NEW t \in Tg,
             AdminCommand(t) \/ SetupCallback(t) \/ SetupYclients(t) \/ LeaveDialog(t) \/ Start(t)
      PROVE  RowsBelongToUsers'
  BY <1>1 DEF RowsBelongToUsers, AdminCommand, SetupCallback, SetupYclients, LeaveDialog, Start
<1>2. ASSUME NEW t \in Tg, InitialPassword(t) \/ Password(t) PROVE RowsBelongToUsers'
  BY <1>2 DEF RowsBelongToUsers, InitialPassword, RegisterInitialAdmin, Password
<1>3. ASSUME NEW t \in Tg, ResetConfirm(t) PROVE RowsBelongToUsers'
  <2>1. CASE ResetToRegistration
    <3>1. active' = {} /\ (\A u \in Tg : franchisee'[u] = "none")
      BY <2>1 DEF ResetToRegistration
    <3>2. \A e \in Employees : linked'[e] = NoTg
      BY <2>1 DEF ResetToRegistration
    <3>. QED
      BY <3>1, <3>2 DEF RowsBelongToUsers
  <2>2. CASE RolledBack
    BY <1>3, <2>2 DEF RowsBelongToUsers
  <2>. QED
    BY <1>3, <2>1, <2>2 DEF ResetConfirm
<1>4. ASSUME NEW t \in Tg, DeveloperStart(t) PROVE RowsBelongToUsers'
  BY <1>4 DEF RowsBelongToUsers, DeveloperStart
<1>5. ASSUME NEW t \in Tg, DevExitCommand(t) \/ LogoutButton(t) PROVE RowsBelongToUsers'
  <2>1. RestoredRole(t) # "absent"
    BY DEF RestoredRole
  <2>2. UNCHANGED <<franchisee, linked>>
    BY <1>5 DEF DevExitCommand, LogoutButton, DeveloperLogout
  <2>3. \/ role[t] # "absent" /\ role' = [role EXCEPT ![t] = RestoredRole(t)] /\ active' = active \cup {t}
        \/ UNCHANGED <<role, active>>
    BY <1>5 DEF DevExitCommand, LogoutButton, DeveloperLogout
  <2>. QED
    BY <2>1, <2>2, <2>3 DEF RowsBelongToUsers
<1>6. ASSUME NEW t \in Tg, NEW e \in Employees,
             IssueCode(t, e) \/ BindEmployee(t, e) \/ DisconnectEmployee(t, e)
      PROVE  RowsBelongToUsers'
  BY <1>6 DEF RowsBelongToUsers, IssueCode, BindEmployee, DisconnectEmployee, Unlink
<1>7. ASSUME NEW t \in Tg, NEW i \in Invites, IssueInvite(t, i) \/ AcceptInvite(t, i)
      PROVE  RowsBelongToUsers'
  BY <1>7 DEF RowsBelongToUsers, IssueInvite, AcceptInvite, BindFranchisee
<1>8. ASSUME NEW t \in Tg, NEW f \in Tg, NEW b \in BOOLEAN,
             DeleteFranchisee(t, f) \/ SetBlocked(t, f, b)
      PROVE  RowsBelongToUsers'
  BY <1>8 DEF RowsBelongToUsers, DeleteFranchisee, SetBlocked
<1>9. ASSUME NEW t \in Tg, NEW f \in Tg \cup {NoTg}, Impersonate(t, f) PROVE RowsBelongToUsers'
  BY <1>9 DEF RowsBelongToUsers, Impersonate
<1>10. ASSUME NEW e \in Employees, Unlink(e) \/ CodeExpires(e) PROVE RowsBelongToUsers'
  BY <1>10 DEF RowsBelongToUsers, Unlink, CodeExpires
<1>11. ASSUME NEW i \in Invites, InviteExpires(i) PROVE RowsBelongToUsers'
  BY <1>11 DEF RowsBelongToUsers, InviteExpires
<1>12. CASE Restart
  BY <1>12 DEF RowsBelongToUsers, Restart
<1>13. CASE UNCHANGED vars
  BY <1>13 DEF RowsBelongToUsers, vars
<1>. QED
  BY <1>1, <1>2, <1>3, <1>4, <1>5, <1>6, <1>7, <1>8, <1>9, <1>10, <1>11, <1>12, <1>13
     DEF Next

(* Every franchisee profile and every link belongs to an account with a    *)
(* row, for ever.                                                          *)
THEOREM RowsBelongToUsersAlways == Spec => []RowsBelongToUsers
<1>1. Init => RowsBelongToUsers
  BY DEF Init, RowsBelongToUsers
<1>2. TypeOK /\ RowsBelongToUsers /\ [Next]_vars => RowsBelongToUsers'
  BY RowsInductive
<1>. QED
  BY <1>1, <1>2, TypeCorrect, PTL DEF Spec

-----------------------------------------------------------------------------
(* Only the admitted, and the first to register when the commit failed,    *)
(* are ever asked for the company's YCLIENTS credentials.                  *)
THEOREM SetupByAdmittedAlways == Spec => []SetupByAdmitted
<1>1. Init => SetupByAdmitted
  BY DEF Init, SetupByAdmitted
<1>2. ASSUME TypeOK, AdmittedInv, SetupByAdmitted, [Next]_vars
      PROVE  SetupByAdmitted'
  <2> USE DEF TypeOK, db, memory, history, Dialog, Admit, RolledBack
  <2>1. OnlyAdmitted
    BY <1>2, AdmittedInvGives
  <2>2. ASSUME NEW t \in Tg, AdminCommand(t) \/ SetupCallback(t) PROVE SetupByAdmitted'
    <3>1. fsm'[t] = "setup" => IsManager(t)
      BY <1>2, <2>2 DEF AdminCommand, SetupCallback, IsAdmin, IsManager, ManagerRow
    <3>2. UNCHANGED <<admitted, rooted>> /\ \A u \in Tg \ {t} : fsm'[u] = fsm[u]
      BY <1>2, <2>2 DEF AdminCommand, SetupCallback
    <3>. QED
      BY <1>2, <2>1, <3>1, <3>2 DEF SetupByAdmitted, OnlyAdmitted
  <2>3. ASSUME NEW t \in Tg, InitialPassword(t) PROVE SetupByAdmitted'
    BY <1>2, <2>3 DEF SetupByAdmitted, InitialPassword, RegisterInitialAdmin
  <2>4. ASSUME NEW t \in Tg,
               Password(t) \/ SetupYclients(t) \/ LeaveDialog(t) \/ Start(t) \/ ResetConfirm(t)
        PROVE  SetupByAdmitted'
    BY <1>2, <2>4 DEF SetupByAdmitted, Password, SetupYclients, LeaveDialog, Start, ResetConfirm
  <2>5. ASSUME NEW t \in Tg, DeveloperStart(t) \/ DevExitCommand(t) \/ LogoutButton(t)
        PROVE  SetupByAdmitted'
    BY <1>2, <2>5 DEF SetupByAdmitted, DeveloperStart, DevExitCommand, LogoutButton, DeveloperLogout
  <2>6. ASSUME NEW t \in Tg, NEW e \in Employees,
               IssueCode(t, e) \/ BindEmployee(t, e) \/ DisconnectEmployee(t, e)
        PROVE  SetupByAdmitted'
    BY <1>2, <2>6 DEF SetupByAdmitted, IssueCode, BindEmployee, DisconnectEmployee, Unlink
  <2>7. ASSUME NEW t \in Tg, NEW i \in Invites, IssueInvite(t, i) \/ AcceptInvite(t, i)
        PROVE  SetupByAdmitted'
    BY <1>2, <2>7 DEF SetupByAdmitted, IssueInvite, AcceptInvite, BindFranchisee
  <2>8. ASSUME NEW t \in Tg, NEW f \in Tg, NEW b \in BOOLEAN,
               DeleteFranchisee(t, f) \/ SetBlocked(t, f, b)
        PROVE  SetupByAdmitted'
    BY <1>2, <2>8 DEF SetupByAdmitted, DeleteFranchisee, SetBlocked
  <2>9. ASSUME NEW t \in Tg, NEW f \in Tg \cup {NoTg}, Impersonate(t, f) PROVE SetupByAdmitted'
    BY <1>2, <2>9 DEF SetupByAdmitted, Impersonate
  <2>10. ASSUME NEW e \in Employees, Unlink(e) \/ CodeExpires(e) PROVE SetupByAdmitted'
    BY <1>2, <2>10 DEF SetupByAdmitted, Unlink, CodeExpires
  <2>11. ASSUME NEW i \in Invites, InviteExpires(i) PROVE SetupByAdmitted'
    BY <1>2, <2>11 DEF SetupByAdmitted, InviteExpires
  <2>12. CASE Restart
    BY <1>2, <2>12 DEF SetupByAdmitted, Restart
  <2>13. CASE UNCHANGED vars
    BY <1>2, <2>13 DEF SetupByAdmitted, vars
  <2>. QED
    BY <1>2, <2>2, <2>3, <2>4, <2>5, <2>6, <2>7, <2>8, <2>9, <2>10, <2>11, <2>12, <2>13
       DEF Next
<1>. QED
  BY <1>1, <1>2, TypeCorrect, AdmittedAlways, PTL DEF Spec

-----------------------------------------------------------------------------
(* Every step keeps DeveloperInv: entering sets aside the role once,       *)
(* leaving gives it back and forgets it; where a fault prevents that, the  *)
(* account is among the rooted from then on.                               *)
LEMMA DeveloperInductive ==
  ASSUME TypeOK, DeveloperInv, [Next]_vars
  PROVE  DeveloperInv'
<1> USE DEF TypeOK, Roles, db, memory, history, Dialog, Admit, Grant, RolledBack, AdminRow, TemporaryDeveloper
<1>1. ASSUME NEW t \in Tg,
             AdminCommand(t) \/ SetupCallback(t) \/ SetupYclients(t) \/ LeaveDialog(t) \/ Start(t)
      PROVE  DeveloperInv'
  BY <1>1 DEF DeveloperInv, AdminCommand, SetupCallback, SetupYclients, LeaveDialog, Start
<1>2. ASSUME NEW t \in Tg, InitialPassword(t) \/ Password(t) PROVE DeveloperInv'
  <2>1. \/ role' = [role EXCEPT ![t] = "admin"] /\ active' = active \cup {t} /\ rooted' = rooted \cup {t}
        \/ UNCHANGED <<role, active>> /\ rooted \subseteq rooted'
    BY <1>2 DEF InitialPassword, RegisterInitialAdmin, Password
  <2>2. UNCHANGED memory
    BY <1>2 DEF InitialPassword, Password
  <2>. QED
    BY <2>1, <2>2 DEF DeveloperInv
<1>3. ASSUME NEW t \in Tg, ResetConfirm(t) PROVE DeveloperInv'
  BY <1>3 DEF DeveloperInv, ResetConfirm, ResetToRegistration
<1>4. ASSUME NEW t \in Tg, DeveloperStart(t) PROVE DeveloperInv'
  <2>1. /\ \/ role' = [role EXCEPT ![t] = "admin"] /\ active' = active \cup {t}
           \/ UNCHANGED <<role, active>>
        /\ rooted' = rooted
        /\ session' = session \cup {t}
    BY <1>4 DEF DeveloperStart
  <2>2. \A u \in Tg \ {t} : previous'[u] = previous[u]
    BY <1>4 DEF DeveloperStart
  <2>3. previous'[t] = IF previous[t] = "unset" THEN DeveloperPreviousRole(t) ELSE previous[t]
    BY <1>4 DEF DeveloperStart
  <2>4. previous'[t] # "unset"
    BY <2>3 DEF DeveloperPreviousRole
  <2>5. previous'[t] = "admin" => t \in rooted
    BY <2>3 DEF DeveloperPreviousRole, DeveloperInv
  <2>. QED
    BY <2>1, <2>2, <2>4, <2>5 DEF DeveloperInv
<1>5. ASSUME NEW t \in Tg, DevExitCommand(t) \/ LogoutButton(t) PROVE DeveloperInv'
  <2>1. session' = session \ {t} /\ previous' = [previous EXCEPT ![t] = "unset"] /\ rooted \subseteq rooted'
    BY <1>5 DEF DevExitCommand, LogoutButton, DeveloperLogout
  <2>2. \/ role' = [role EXCEPT ![t] = RestoredRole(t)] /\ active' = active \cup {t}
        \/ role[t] = "absent" /\ UNCHANGED <<role, active>>
        \/ UNCHANGED <<role, active>> /\ rooted' = rooted \cup (session \cap {t})
    BY <1>5 DEF DevExitCommand, LogoutButton, DeveloperLogout
  <2>3. RestoredRole(t) \in {"employee", previous[t]}
    BY DEF RestoredRole
  <2>4. AdminRow(t)' => t \in rooted'
    BY <2>1, <2>2, <2>3 DEF DeveloperInv
  <2>5. \A u \in Tg \ {t} : /\ AdminRow(u)' <=> AdminRow(u)
                            /\ u \in session' <=> u \in session
                            /\ previous'[u] = previous[u]
    BY <2>1, <2>2
  <2>. QED
    BY <2>1, <2>4, <2>5 DEF DeveloperInv
<1>6. ASSUME NEW t \in Tg, NEW e \in Employees,
             IssueCode(t, e) \/ BindEmployee(t, e) \/ DisconnectEmployee(t, e)
      PROVE  DeveloperInv'
  BY <1>6 DEF DeveloperInv, IssueCode, BindEmployee, DisconnectEmployee, Unlink
<1>7. ASSUME NEW t \in Tg, NEW i \in Invites, IssueInvite(t, i) \/ AcceptInvite(t, i)
      PROVE  DeveloperInv'
  BY <1>7 DEF DeveloperInv, IssueInvite, AcceptInvite, BindFranchisee
<1>8. ASSUME NEW t \in Tg, NEW f \in Tg, NEW b \in BOOLEAN,
             DeleteFranchisee(t, f) \/ SetBlocked(t, f, b)
      PROVE  DeveloperInv'
  BY <1>8 DEF DeveloperInv, DeleteFranchisee, SetBlocked
<1>9. ASSUME NEW t \in Tg, NEW f \in Tg \cup {NoTg}, Impersonate(t, f) PROVE DeveloperInv'
  BY <1>9 DEF DeveloperInv, Impersonate
<1>10. ASSUME NEW e \in Employees, Unlink(e) \/ CodeExpires(e) PROVE DeveloperInv'
  BY <1>10 DEF DeveloperInv, Unlink, CodeExpires
<1>11. ASSUME NEW i \in Invites, InviteExpires(i) PROVE DeveloperInv'
  BY <1>11 DEF DeveloperInv, InviteExpires
<1>12. CASE Restart
  <2>1. session' = {} /\ rooted' = rooted \cup session /\ UNCHANGED <<role, active>>
    BY <1>12 DEF Restart
  <2>2. \A u \in Tg : previous'[u] = "unset"
    BY <1>12 DEF Restart
  <2>. QED
    BY <2>1, <2>2 DEF DeveloperInv
<1>13. CASE UNCHANGED vars
  BY <1>13 DEF DeveloperInv, vars
<1>. QED
  BY <1>1, <1>2, <1>3, <1>4, <1>5, <1>6, <1>7, <1>8, <1>9, <1>10, <1>11, <1>12, <1>13
     DEF Next

(* Leaving the developer mode takes away what it gave, unless the process  *)
(* restarted in between or the exit was not committed.                     *)
THEOREM TemporaryDeveloperAlways == Spec => []TemporaryDeveloper
<1>1. Init => DeveloperInv
  BY DEF Init, DeveloperInv, TemporaryDeveloper, AdminRow
<1>2. TypeOK /\ DeveloperInv /\ [Next]_vars => DeveloperInv'
  BY DeveloperInductive
<1>3. DeveloperInv => TemporaryDeveloper
  BY DEF DeveloperInv
<1>. QED
  BY <1>1, <1>2, <1>3, TypeCorrect, PTL DEF Spec

-----------------------------------------------------------------------------
(* A franchisee's access opens at the price of one active invite, or when  *)
(* an admin unblocks it; no other handler opens it.                        *)
THEOREM InvitePaysAlways == Spec => InvitePays
<1>1. ASSUME TypeOK, Next, NEW f \in Tg, franchisee[f] # "open", franchisee'[f] = "open"
      PROVE  \/ franchisee[f] = "blocked" /\ HasActiveAdmins /\ UNCHANGED <<role, invite>>
             \/ \E i \in Invites : invite[i] = "active" /\ Used' = Used \cup {i} /\ i \notin Used
  <2> USE DEF db, memory, history, RolledBack
  <2>1. CASE \E t \in Tg, i \in Invites : AcceptInvite(t, i)
    <3>1. PICK t \in Tg, i \in Invites : AcceptInvite(t, i)
      BY <2>1
    <3>2. invite[i] = "active" /\ invite' = [invite EXCEPT ![i] = "used"]
      BY <1>1, <3>1 DEF AcceptInvite, BindFranchisee, TypeOK
    <3>3. Used' = Used \cup {i} /\ i \notin Used
      BY <1>1, <3>2 DEF Used, TypeOK
    <3>. QED
      BY <3>2, <3>3
  <2>2. CASE \E t \in Tg, g \in Tg, b \in BOOLEAN : SetBlocked(t, g, b)
    <3>1. PICK t \in Tg, g \in Tg, b \in BOOLEAN : SetBlocked(t, g, b)
      BY <2>2
    <3>2. f = g /\ franchisee[f] = "blocked"
      BY <1>1, <3>1 DEF SetBlocked, TypeOK
    <3>3. HasActiveAdmins
      BY <1>1, <3>1, EffectiveIsAccount DEF SetBlocked, IsAdmin, HasActiveAdmins
    <3>. QED
      BY <3>1, <3>2, <3>3 DEF SetBlocked
  <2>3. ASSUME NEW t \in Tg, NEW g \in Tg, DeleteFranchisee(t, g) PROVE FALSE
    BY <1>1, <2>3 DEF DeleteFranchisee, TypeOK
  <2>4. ASSUME NEW t \in Tg, ResetConfirm(t) PROVE FALSE
    BY <1>1, <2>4 DEF ResetConfirm, ResetToRegistration
  <2>5. ASSUME NEW t \in Tg,
               \/ AdminCommand(t) \/ InitialPassword(t) \/ Password(t)
               \/ SetupCallback(t) \/ SetupYclients(t) \/ LeaveDialog(t) \/ Start(t)
               \/ DeveloperStart(t) \/ DevExitCommand(t) \/ LogoutButton(t)
        PROVE  franchisee' = franchisee
    BY <2>5 DEF AdminCommand, InitialPassword, RegisterInitialAdmin, Password, SetupCallback,
       SetupYclients, LeaveDialog, Start, DeveloperStart, DevExitCommand, LogoutButton, DeveloperLogout
  <2>6. ASSUME NEW t \in Tg, NEW e \in Employees,
               \/ IssueCode(t, e) \/ BindEmployee(t, e) \/ DisconnectEmployee(t, e)
               \/ Unlink(e) \/ CodeExpires(e)
        PROVE  franchisee' = franchisee
    BY <2>6 DEF IssueCode, BindEmployee, DisconnectEmployee, Unlink, CodeExpires
  <2>7. ASSUME NEW t \in Tg, NEW i \in Invites, IssueInvite(t, i) \/ InviteExpires(i)
        PROVE  franchisee' = franchisee
    BY <2>7 DEF IssueInvite, InviteExpires
  <2>8. ASSUME NEW t \in Tg, NEW g \in Tg \cup {NoTg}, Impersonate(t, g)
        PROVE  franchisee' = franchisee
    BY <2>8 DEF Impersonate
  <2>9. CASE Restart
    BY <1>1, <2>9 DEF Restart
  <2>. QED
    BY <1>1, <2>1, <2>2, <2>3, <2>4, <2>5, <2>6, <2>7, <2>8, <2>9 DEF Next
<1>2. TypeOK /\ [Next]_vars
        => [\A f \in Tg :
              franchisee[f] # "open" /\ franchisee'[f] = "open"
                => \/ franchisee[f] = "blocked" /\ HasActiveAdmins /\ UNCHANGED <<role, invite>>
                   \/ \E i \in Invites : invite[i] = "active" /\ Used' = Used \cup {i} /\ i \notin Used]_vars
  BY <1>1
<1>. QED
  BY <1>2, TypeCorrect, PTL DEF Spec, InvitePays
=============================================================================
