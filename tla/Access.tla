------------------------------- MODULE Access -------------------------------
(***************************************************************************)
(* Who may do what: the roles kept in telegram_users and franchisees, the  *)
(* ways to obtain and to lose them (first registration, the password,      *)
(* franchise invites, employee codes, blocking, deletion, the reset), the  *)
(* developer mode, which lives in process memory, and the dialogue state   *)
(* of each chat.                                                           *)
(*                                                                         *)
(* One action is one Telegram update: DatabaseSessionMiddleware commits    *)
(* the handler's writes together at its end, or rolls them all back.  What *)
(* a handler writes outside the database (the dialogue state, the          *)
(* developer mode) is not rolled back.  The races between two handlers in  *)
(* flight are in Connection.                                               *)
(***************************************************************************)
EXTENDS Integers, FiniteSets

CONSTANTS
  Tg,         \* Telegram accounts
  Employees,  \* staff of the company's branches
  Invites,    \* franchise invite links that can ever be issued
  NoTg,       \* "no Telegram account"
  MaxCodes    \* bound: unused connection codes of one employee

ASSUME NoTgAssumption == NoTg \notin Tg
ASSUME MaxCodesAssumption == MaxCodes \in Nat

VARIABLES
  role,        \* telegram_users.role, "absent" when there is no row
  active,      \* the accounts whose row has is_active
  franchisee,  \* franchisees row of an account: "none", "open" or "blocked"
  linked,      \* employees.telegram_user_id
  codes,       \* number of redeemable connection codes of an employee
  invite,      \* franchise_invites.status; "lapsed" is active past expires_at
  configured,  \* is_yclients_configured
  session,     \* _DEVELOPER_SESSION_IDS
  previous,    \* _DEVELOPER_PREVIOUS_ROLES, "unset" when there is no key
  target,      \* _DEVELOPER_IMPERSONATION_TARGETS
  fsm,         \* dialogue state of the private chat
  admitted,    \* history: accounts ever registered first, let in by password,
               \*          invited, or in developer mode
  rooted       \* history: accounts ever registered first (their commit may have
               \*          failed) or let in by password, and those whose
               \*          developer mode was cut short by a fault

db      == <<role, active, franchisee, linked, codes, invite, configured>>
memory  == <<session, previous, target>>
history == <<admitted, rooted>>
vars    == <<db, memory, fsm, history>>

Roles   == {"admin", "franchisee", "employee"}
Managers == {"admin", "franchisee"}

(* "setup" stands for waiting_api_key and waiting_partner_id.  The dialogues *)
(* that change nothing kept here (the YCLIENTS login, broadcasts, editors) *)
(* are "none".                                                             *)
Dialogs == {"none", "waiting_code", "initial_password", "password", "setup"}
Texts   == {"start", "admin", "cancel", "devstart", "devexit",
            "invite", "code", "button", "plain"}

TypeOK ==
  /\ role \in [Tg -> Roles \cup {"absent"}]
  /\ active \in SUBSET Tg
  /\ franchisee \in [Tg -> {"none", "open", "blocked"}]
  /\ linked \in [Employees -> Tg \cup {NoTg}]
  /\ codes \in [Employees -> 0..MaxCodes]
  /\ invite \in [Invites -> {"unissued", "active", "lapsed", "used"}]
  /\ configured \in BOOLEAN
  /\ session \in SUBSET Tg
  /\ previous \in [Tg -> Roles \cup {"absent", "unset"}]
  /\ target \in [Tg -> Tg \cup {NoTg}]
  /\ fsm \in [Tg -> Dialogs]
  /\ admitted \in SUBSET Tg
  /\ rooted \in SUBSET Tg

Init ==
  /\ role = [t \in Tg |-> "absent"]
  /\ active = {}
  /\ franchisee = [t \in Tg |-> "none"]
  /\ linked = [e \in Employees |-> NoTg]
  /\ codes = [e \in Employees |-> 0]
  /\ invite = [i \in Invites |-> "unissued"]
  /\ configured = FALSE
  /\ session = {}
  /\ previous = [t \in Tg |-> "unset"]
  /\ target = [t \in Tg |-> NoTg]
  /\ fsm = [t \in Tg |-> "none"]
  /\ admitted = {}
  /\ rooted = {}

-----------------------------------------------------------------------------
(* What the services ask about an account.                                 *)

Effective(t) == IF t \in session /\ target[t] # NoTg THEN target[t] ELSE t

AdminRow(t)   == role[t] = "admin" /\ t \in active
ManagerRow(t) == \/ AdminRow(t)
                 \/ role[t] = "franchisee" /\ t \in active /\ franchisee[t] = "open"

IsAdmin(t)   == AdminRow(Effective(t))
IsManager(t) == ManagerRow(Effective(t))
HasActiveAdmins == \E t \in Tg : AdminRow(t)
LinksOf(t)   == {e \in Employees : linked[e] = t}

(* The handler a text reaches: the developer, common, employee and admin   *)
(* routers are asked in this order and the first filter that matches wins. *)
Route(state, text) ==
  CASE text \in {"start", "admin", "cancel", "devstart", "devexit"} -> text
    [] text = "invite" -> "bind_franchisee_code"
    [] text = "code" -> "bind_employee_code_message"
    [] text = "plain" /\ state = "waiting_code" -> "bind_employee"
    [] text = "button" /\ state = "waiting_code" -> "bind_employee"
    [] text = "button" /\ state # "waiting_code" -> "employee_menu"
    [] text = "plain" /\ state \notin {"none", "waiting_code"} -> state
    [] OTHER -> "unhandled"

(* TelegramUserRepository.upsert and update_role: the row exists, is       *)
(* active and has the role.                                                *)
Grant(t, r) ==
  /\ role' = [role EXCEPT ![t] = r]
  /\ active' = active \cup {t}

Admit(t) == admitted' = admitted \cup {t}

Dialog(t, state) == fsm' = [fsm EXCEPT ![t] = state]

(* The handler raised after its last write outside the database.           *)
RolledBack == UNCHANGED db

-----------------------------------------------------------------------------
(* Registration and the password.                                          *)

AdminCommand(t) ==
  /\ Dialog(t, IF IsManager(t)
               THEN IF configured THEN "none" ELSE "setup"
               ELSE IF HasActiveAdmins THEN "password" ELSE "initial_password")
  /\ UNCHANGED <<db, memory, history>>

RegisterInitialAdmin(t) ==
  /\ ~HasActiveAdmins
  /\ Grant(t, "admin")
  /\ Admit(t)
  /\ UNCHANGED <<franchisee, linked, codes, invite, configured>>

InitialPassword(t) ==
  /\ Route(fsm[t], "plain") = "initial_password"
  /\ ~HasActiveAdmins
  /\ Dialog(t, "setup")
  /\ RegisterInitialAdmin(t) \/ (RolledBack /\ UNCHANGED admitted)
  /\ rooted' = rooted \cup {t}
  /\ UNCHANGED memory

Password(t) ==
  /\ Route(fsm[t], "plain") = "password"
  /\ Dialog(t, "none")
  /\ \/ /\ Grant(t, "admin")
        /\ rooted' = rooted \cup {t}
        /\ Admit(t)
        /\ UNCHANGED <<franchisee, linked, codes, invite, configured>>
     \/ (RolledBack /\ UNCHANGED history)
  /\ UNCHANGED memory

-----------------------------------------------------------------------------
(* The YCLIENTS set-up dialogue.                                           *)

(* Mutant: anybody may start the set-up.                                   *)
SetupCallbackUnchecked(t) ==
  /\ Dialog(t, "setup")
  /\ UNCHANGED <<db, memory, history>>

SetupCallback(t) ==
  /\ IsAdmin(t)
  /\ Dialog(t, "setup")
  /\ UNCHANGED <<db, memory, history>>

(* The API key and then the Partner ID were sent: setup_yclients.          *)
SetupYclients(t) ==
  /\ Route(fsm[t], "plain") = "setup"
  /\ Dialog(t, "none")
  /\ \/ /\ configured' = TRUE
        /\ UNCHANGED <<role, active, franchisee, linked, codes, invite>>
     \/ RolledBack
  /\ UNCHANGED <<memory, history>>

LeaveDialog(t) ==
  /\ Dialog(t, "none")
  /\ UNCHANGED <<db, memory, history>>

-----------------------------------------------------------------------------
(* Employee codes.  Connection models their transactions.                  *)

IssueCode(t, e) ==
  /\ IsManager(t)
  /\ codes[e] < MaxCodes
  /\ codes' = [codes EXCEPT ![e] = @ + 1]
  /\ UNCHANGED <<role, active, franchisee, linked, invite, configured,
                 memory, fsm, history>>

(* Mutant: a code that is not there expires.                               *)
CodeExpiresUnchecked(e) ==
  /\ codes' = [codes EXCEPT ![e] = @ - 1]
  /\ UNCHANGED <<role, active, franchisee, linked, invite, configured,
                 memory, fsm, history>>

CodeExpires(e) ==
  /\ codes[e] > 0
  /\ codes' = [codes EXCEPT ![e] = @ - 1]
  /\ UNCHANGED <<role, active, franchisee, linked, invite, configured,
                 memory, fsm, history>>

(* The code is sent as a message or as the payload of /start: a manager is *)
(* turned away, anybody else becomes that employee.                        *)
BindEmployee(t, e) ==
  /\ ~IsManager(t)
  /\ codes[e] > 0
  /\ Dialog(t, "none")
  /\ \/ /\ Grant(t, "employee")
        /\ linked' = [linked EXCEPT ![e] = t]
        /\ codes' = [codes EXCEPT ![e] = @ - 1]
        /\ UNCHANGED <<franchisee, invite, configured>>
     \/ RolledBack
  /\ UNCHANGED <<memory, history>>

Start(t) ==
  /\ Dialog(t, IF ~IsManager(t) /\ LinksOf(t) = {} THEN "waiting_code" ELSE "none")
  /\ UNCHANGED <<db, memory, history>>

(* disconnect_employee, and the synchronisation that finds the staff gone. *)
Unlink(e) ==
  /\ linked[e] # NoTg
  /\ linked' = [linked EXCEPT ![e] = NoTg]
  /\ UNCHANGED <<role, active, franchisee, codes, invite, configured,
                 memory, fsm, history>>

DisconnectEmployee(t, e) == IsManager(t) /\ Unlink(e)

-----------------------------------------------------------------------------
(* Franchisees.                                                            *)

IssueInvite(t, i) ==
  /\ IsAdmin(t)
  /\ invite[i] = "unissued"
  /\ invite' = [invite EXCEPT ![i] = "active"]
  /\ UNCHANGED <<role, active, franchisee, linked, codes, configured,
                 memory, fsm, history>>

InviteExpires(i) ==
  /\ invite[i] = "active"
  /\ invite' = [invite EXCEPT ![i] = "lapsed"]
  /\ UNCHANGED <<role, active, franchisee, linked, codes, configured,
                 memory, fsm, history>>

(* Mutant: the invite stays active.                                        *)
BindFranchiseeReusable(t, i) ==
  /\ invite[i] = "active"
  /\ Grant(t, "franchisee")
  /\ franchisee' = [franchisee EXCEPT ![t] = "open"]
  /\ Admit(t)
  /\ UNCHANGED <<linked, codes, invite, configured>>

BindFranchisee(t, i) ==
  /\ invite[i] = "active"
  /\ Grant(t, "franchisee")
  /\ franchisee' = [franchisee EXCEPT ![t] = "open"]
  /\ invite' = [invite EXCEPT ![i] = "used"]
  /\ Admit(t)
  /\ UNCHANGED <<linked, codes, configured>>

AcceptInvite(t, i) ==
  /\ ~IsAdmin(t)
  /\ invite[i] = "active"
  /\ Dialog(t, "none")
  /\ BindFranchisee(t, i) \/ (RolledBack /\ UNCHANGED admitted)
  /\ UNCHANGED <<memory, rooted>>

SetBlocked(t, f, blocked) ==
  /\ IsAdmin(t)
  /\ franchisee[f] # "none"
  /\ franchisee' = [franchisee EXCEPT ![f] = IF blocked THEN "blocked" ELSE "open"]
  /\ UNCHANGED <<role, active, linked, codes, invite, configured,
                 memory, fsm, history>>

DeleteFranchisee(t, f) ==
  /\ IsAdmin(t)
  /\ franchisee[f] # "none"
  /\ franchisee' = [franchisee EXCEPT ![f] = "none"]
  /\ active' = active \ {f}
  /\ UNCHANGED <<role, linked, codes, invite, configured,
                 memory, fsm, history>>

-----------------------------------------------------------------------------
(* Reset to registration: every branch goes, and its employees and their   *)
(* codes with it; every telegram_users row goes, and the franchisees with  *)
(* them.  Invites stay.                                                    *)

(* Mutant: the branches and their employees stay.                          *)
ResetKeepsBranches ==
  /\ role' = [u \in Tg |-> "absent"]
  /\ active' = {}
  /\ franchisee' = [u \in Tg |-> "none"]
  /\ configured' = FALSE
  /\ UNCHANGED <<linked, codes, invite>>

ResetToRegistration ==
  /\ role' = [u \in Tg |-> "absent"]
  /\ active' = {}
  /\ franchisee' = [u \in Tg |-> "none"]
  /\ linked' = [e \in Employees |-> NoTg]
  /\ codes' = [e \in Employees |-> 0]
  /\ configured' = FALSE
  /\ UNCHANGED invite

ResetConfirm(t) ==
  /\ IsAdmin(t)
  /\ Dialog(t, "none")
  /\ ResetToRegistration \/ RolledBack
  /\ UNCHANGED <<memory, history>>

-----------------------------------------------------------------------------
(* Developer mode.                                                         *)

DeveloperPreviousRole(t) == IF t \in active THEN role[t] ELSE "absent"

(* Mutant: the role set aside is overwritten when the mode is entered      *)
(* again.                                                                  *)
DeveloperStartOverwrites(t) ==
  /\ previous' = [previous EXCEPT ![t] = DeveloperPreviousRole(t)]
  /\ session' = session \cup {t}
  /\ target' = [target EXCEPT ![t] = NoTg]
  /\ Dialog(t, "none")
  /\ Admit(t)
  /\ \/ /\ Grant(t, "admin")
        /\ UNCHANGED <<franchisee, linked, codes, invite, configured>>
     \/ RolledBack
  /\ UNCHANGED rooted

DeveloperStart(t) ==
  /\ previous' = [previous EXCEPT
                    ![t] = IF @ = "unset" THEN DeveloperPreviousRole(t) ELSE @]
  /\ session' = session \cup {t}
  /\ target' = [target EXCEPT ![t] = NoTg]
  /\ Dialog(t, "none")
  /\ Admit(t)
  /\ \/ /\ Grant(t, "admin")
        /\ UNCHANGED <<franchisee, linked, codes, invite, configured>>
     \/ RolledBack
  /\ UNCHANGED rooted

IsDeveloper(t) == t \in session \/ IsAdmin(t)

Impersonate(t, f) ==
  /\ IsDeveloper(t)
  /\ f \in {NoTg} \cup {g \in Tg : franchisee[g] # "none"}
  /\ target' = [target EXCEPT ![t] = f]
  /\ UNCHANGED <<db, session, previous, fsm, history>>

(* Mutant: without a role to restore the developer's stays.                *)
RestoredRoleKept(t) ==
  IF LinksOf(t) # {} /\ franchisee[t] = "none" THEN "employee"
  ELSE IF previous[t] \in Roles THEN previous[t] ELSE "admin"

RestoredRole(t) ==
  IF LinksOf(t) # {} /\ franchisee[t] = "none" THEN "employee"
  ELSE IF previous[t] \in Roles THEN previous[t] ELSE "employee"

DeveloperLogout(t) ==
  /\ session' = session \ {t}
  /\ target' = [target EXCEPT ![t] = NoTg]
  /\ previous' = [previous EXCEPT ![t] = "unset"]
  /\ \/ /\ role[t] # "absent"
        /\ Grant(t, RestoredRole(t))
        /\ UNCHANGED <<franchisee, linked, codes, invite, configured, rooted>>
     \/ role[t] = "absent" /\ UNCHANGED <<db, rooted>>
     \/ RolledBack /\ rooted' = rooted \cup (session \cap {t})
  /\ UNCHANGED admitted

DevExitCommand(t) == Dialog(t, "none") /\ DeveloperLogout(t)

LogoutButton(t) == IsDeveloper(t) /\ DeveloperLogout(t) /\ UNCHANGED fsm

(* The process restarts: what it kept in memory is gone, dialogues too     *)
(* when they are kept there.                                               *)
Restart ==
  /\ session' = {}
  /\ previous' = [t \in Tg |-> "unset"]
  /\ target' = [t \in Tg |-> NoTg]
  /\ fsm' \in {fsm, [t \in Tg |-> "none"]}
  /\ rooted' = rooted \cup session
  /\ UNCHANGED <<db, admitted>>

-----------------------------------------------------------------------------
Next ==
  \/ \E t \in Tg :
       \/ AdminCommand(t) \/ InitialPassword(t) \/ Password(t)
       \/ SetupCallback(t) \/ SetupYclients(t)
       \/ LeaveDialog(t) \/ Start(t) \/ ResetConfirm(t)
       \/ DeveloperStart(t) \/ DevExitCommand(t) \/ LogoutButton(t)
  \/ \E t \in Tg, e \in Employees :
       IssueCode(t, e) \/ BindEmployee(t, e) \/ DisconnectEmployee(t, e)
  \/ \E t \in Tg, i \in Invites : IssueInvite(t, i) \/ AcceptInvite(t, i)
  \/ \E t \in Tg, f \in Tg :
       DeleteFranchisee(t, f) \/ \E b \in BOOLEAN : SetBlocked(t, f, b)
  \/ \E t \in Tg, f \in Tg \cup {NoTg} : Impersonate(t, f)
  \/ \E e \in Employees : Unlink(e) \/ CodeExpires(e)
  \/ \E i \in Invites : InviteExpires(i)
  \/ Restart

Spec == Init /\ [][Next]_vars

-----------------------------------------------------------------------------
(* Properties.                                                             *)

(* Every account that can act as a manager was once admitted: it           *)
(* registered first, knew the password, used an invite or gave the         *)
(* developer command.  No sequence of binding, blocking, deletion, reset,  *)
(* impersonation and return from developer mode makes a manager of an      *)
(* account that is only an employee.                                       *)
OnlyAdmitted == \A t \in Tg : IsManager(t) => t \in admitted

(* What keeps OnlyAdmitted true step after step: a manager's role, in the  *)
(* row or set aside by the developer mode, and a developer session are     *)
(* only had by the admitted.                                               *)
AdmittedInv ==
  /\ \A t \in Tg : role[t] \in Managers => t \in admitted
  /\ \A t \in Tg : previous[t] \in Managers => t \in admitted
  /\ session \subseteq admitted

(* A franchisee profile and an employee link always belong to an account   *)
(* that has a row: the reset and the deletion leave nothing dangling.      *)
RowsBelongToUsers ==
  /\ \A t \in active : role[t] # "absent"
  /\ \A t \in Tg : franchisee[t] # "none" => role[t] # "absent"
  /\ \A e \in Employees : linked[e] # NoTg => role[linked[e]] # "absent"

(* Nobody is in the middle of entering the company's YCLIENTS credentials  *)
(* who was never admitted, although those handlers do not ask again.  The  *)
(* one exception: the first registration whose commit failed after the     *)
(* dialogue had moved on.                                                  *)
SetupByAdmitted ==
  \A t \in Tg : fsm[t] = "setup" => t \in admitted \cup rooted

(* An admin who is not in a developer session registered or knew the       *)
(* password: leaving developer mode gives back what was there before.      *)
(* Only a restart during the session, or an exit that fails to commit,     *)
(* leaves the role behind.                                                 *)
TemporaryDeveloper ==
  \A t \in Tg : AdminRow(t) /\ t \notin session => t \in rooted

(* What keeps TemporaryDeveloper true: a session and the role it set aside *)
(* come and go together, and only the rooted have "admin" set aside.       *)
DeveloperInv ==
  /\ TemporaryDeveloper
  /\ \A t \in Tg : t \in session <=> previous[t] # "unset"
  /\ \A t \in Tg : previous[t] = "admin" => t \in rooted

Used == {i \in Invites : invite[i] = "used"}

(* A franchisee's access opens, or reopens after blocking or deletion,     *)
(* only by an admin's unblocking or at the price of one active invite.     *)
InvitePays ==
  [][\A f \in Tg :
       franchisee[f] # "open" /\ franchisee'[f] = "open"
         => \/ franchisee[f] = "blocked" /\ HasActiveAdmins /\ UNCHANGED <<role, invite>>
            \/ \E i \in Invites : invite[i] = "active" /\ Used' = Used \cup {i} /\ i \notin Used]_vars

(* The registration handler gets the password the dialogue asked for,      *)
(* whatever its letters and length.                                        *)
PasswordReachesHandler ==
  \A t \in Tg : \A text \in {"plain", "code"} :
     fsm[t] = "initial_password" => Route(fsm[t], text) = "initial_password"

(* The reset leaves the manager who asked for it a manager.                *)
ResetKeepsManager ==
  [][\A t \in Tg : ResetToRegistration /\ AdminRow(t) => AdminRow(t)']_vars
=============================================================================
