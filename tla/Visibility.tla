----------------------------- MODULE Visibility -----------------------------
(***************************************************************************)
(* Which branches a manager sees: the branches he added himself, those of  *)
(* the main office if the admin lets him, and those the admin opened to    *)
(* him one by one.  The admin sees them all.                               *)
(*                                                                         *)
(* Branches are numbered in the order of their names, which is the order   *)
(* of list_branches.  One action is one Telegram update of the admin or of *)
(* a franchisee.  Blocking and deleting franchisees is in Access.          *)
(***************************************************************************)
EXTENDS Naturals, FiniteSets

CONSTANTS
  Managers,   \* franchisees
  NBranches,  \* number of YCLIENTS branches that can be added
  Office      \* the main office: the owner of what the admin added

ASSUME OfficeAssumption == Office \notin Managers
ASSUME NBranchesAssumption == NBranches \in Nat

Branches == 1..NBranches
Rights == {"view", "message", "manage"}

VARIABLES
  present,    \* the branches that have a row
  owner,      \* branches.owner_telegram_user_id, Office for NULL
  viewOwner,  \* franchisees with can_view_owner_branches
  messageOwner, \* franchisees with can_message_owner_employees
  access,     \* the rights in franchise_branch_accesses; no row is no right
  card        \* the branches on the franchisee's card in the admin's chat

vars == <<present, owner, viewOwner, messageOwner, access, card>>

TypeOK ==
  /\ present \in SUBSET Branches
  /\ owner \in [Branches -> Managers \cup {Office}]
  /\ viewOwner \in SUBSET Managers
  /\ messageOwner \in SUBSET Managers
  /\ access \in [Managers -> [Branches -> SUBSET Rights]]
  /\ card \in [Managers -> SUBSET Branches]

Init ==
  /\ present = {}
  /\ owner = [b \in Branches |-> Office]
  /\ viewOwner = {}
  /\ messageOwner = {}
  /\ access = [m \in Managers |-> [b \in Branches |-> {}]]
  /\ card = [m \in Managers |-> {}]

-----------------------------------------------------------------------------
(* Mutant: the main office's list has everybody's branches.                *)
ListVisibleAll(u) ==
  LET owned    == {b \in present : owner[b] = u}
      accessed == {b \in present : access[u][b] # {}}
  IN IF u = Office \/ u \in viewOwner THEN present ELSE owned \cup accessed

(* list_visible_branches: three lists, merged by id.                       *)
ListVisible(u) ==
  LET owned        == {b \in present : owner[b] = u}
      ownerBranches == IF u \in viewOwner THEN {b \in present : owner[b] = Office} ELSE {}
      accessed     == {b \in present : access[u][b] # {}}
  IN IF u = Office THEN present ELSE owned \cup ownerBranches \cup accessed

(* get_visible_branch: the checks made when one branch is opened.          *)
CanOpen(u, b) ==
  /\ b \in present
  /\ u # Office => \/ owner[b] = u
                   \/ u \in viewOwner /\ owner[b] = Office
                   \/ access[u][b] \cap {"view", "message", "manage"} # {}

CanDelete(u, b) == CanOpen(u, b) /\ (u = Office \/ owner[b] = u)

(* Mutant: any right on a branch lets write to its staff.                  *)
MessageableAnyRight(u, asked) ==
  IF u = Office THEN asked
  ELSE {b \in asked : \/ owner[b] = u
                      \/ u \in messageOwner /\ owner[b] = Office
                      \/ access[u][b] # {}}

(* The branches whose staff a broadcast of u reaches, of those asked for.  *)
Messageable(u, asked) ==
  IF u = Office THEN asked
  ELSE {b \in asked : \/ owner[b] = u
                      \/ u \in messageOwner /\ owner[b] = Office
                      \/ "message" \in access[u][b]}

-----------------------------------------------------------------------------
(* Mutant: the upsert overwrites the owner.                                *)
AddBranchSeizes(u, b) ==
  /\ present' = present \cup {b}
  /\ owner' = IF u \in Managers THEN [owner EXCEPT ![b] = u] ELSE owner
  /\ UNCHANGED <<viewOwner, messageOwner, access, card>>

(* The upsert keeps the owner a row has and fills in one it lacks.         *)
AddBranch(u, b) ==
  /\ present' = present \cup {b}
  /\ owner' = IF u \in Managers /\ (b \notin present \/ owner[b] = Office)
              THEN [owner EXCEPT ![b] = u] ELSE owner
  /\ UNCHANGED <<viewOwner, messageOwner, access, card>>

(* Mutant: the access rows stay.                                           *)
DeleteBranchOnly(u, b) ==
  /\ CanDelete(u, b)
  /\ present' = present \ {b}
  /\ owner' = [owner EXCEPT ![b] = Office]
  /\ UNCHANGED <<viewOwner, messageOwner, access, card>>

(* The row goes with everything that refers to it.                         *)
DeleteBranch(u, b) ==
  /\ CanDelete(u, b)
  /\ present' = present \ {b}
  /\ owner' = [owner EXCEPT ![b] = Office]
  /\ access' = [m \in Managers |-> [access[m] EXCEPT ![b] = {}]]
  /\ UNCHANGED <<viewOwner, messageOwner, card>>

Flip(S, x) == IF x \in S THEN S \ {x} ELSE S \cup {x}

OpenCard(m) ==
  /\ card' = [card EXCEPT ![m] = present]
  /\ UNCHANGED <<present, owner, viewOwner, messageOwner, access>>

ToggleView(m) ==
  /\ viewOwner' = Flip(viewOwner, m)
  /\ card' = [card EXCEPT ![m] = present]
  /\ UNCHANGED <<present, owner, messageOwner, access>>

ToggleMessage(m) ==
  /\ messageOwner' = Flip(messageOwner, m)
  /\ card' = [card EXCEPT ![m] = present]
  /\ UNCHANGED <<present, owner, viewOwner, access>>

Before(S, b) == Cardinality({c \in S : c < b})

(* The button carries the branch's place in the list it was drawn from;    *)
(* the handler looks that place up in the list of now.                     *)
AtPlaceOf(b, m) == {c \in present : Before(present, c) = Before(card[m], b)}

ToggleAccess(m, b, r) ==
  /\ b \in card[m]
  /\ \E c \in AtPlaceOf(b, m) :
       access' = [access EXCEPT ![m][c] = Flip(@, r)]
  /\ card' = [card EXCEPT ![m] = present]
  /\ UNCHANGED <<present, owner, viewOwner, messageOwner>>

Next ==
  \/ \E u \in Managers \cup {Office}, b \in Branches : AddBranch(u, b) \/ DeleteBranch(u, b)
  \/ \E m \in Managers :
       \/ OpenCard(m) \/ ToggleView(m) \/ ToggleMessage(m)
       \/ \E b \in Branches, r \in Rights : ToggleAccess(m, b, r)

Spec == Init /\ [][Next]_vars

-----------------------------------------------------------------------------
(* The list of branches and the check that opens one agree for every       *)
(* manager: no button of the list is refused, nothing unlisted opens.      *)
ListedIffOpens ==
  \A u \in Managers \cup {Office} : ListVisible(u) = {b \in Branches : CanOpen(u, b)}

(* A franchisee's branch does not pass to anybody else while it exists,    *)
(* whoever adds it again.                                                  *)
NoSeizure ==
  [][\A b \in present : owner[b] # Office /\ owner'[b] # owner[b] => b \notin present']_vars

(* Rights given on a branch do not outlive it: added again, it is open     *)
(* only to its owner and to those who see the main office.                 *)
RightsDieWithBranch ==
  \A b \in Branches \ present : owner[b] = Office /\ \A m \in Managers : access[m][b] = {}
=============================================================================
