------------------------------ MODULE Broadcast ------------------------------
(***************************************************************************)
(* Messages and statistics a manager sends to the staff of his branches.   *)
(*                                                                         *)
(* The chosen branch and the text are kept in the dialogue's data, under   *)
(* the chat; every screen with buttons stays in the chat and no button     *)
(* checks the dialogue's state.  Handlers run beside each other: the one   *)
(* that sends reads the text when it starts, the branch after the button's *)
(* message was redrawn, and clears the dialogue at its end.                *)
(*                                                                         *)
(* Rights and branches change meanwhile as in Visibility.                  *)
(***************************************************************************)
EXTENDS Visibility

CONSTANTS
  Actor,      \* the manager: the main office or a franchisee
  Staff,      \* employees with a connected, active Telegram account
  BranchOf,   \* the branch of each
  TextSet,    \* messages that can be typed
  NoText,     \* "no message"
  Presses,    \* handlers of a pressed "send" button that can be in flight
  MaxScreens, \* bound: screens drawn in the chat
  MaxChanges  \* bound: changes of rights and branches

All == 0      \* broadcast_branch_id missing: all branches

ASSUME ActorAssumption == Actor \in Managers \cup {Office}
ASSUME BranchOfAssumption == BranchOf \in [Staff -> Branches]
ASSUME TextAssumption == NoText \notin TextSet
ASSUME BoundsAssumption == MaxScreens \in Nat /\ MaxChanges \in Nat

VARIABLES
  branch,     \* data["broadcast_branch_id"]
  text,       \* data["message_text"]
  waiting,    \* the state is waiting_message_text
  screens,    \* screens that still have their buttons
  drawn,      \* number of screens drawn so far
  press,      \* what each pressed "send" button's handler is doing
  changes,    \* number of changes of rights and branches so far
  delivered,  \* history: <<screen, employee, text>> for each message sent
  prudent,    \* history: so far only the last answer's buttons were pressed,
              \* and nothing while a broadcast was being sent
  last,       \* history: the screen of the last answer, 0 if it has none
  granted     \* history: the branches whose staff the actor ever might message

rights == <<present, owner, viewOwner, messageOwner, access, card>>
data   == <<branch, text, waiting>>
chat   == <<screens, drawn>>
used   == <<prudent, last>>
bvars  == <<rights, data, chat, used, press, changes, delivered, granted>>

Kinds == {"branches", "actions", "prompt", "message", "stats"}

Screen == [id : 1..MaxScreens, kind : Kinds, scope : Branches \cup {All},
           text : TextSet \cup {NoText}, listed : SUBSET Branches]
NoScreen == [id |-> 0, kind |-> "branches", scope |-> All, text |-> NoText, listed |-> {}]
Free == [pc |-> "free", screen |-> NoScreen, text |-> NoText, targets |-> {}]

BTypeOK ==
  /\ TypeOK
  /\ branch \in Branches \cup {All}
  /\ text \in TextSet \cup {NoText}
  /\ waiting \in BOOLEAN
  /\ screens \in SUBSET Screen
  /\ drawn \in 0..MaxScreens
  /\ press \in [Presses -> [pc : {"free", "pressed", "sending"},
                            screen : Screen \cup {NoScreen},
                            text : TextSet \cup {NoText}, targets : SUBSET Staff]]
  /\ changes \in 0..MaxChanges
  /\ delivered \in SUBSET (Screen \X Staff \X (TextSet \cup {NoText}))
  /\ prudent \in BOOLEAN
  /\ last \in 0..MaxScreens
  /\ granted \in SUBSET Branches

(* The main office has added the staff's branches.                         *)
BInit ==
  /\ present = Branches
  /\ owner = [b \in Branches |-> Office]
  /\ viewOwner = {}
  /\ messageOwner = {}
  /\ access = [m \in Managers |-> [b \in Branches |-> {}]]
  /\ card = [m \in Managers |-> Branches]
  /\ branch = All /\ text = NoText /\ waiting = FALSE
  /\ screens = {} /\ drawn = 0
  /\ press = [p \in Presses |-> Free]
  /\ changes = 0
  /\ delivered = {}
  /\ prudent = TRUE /\ last = 0
  /\ granted = IF Actor = Office THEN Branches ELSE {}

-----------------------------------------------------------------------------
(* get_visible_broadcast_targets: a franchisee is refused a branch he does *)
(* not see; a branch that is gone has no staff, and its summary raises.    *)
Asked(b) == IF b = All THEN ListVisible(Actor) ELSE {b}
Refused(b) == b # All /\ ~CanOpen(Actor, b)

(* Mutant: the staff of every branch he sees.                              *)
TargetsOfAll(b) == {e \in Staff : BranchOf[e] \in Messageable(Actor, ListVisible(Actor))}

Targets(b) == {e \in Staff : BranchOf[e] \in Messageable(Actor, Asked(b) \cap present)}

Busy == \E p \in Presses : press[p].pc # "free"

(* The history of what the manager looked at.                              *)
Type     == prudent' = (prudent /\ ~Busy)
Press(s) == prudent' = (prudent /\ ~Busy /\ s.id = last)

(* A screen replaces those in old; it is not drawn when the summary raises *)
(* after the dialogue's data was written.                                  *)
Draw(old, kind, scope, txt) ==
  IF Refused(scope) /\ kind # "branches"
  THEN UNCHANGED <<chat, last>>
  ELSE /\ drawn < MaxScreens
       /\ drawn' = drawn + 1
       /\ last' = drawn + 1
       /\ screens' = (screens \ old) \cup
            {[id |-> drawn + 1, kind |-> kind, scope |-> scope, text |-> txt,
              listed |-> IF kind = "branches" THEN ListVisible(Actor) ELSE {}]}

(* Mutant: a cleared dialogue has the same empty value for both.           *)
ClearedAlike == branch' = NoText /\ text' = NoText /\ waiting' = FALSE

Cleared == branch' = All /\ text' = NoText /\ waiting' = FALSE

Quiet == UNCHANGED <<rights, press, changes, delivered, granted>>

(* The menu button; a single branch is chosen at once.                     *)
BroadcastStart ==
  /\ Type
  /\ ListVisible(Actor) # {}
  /\ waiting' = FALSE /\ text' = NoText
  /\ LET seen == ListVisible(Actor) IN
       IF Cardinality(seen) = 1
       THEN /\ branch' \in seen
            /\ Draw({}, "actions", branch', NoText)
       ELSE /\ branch' = All
            /\ Draw({}, "branches", All, NoText)
  /\ Quiet

BroadcastBranch(s, b) ==
  /\ Press(s)
  /\ s.kind = "branches"
  /\ branch' = b /\ waiting' = FALSE
  /\ Draw({s}, "actions", b, NoText)
  /\ UNCHANGED text /\ Quiet

MessageAction(s) ==
  /\ Press(s)
  /\ s.kind = "actions"
  /\ waiting' = TRUE
  /\ Draw({s}, "prompt", branch, NoText)
  /\ UNCHANGED <<branch, text>> /\ Quiet

MessageText(txt) ==
  /\ Type
  /\ waiting
  /\ text' = txt /\ waiting' = FALSE
  /\ Draw({}, "message", branch, txt)
  /\ UNCHANGED branch /\ Quiet

StatisticsAction(s) ==
  /\ Press(s)
  /\ s.kind = "actions"
  /\ waiting' = FALSE
  /\ Draw({s}, "stats", branch, NoText)
  /\ UNCHANGED <<branch, text>> /\ Quiet

BroadcastCancel(s) ==
  /\ Press(s)
  /\ Cleared
  /\ screens' = screens \ {s}
  /\ last' = 0
  /\ UNCHANGED drawn /\ Quiet

(* /start, /admin, /cancel: the dialogue goes, the screens above remain.   *)
LeaveDialog ==
  /\ Type
  /\ Cleared
  /\ last' = 0
  /\ UNCHANGED chat /\ Quiet

-----------------------------------------------------------------------------
(* confirm_message and confirm_statistics.                                 *)

Confirm(p, s) ==
  /\ Press(s)
  /\ press[p].pc = "free"
  /\ s.kind \in {"message", "stats"}
  /\ s.kind = "message" => text # NoText
  /\ press' = [press EXCEPT ![p] =
       [pc |-> "pressed", screen |-> s, targets |-> {},
        text |-> IF s.kind = "message" THEN text ELSE NoText]]
  /\ UNCHANGED <<rights, data, chat, last, changes, delivered, granted>>

(* The button's message is redrawn, then the branch and its staff read.    *)
ReadTargets(p) ==
  /\ press[p].pc = "pressed"
  /\ screens' = screens \ {press[p].screen}
  /\ press' = [press EXCEPT ![p] =
       IF Refused(branch) /\ Actor # Office THEN Free
       ELSE [@ EXCEPT !.pc = "sending", !.targets = Targets(branch)]]
  /\ UNCHANGED <<rights, data, drawn, used, changes, delivered, granted>>

(* One message is sent, or fails and is counted as failed.                 *)
Send(p, e) ==
  /\ press[p].pc = "sending" /\ e \in press[p].targets
  /\ press' = [press EXCEPT ![p].targets = @ \ {e}]
  /\ delivered' \in {delivered, delivered \cup {<<press[p].screen, e, press[p].text>>}}
  /\ UNCHANGED <<rights, data, chat, used, changes, granted>>

Finish(p) ==
  /\ press[p].pc = "sending" /\ press[p].targets = {}
  /\ Cleared
  /\ press' = [press EXCEPT ![p] = Free]
  /\ UNCHANGED <<rights, chat, used, changes, delivered, granted>>

-----------------------------------------------------------------------------
(* Others change the rights or the branches.                               *)

(* The franchisee owns the branch, may write to the main office's staff,   *)
(* or was given the right on it.                                           *)
Entitled(b) ==
  IF Actor = Office THEN FALSE
  ELSE \/ owner[b] = Actor
       \/ owner[b] = Office /\ Actor \in messageOwner
       \/ "message" \in access[Actor][b]

Change ==
  /\ changes < MaxChanges
  /\ changes' = changes + 1
  /\ \/ \E b \in Branches : AddBranch(Office, b) \/ DeleteBranch(Office, b)
     \/ \E m \in Managers :
          \/ ToggleView(m) \/ ToggleMessage(m)
          \/ \E b \in Branches, r \in {"view", "message"} : ToggleAccess(m, b, r)
  /\ granted' = granted \cup {b \in present' : Entitled(b)'}
  /\ UNCHANGED <<data, chat, used, press, delivered>>

BNext ==
  \/ BroadcastStart \/ LeaveDialog \/ Change
  \/ \E txt \in TextSet : MessageText(txt)
  \/ \E s \in screens :
       \/ \E b \in s.listed \cup {All} : BroadcastBranch(s, b)
       \/ MessageAction(s) \/ StatisticsAction(s) \/ BroadcastCancel(s)
       \/ \E p \in Presses : Confirm(p, s)
  \/ \E p \in Presses :
       ReadTargets(p) \/ Finish(p) \/ \E e \in Staff : Send(p, e)

BSpec == BInit /\ [][BNext]_bvars

-----------------------------------------------------------------------------
(* Properties.                                                             *)

(* Whatever buttons are pressed in whatever order, and however the rights  *)
(* change meanwhile, nobody gets a message from a manager who never was    *)
(* allowed to write to the staff of that branch.                           *)
OnlyPermitted == \A d \in delivered : BranchOf[d[2]] \in granted

(* What a manager sends who presses only the last answer's buttons, and    *)
(* waits while a broadcast is being sent, is what the screen he confirmed  *)
(* showed, to whom it showed, whatever happens to rights and branches.     *)
ConfirmedScope ==
  prudent => \A d \in delivered :
    /\ d[1].scope # All => BranchOf[d[2]] = d[1].scope
    /\ d[3] = d[1].text
=============================================================================
