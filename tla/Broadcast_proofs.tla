-------------------------- MODULE Broadcast_proofs --------------------------
(***************************************************************************)
(* Nobody hears from a manager who was never allowed to write to him, and  *)
(* who presses only the last answer's buttons sends what they showed: the  *)
(* proofs of Broadcast's properties for any chat, staff and rights, after  *)
(* those of Visibility, for any number of franchisees and branches.        *)
(***************************************************************************)
EXTENDS Broadcast, TLAPS

-----------------------------------------------------------------------------
(* Visibility.                                                             *)

LEMMA AccessUpdated ==
  ASSUME TypeOK, NEW m \in Managers, NEW c \in Branches, NEW r \in Rights
  PROVE  [access EXCEPT ![m][c] = Flip(@, r)] \in [Managers -> [Branches -> SUBSET Rights]]
<1>1. Flip(access[m][c], r) \in SUBSET Rights
  BY DEF Flip, TypeOK
<1>2. [access[m] EXCEPT ![c] = Flip(access[m][c], r)] \in [Branches -> SUBSET Rights]
  BY <1>1 DEF TypeOK
<1>. QED
  BY <1>2 DEF TypeOK

LEMMA ToggleAccessStep ==
  ASSUME TypeOK, NEW m \in Managers, NEW b \in Branches, NEW r \in Rights, ToggleAccess(m, b, r)
  PROVE  \E c \in present : access' = [access EXCEPT ![m][c] = Flip(@, r)]
BY DEF ToggleAccess, AtPlaceOf

(* Every variable keeps its type.                                          *)
LEMMA TypeInductive ==
  ASSUME TypeOK, [Next]_vars
  PROVE  TypeOK'
<1> USE OfficeAssumption DEF OfficeAssumption
<1>1. ASSUME NEW u \in Managers \cup {Office}, NEW b \in Branches, AddBranch(u, b) PROVE TypeOK'
  BY <1>1 DEF TypeOK, AddBranch
<1>2. ASSUME NEW u \in Managers \cup {Office}, NEW b \in Branches, DeleteBranch(u, b) PROVE TypeOK'
  <2>1. \A m \in Managers : [access[m] EXCEPT ![b] = {}] \in [Branches -> SUBSET Rights]
    BY DEF TypeOK
  <2>. QED
    BY <1>2, <2>1 DEF TypeOK, DeleteBranch
<1>3. ASSUME NEW m \in Managers, OpenCard(m) \/ ToggleView(m) \/ ToggleMessage(m) PROVE TypeOK'
  BY <1>3 DEF TypeOK, OpenCard, ToggleView, ToggleMessage, Flip
<1>4. ASSUME NEW m \in Managers, NEW b \in Branches, NEW r \in Rights, ToggleAccess(m, b, r)
      PROVE  TypeOK'
  <2>1. access' \in [Managers -> [Branches -> SUBSET Rights]]
    <3>1. PICK c \in present : access' = [access EXCEPT ![m][c] = Flip(@, r)]
      BY <1>4, ToggleAccessStep
    <3>2. c \in Branches
      BY <3>1 DEF TypeOK
    <3>. QED
      BY <3>1, <3>2, AccessUpdated
  <2>. QED
    BY <1>4, <2>1 DEF TypeOK, ToggleAccess
<1>5. CASE UNCHANGED vars
  BY <1>5 DEF TypeOK, vars
<1>. QED
  BY <1>1, <1>2, <1>3, <1>4, <1>5 DEF Next

LEMMA TypeCorrect == Spec => []TypeOK
<1>1. Init => TypeOK
  BY OfficeAssumption DEF Init, TypeOK, OfficeAssumption
<1>. QED
  BY <1>1, TypeInductive, PTL DEF Spec

-----------------------------------------------------------------------------
(* The list of branches and the check that opens one agree, in every state *)
(* of the right type: neither relies on the other.                         *)
THEOREM ListedIffOpensAlways == Spec => []ListedIffOpens
<1>1. TypeOK => ListedIffOpens
  <2> SUFFICES ASSUME TypeOK, NEW u \in Managers \cup {Office}
               PROVE  ListVisible(u) = {b \in Branches : CanOpen(u, b)}
    BY DEF ListedIffOpens
  <2>1. CASE u = Office
    BY <2>1 DEF ListVisible, CanOpen, TypeOK
  <2>2. CASE u # Office
    <3>1. \A b \in Branches : access[u][b] \cap {"view", "message", "manage"} = access[u][b]
      BY <2>2 DEF TypeOK, Rights
    <3>. QED
      BY <2>2, <3>1 DEF ListVisible, CanOpen, TypeOK
  <2>. QED
    BY <2>1, <2>2
<1>. QED
  BY <1>1, TypeCorrect, PTL

(* Rights and ownership go with the branch, and only come back by being    *)
(* given again.                                                            *)
THEOREM RightsDieWithBranchAlways == Spec => []RightsDieWithBranch
<1>1. Init => RightsDieWithBranch
  BY DEF Init, RightsDieWithBranch
<1>2. ASSUME TypeOK, RightsDieWithBranch, [Next]_vars
      PROVE  RightsDieWithBranch'
  <2>1. ASSUME NEW u \in Managers \cup {Office}, NEW b \in Branches, AddBranch(u, b)
        PROVE  RightsDieWithBranch'
    BY <1>2, <2>1 DEF TypeOK, RightsDieWithBranch, AddBranch
  <2>2. ASSUME NEW u \in Managers \cup {Office}, NEW b \in Branches, DeleteBranch(u, b)
        PROVE  RightsDieWithBranch'
    BY <1>2, <2>2 DEF TypeOK, RightsDieWithBranch, DeleteBranch
  <2>3. ASSUME NEW m \in Managers, OpenCard(m) \/ ToggleView(m) \/ ToggleMessage(m)
        PROVE  RightsDieWithBranch'
    BY <1>2, <2>3 DEF RightsDieWithBranch, OpenCard, ToggleView, ToggleMessage
  <2>4. ASSUME NEW m \in Managers, NEW b \in Branches, NEW r \in Rights, ToggleAccess(m, b, r)
        PROVE  RightsDieWithBranch'
    <3>1. PICK c \in present : access' = [access EXCEPT ![m][c] = Flip(@, r)]
      BY <1>2, <2>4, ToggleAccessStep
    <3>2. \A n \in Managers, d \in Branches \ present : access'[n][d] = access[n][d]
      BY <1>2, <3>1 DEF TypeOK
    <3>. QED
      BY <1>2, <2>4, <3>2 DEF RightsDieWithBranch, ToggleAccess
  <2>5. CASE UNCHANGED vars
    BY <1>2, <2>5 DEF RightsDieWithBranch, vars
  <2>. QED
    BY <1>2, <2>1, <2>2, <2>3, <2>4, <2>5 DEF Next
<1>. QED
  BY <1>1, <1>2, TypeCorrect, PTL DEF Spec

(* A branch somebody owns stays his until it is deleted.                   *)
THEOREM NoSeizureAlways == Spec => NoSeizure
<1>1. ASSUME TypeOK, Next, NEW b \in present, owner[b] # Office, owner'[b] # owner[b]
      PROVE  b \notin present'
  <2>1. ASSUME NEW u \in Managers \cup {Office}, NEW c \in Branches, AddBranch(u, c) PROVE FALSE
    BY <1>1, <2>1 DEF TypeOK, AddBranch
  <2>2. ASSUME NEW u \in Managers \cup {Office}, NEW c \in Branches, DeleteBranch(u, c)
        PROVE  b \notin present'
    BY <1>1, <2>2 DEF TypeOK, DeleteBranch
  <2>3. ASSUME NEW m \in Managers, OpenCard(m) \/ ToggleView(m) \/ ToggleMessage(m) PROVE FALSE
    BY <1>1, <2>3 DEF OpenCard, ToggleView, ToggleMessage
  <2>4. ASSUME NEW m \in Managers, NEW c \in Branches, NEW r \in Rights, ToggleAccess(m, c, r)
        PROVE  FALSE
    BY <1>1, <2>4 DEF ToggleAccess
  <2>. QED
    BY <1>1, <2>1, <2>2, <2>3, <2>4 DEF Next
<1>2. TypeOK /\ [Next]_vars
        => [\A b \in present : owner[b] # Office /\ owner'[b] # owner[b] => b \notin present']_vars
  BY <1>1
<1>. QED
  BY <1>2, TypeCorrect, PTL DEF Spec, NoSeizure

-----------------------------------------------------------------------------
(* Broadcast: who may be written to.                                       *)

(* The branches the actor may message now were entered in granted.         *)
PermittedNow == \A b \in present : Actor = Office \/ Entitled(b) => b \in granted

(* What a handler is about to send stays within granted.                   *)
PressPermitted == \A p \in Presses : \A e \in press[p].targets : BranchOf[e] \in granted

OfficeWritesToAll == present \subseteq Branches /\ (Actor = Office => granted = Branches)

PermittedInv == PermittedNow /\ PressPermitted /\ OfficeWritesToAll /\ OnlyPermitted

LEMMA TargetsPermitted ==
  ASSUME PermittedNow, NEW b, NEW e \in Targets(b)
  PROVE  BranchOf[e] \in granted
<1>1. BranchOf[e] \in Messageable(Actor, Asked(b) \cap present)
  BY DEF Targets
<1>. QED
  BY <1>1 DEF Messageable, PermittedNow, Entitled

(* The handlers of the dialogue before the confirmation.                   *)
Dialogue ==
  \/ BroadcastStart \/ LeaveDialog
  \/ \E txt \in TextSet : MessageText(txt)
  \/ \E s \in screens :
       \/ \E b \in s.listed \cup {All} : BroadcastBranch(s, b)
       \/ MessageAction(s) \/ StatisticsAction(s) \/ BroadcastCancel(s)

LEMMA DialogueQuiet ==
  ASSUME Dialogue
  PROVE  UNCHANGED <<rights, press, delivered, granted>>
BY DEF Dialogue, BroadcastStart, LeaveDialog, MessageText, BroadcastBranch, MessageAction,
   StatisticsAction, BroadcastCancel, Quiet

LEMMA PermittedInductive ==
  ASSUME PermittedInv, [BNext]_bvars
  PROVE  PermittedInv'
<1> USE DEF rights
<1>1. ASSUME UNCHANGED <<rights, press, delivered, granted>> PROVE PermittedInv'
  BY <1>1 DEF PermittedInv, PermittedNow, PressPermitted, OfficeWritesToAll, OnlyPermitted, Entitled
<1>2. ASSUME NEW p \in Presses, NEW s \in screens, Confirm(p, s) PROVE PermittedInv'
  <2>1. \A q \in Presses : press'[q].targets \subseteq press[q].targets
    BY <1>2 DEF Confirm
  <2>. QED
    BY <1>2, <2>1
       DEF Confirm, Entitled, PermittedInv, PermittedNow, PressPermitted, OfficeWritesToAll, OnlyPermitted
<1>3. ASSUME NEW p \in Presses, ReadTargets(p) PROVE PermittedInv'
  <2>1. \A q \in Presses : press'[q].targets \subseteq press[q].targets \cup Targets(branch)
    BY <1>3 DEF ReadTargets, Free
  <2>2. \A e \in Targets(branch) : BranchOf[e] \in granted
    BY TargetsPermitted DEF PermittedInv
  <2>. QED
    BY <1>3, <2>1, <2>2
       DEF ReadTargets, Entitled, PermittedInv, PermittedNow, PressPermitted, OfficeWritesToAll, OnlyPermitted
<1>4. ASSUME NEW p \in Presses, NEW e \in Staff, Send(p, e) PROVE PermittedInv'
  <2>1. \A q \in Presses : press'[q].targets \subseteq press[q].targets
    BY <1>4 DEF Send
  <2>2. BranchOf[e] \in granted
    BY <1>4 DEF Send, PermittedInv, PressPermitted
  <2>3. \A d \in delivered' : d \in delivered \/ d = <<press[p].screen, e, press[p].text>>
    BY <1>4 DEF Send
  <2>4. OnlyPermitted'
    BY <1>4, <2>2, <2>3 DEF Send, PermittedInv, OnlyPermitted
  <2>. QED
    BY <1>4, <2>1, <2>4
       DEF Send, Entitled, PermittedInv, PermittedNow, PressPermitted, OfficeWritesToAll
<1>5. ASSUME NEW p \in Presses, Finish(p) PROVE PermittedInv'
  <2>1. \A q \in Presses : press'[q].targets \subseteq press[q].targets
    BY <1>5 DEF Finish, Free
  <2>. QED
    BY <1>5, <2>1
       DEF Finish, Entitled, PermittedInv, PermittedNow, PressPermitted, OfficeWritesToAll, OnlyPermitted
<1>6. CASE Change
  <2>1. present' \subseteq Branches
    <3>1. ASSUME NEW b \in Branches, AddBranch(Office, b) \/ DeleteBranch(Office, b)
          PROVE  present' \subseteq present \cup {b}
      BY <3>1 DEF AddBranch, DeleteBranch
    <3>2. ASSUME NEW m \in Managers, ToggleView(m) \/ ToggleMessage(m) PROVE present' = present
      BY <3>2 DEF ToggleView, ToggleMessage
    <3>3. ASSUME NEW m \in Managers, NEW b \in Branches, NEW r \in Rights, ToggleAccess(m, b, r)
          PROVE  present' = present
      BY <3>3 DEF ToggleAccess
    <3>. QED
      BY <1>6, <3>1, <3>2, <3>3 DEF Change, PermittedInv, OfficeWritesToAll, Rights
  <2>2. granted \subseteq granted' /\ (Actor = Office => granted' = granted)
    BY <1>6 DEF Change, Entitled
  <2>3. OfficeWritesToAll'
    BY <2>1, <2>2 DEF PermittedInv, OfficeWritesToAll
  <2>4. PermittedNow'
    <3>1. CASE Actor = Office
      BY <2>3, <3>1 DEF PermittedNow, OfficeWritesToAll
    <3>2. CASE Actor # Office
      <4>1. granted' = granted \cup {b \in present' : Entitled(b)'}
        BY <1>6 DEF Change
      <4>. QED
        BY <3>2, <4>1 DEF PermittedNow
    <3>. QED
      BY <3>1, <3>2
  <2>5. UNCHANGED <<press, delivered>>
    BY <1>6 DEF Change
  <2>. QED
    BY <2>2, <2>3, <2>4, <2>5 DEF PermittedInv, PressPermitted, OnlyPermitted
<1>7. CASE UNCHANGED bvars
  BY <1>1, <1>7 DEF bvars
<1>. QED
  BY <1>1, <1>2, <1>3, <1>4, <1>5, <1>6, <1>7, DialogueQuiet DEF BNext, Dialogue

THEOREM OnlyPermittedAlways == BSpec => []OnlyPermitted
<1>1. BInit => PermittedInv
  <2> SUFFICES ASSUME BInit PROVE PermittedInv
    OBVIOUS
  <2> USE DEF BInit
  <2>1. PermittedNow
    BY OfficeAssumption, ActorAssumption DEF PermittedNow, Entitled, OfficeAssumption, ActorAssumption
  <2>2. PressPermitted
    BY DEF PressPermitted, Free
  <2>3. OfficeWritesToAll /\ OnlyPermitted
    BY DEF OfficeWritesToAll, OnlyPermitted
  <2>. QED
    BY <2>1, <2>2, <2>3 DEF PermittedInv
<1>2. PermittedInv /\ [BNext]_bvars => PermittedInv'
  BY PermittedInductive
<1>3. PermittedInv => OnlyPermitted
  BY DEF PermittedInv
<1>. QED
  BY <1>1, <1>2, <1>3, PTL DEF BSpec

-----------------------------------------------------------------------------
(* A handler at work has a screen of the chat.                             *)
PressHasScreen == \A p \in Presses : press[p].pc # "free" => press[p].screen \in Screen

ChatType == BTypeOK /\ PressHasScreen

(* The screen an answer draws.                                             *)
Drawn(kind, scope, txt) ==
  [id |-> drawn + 1, kind |-> kind, scope |-> scope, text |-> txt,
   listed |-> IF kind = "branches" THEN ListVisible(Actor) ELSE {}]

(* What a handler may do to the screens.                                   *)
DrawnOrNot(old, kind, scope, txt) ==
  \/ /\ UNCHANGED <<screens, drawn, last>>
     /\ Refused(scope) /\ kind # "branches"
  \/ /\ drawn < MaxScreens
     /\ drawn' = drawn + 1 /\ last' = drawn + 1
     /\ screens' = (screens \ old) \cup {Drawn(kind, scope, txt)}

LEMMA DrawStep ==
  ASSUME NEW old, NEW kind, NEW scope, NEW txt, Draw(old, kind, scope, txt)
  PROVE  DrawnOrNot(old, kind, scope, txt)
BY DEF Draw, DrawnOrNot, Drawn, chat

LEMMA DrawnType ==
  ASSUME BTypeOK, drawn < MaxScreens, NEW kind \in Kinds, NEW scope \in Branches \cup {All},
         NEW txt \in TextSet \cup {NoText}
  PROVE  /\ drawn + 1 \in 1..MaxScreens
         /\ Drawn(kind, scope, txt) \in Screen
<1>1. drawn + 1 \in 1..MaxScreens
  BY BoundsAssumption DEF BoundsAssumption, BTypeOK
<1>2. ListVisible(Actor) \subseteq Branches
  BY DEF ListVisible, BTypeOK, TypeOK
<1>. QED
  BY <1>1, <1>2 DEF Drawn, Screen

LEMMA DrawKeepsType ==
  ASSUME BTypeOK, NEW old, NEW kind \in Kinds, NEW scope \in Branches \cup {All},
         NEW txt \in TextSet \cup {NoText}, Draw(old, kind, scope, txt)
  PROVE  /\ screens' \in SUBSET Screen
         /\ drawn' \in 0..MaxScreens
         /\ last' \in 0..MaxScreens
<1>1. CASE UNCHANGED <<screens, drawn, last>>
  BY <1>1 DEF BTypeOK
<1>2. CASE /\ drawn < MaxScreens
           /\ drawn' = drawn + 1 /\ last' = drawn + 1
           /\ screens' = (screens \ old) \cup {Drawn(kind, scope, txt)}
  <2>1. Drawn(kind, scope, txt) \in Screen /\ drawn + 1 \in 1..MaxScreens
    BY <1>2, DrawnType
  <2>2. drawn + 1 \in 0..MaxScreens
    BY <2>1, BoundsAssumption DEF BoundsAssumption
  <2>. QED
    BY <1>2, <2>1, <2>2 DEF BTypeOK
<1>. QED
  BY <1>1, <1>2, DrawStep DEF DrawnOrNot

(* The rows of Visibility keep their type whoever changes them.            *)
LEMMA ChangeIsVisibility ==
  ASSUME Change
  PROVE  Next
<1> USE DEF Rights
<1>1. ASSUME NEW b \in Branches, AddBranch(Office, b) \/ DeleteBranch(Office, b) PROVE Next
  BY <1>1 DEF Next
<1>2. ASSUME NEW m \in Managers, ToggleView(m) \/ ToggleMessage(m) PROVE Next
  BY <1>2 DEF Next
<1>3. ASSUME NEW m \in Managers, NEW b \in Branches, NEW r \in {"view", "message"}, ToggleAccess(m, b, r)
      PROVE  Next
  BY <1>3 DEF Next
<1>. QED
  BY <1>1, <1>2, <1>3 DEF Change

(* The data and the screens of the dialogue keep their types.              *)
LEMMA DialogueType ==
  ASSUME BTypeOK, Dialogue
  PROVE  BTypeOK'
<1> USE DEF Kinds
<1>. DEFINE Goal == /\ branch' \in Branches \cup {All}
                    /\ text' \in TextSet \cup {NoText}
                    /\ waiting' \in BOOLEAN
                    /\ screens' \in SUBSET Screen
                    /\ drawn' \in 0..MaxScreens
                    /\ prudent' \in BOOLEAN
                    /\ last' \in 0..MaxScreens
<1>0. 0 \in 0..MaxScreens
  BY BoundsAssumption DEF BoundsAssumption
<1>1. ASSUME BroadcastStart PROVE Goal
  <2>1. ListVisible(Actor) \subseteq Branches
    BY DEF ListVisible, BTypeOK, TypeOK
  <2>2. branch' \in Branches \cup {All} /\ text' = NoText /\ waiting' = FALSE /\ prudent' \in BOOLEAN
    BY <1>1, <2>1 DEF BroadcastStart, Type, BTypeOK
  <2>3. Draw({}, "actions", branch', NoText) \/ Draw({}, "branches", All, NoText)
    BY <1>1 DEF BroadcastStart
  <2>. QED
    BY <2>2, <2>3, DrawKeepsType
<1>2. ASSUME NEW txt \in TextSet, MessageText(txt) PROVE Goal
  <2>1. Draw({}, "message", branch, txt)
    BY <1>2 DEF MessageText
  <2>2. screens' \in SUBSET Screen /\ drawn' \in 0..MaxScreens /\ last' \in 0..MaxScreens
    BY <2>1, DrawKeepsType DEF BTypeOK
  <2>. QED
    BY <1>2, <2>2 DEF MessageText, Type, BTypeOK
<1>3. ASSUME NEW s \in screens, NEW b \in s.listed \cup {All}, BroadcastBranch(s, b) PROVE Goal
  <2>1. b \in Branches \cup {All}
    BY <1>3 DEF BTypeOK, Screen
  <2>2. Draw({s}, "actions", b, NoText)
    BY <1>3 DEF BroadcastBranch
  <2>3. screens' \in SUBSET Screen /\ drawn' \in 0..MaxScreens /\ last' \in 0..MaxScreens
    BY <2>1, <2>2, DrawKeepsType
  <2>. QED
    BY <1>3, <2>1, <2>3 DEF BroadcastBranch, Press, BTypeOK
<1>4. ASSUME NEW s \in screens, MessageAction(s) \/ StatisticsAction(s) PROVE Goal
  <2>1. Draw({s}, "prompt", branch, NoText) \/ Draw({s}, "stats", branch, NoText)
    BY <1>4 DEF MessageAction, StatisticsAction
  <2>2. screens' \in SUBSET Screen /\ drawn' \in 0..MaxScreens /\ last' \in 0..MaxScreens
    BY <2>1, DrawKeepsType DEF BTypeOK
  <2>. QED
    BY <1>4, <2>2 DEF MessageAction, StatisticsAction, Press, BTypeOK
<1>5. ASSUME NEW s \in screens, BroadcastCancel(s) PROVE Goal
  BY <1>5, <1>0 DEF BroadcastCancel, Press, Cleared, BTypeOK
<1>6. ASSUME LeaveDialog PROVE Goal
  BY <1>6, <1>0 DEF LeaveDialog, Type, Cleared, chat, BTypeOK
<1>7. Goal
  BY <1>1, <1>2, <1>3, <1>4, <1>5, <1>6 DEF Dialogue
<1>8. UNCHANGED <<rights, press, changes, delivered, granted>>
  BY DEF Dialogue, BroadcastStart, LeaveDialog, MessageText, BroadcastBranch, MessageAction,
     StatisticsAction, BroadcastCancel, Quiet
<1>. QED
  BY <1>7, <1>8 DEF BTypeOK, TypeOK, rights

LEMMA ChatTypeInductive ==
  ASSUME ChatType, [BNext]_bvars
  PROVE  ChatType'
<1> USE DEF ChatType
<1>1. CASE Dialogue
  <2>1. UNCHANGED press
    BY <1>1, DialogueQuiet
  <2>. QED
    BY <1>1, <2>1, DialogueType DEF PressHasScreen
<1>2. ASSUME NEW p \in Presses, NEW s \in screens, Confirm(p, s) PROVE ChatType'
  <2>1. s \in Screen /\ press'[p].screen = s
    BY <1>2 DEF Confirm, BTypeOK
  <2>2. press' \in [Presses -> [pc : {"free", "pressed", "sending"}, screen : Screen \cup {NoScreen},
                                text : TextSet \cup {NoText}, targets : SUBSET Staff]]
    BY <1>2, <2>1 DEF Confirm, BTypeOK
  <2>3. \A q \in Presses : q = p \/ press'[q] = press[q]
    BY <1>2 DEF Confirm
  <2>. QED
    BY <1>2, <2>1, <2>2, <2>3
       DEF Confirm, Press, BTypeOK, TypeOK, PressHasScreen, rights, data, chat
<1>3. ASSUME NEW p \in Presses, ReadTargets(p) PROVE ChatType'
  <2>1. Targets(branch) \in SUBSET Staff
    BY DEF Targets
  <2>2. \/ press' = [press EXCEPT ![p] = Free]
        \/ press' = [press EXCEPT ![p] = [@ EXCEPT !.pc = "sending", !.targets = Targets(branch)]]
    BY <1>3 DEF ReadTargets
  <2>3. /\ press' \in [Presses -> [pc : {"free", "pressed", "sending"}, screen : Screen \cup {NoScreen},
                                   text : TextSet \cup {NoText}, targets : SUBSET Staff]]
        /\ PressHasScreen'
    BY <1>3, <2>1, <2>2 DEF ReadTargets, BTypeOK, Free, PressHasScreen
  <2>. QED
    BY <1>3, <2>3 DEF ReadTargets, BTypeOK, TypeOK, rights, data, used
<1>4. ASSUME NEW p \in Presses, NEW e \in Staff, Send(p, e) PROVE ChatType'
  <2>1. /\ press' \in [Presses -> [pc : {"free", "pressed", "sending"}, screen : Screen \cup {NoScreen},
                                   text : TextSet \cup {NoText}, targets : SUBSET Staff]]
        /\ PressHasScreen'
    BY <1>4 DEF Send, BTypeOK, PressHasScreen
  <2>2. <<press[p].screen, e, press[p].text>> \in Screen \X Staff \X (TextSet \cup {NoText})
    BY <1>4 DEF Send, BTypeOK, PressHasScreen
  <2>. QED
    BY <1>4, <2>1, <2>2 DEF Send, BTypeOK, TypeOK, rights, data, chat, used
<1>5. ASSUME NEW p \in Presses, Finish(p) PROVE ChatType'
  BY <1>5 DEF Finish, Free, Cleared, BTypeOK, TypeOK, PressHasScreen, rights, chat, used
<1>6. CASE Change
  <2>1. TypeOK'
    BY <1>6, ChangeIsVisibility, TypeInductive DEF BTypeOK
  <2>2. changes' \in 0..MaxChanges
    BY <1>6, BoundsAssumption DEF Change, BTypeOK, BoundsAssumption
  <2>3. granted' \in SUBSET Branches
    BY <1>6, <2>1 DEF Change, BTypeOK, TypeOK
  <2>. QED
    BY <1>6, <2>1, <2>2, <2>3 DEF Change, BTypeOK, PressHasScreen, data, chat, used
<1>7. CASE UNCHANGED bvars
  BY <1>7 DEF bvars, BTypeOK, TypeOK, PressHasScreen, rights, data, chat, used
<1>. QED
  BY <1>1, <1>2, <1>3, <1>4, <1>5, <1>6, <1>7 DEF BNext, Dialogue

LEMMA ChatTypeCorrect == BSpec => []ChatType
<1>1. ASSUME BInit PROVE ChatType
  <2> USE <1>1 DEF BInit
  <2>1. 0 \in 0..MaxScreens /\ 0 \in 0..MaxChanges
    BY BoundsAssumption DEF BoundsAssumption
  <2>2. TypeOK
    BY DEF TypeOK
  <2>3. press \in [Presses -> [pc : {"free", "pressed", "sending"}, screen : Screen \cup {NoScreen},
                               text : TextSet \cup {NoText}, targets : SUBSET Staff]]
    BY DEF Free
  <2>4. PressHasScreen
    BY DEF PressHasScreen, Free
  <2>. QED
    BY <2>1, <2>2, <2>3, <2>4 DEF ChatType, BTypeOK
<1>. QED
  BY <1>1, ChatTypeInductive, PTL DEF BSpec

(* Every variable of the dialogue keeps its type.                          *)
THEOREM TypeAlways == BSpec => []BTypeOK
<1>1. ChatType => BTypeOK
  BY DEF ChatType
<1>. QED
  BY <1>1, ChatTypeCorrect, PTL

-----------------------------------------------------------------------------
(* What the prudent manager confirms.                                      *)

(* The buttons of a screen do what it shows.                               *)
ShowsData(s) ==
  /\ s.kind # "branches" => s.scope = branch
  /\ s.kind = "message" => s.text = text
  /\ s.kind \in {"message", "stats"} => ~waiting

(* Screens are told apart by their numbers.                                *)
ScreensOK ==
  /\ \A s, t \in screens : s.id = t.id => s = t
  /\ \A s \in screens : s.id <= drawn
  /\ \A s \in screens : s.kind = "stats" => s.text = NoText

LastShows == \A s \in screens : s.id = last => ShowsData(s)

OneAtWork == \A p, q \in Presses : press[p].pc # "free" /\ press[q].pc # "free" => p = q

(* The handler at work does what its screen shows, which was the last and  *)
(* is gone when the sending starts.                                        *)
PressShows(p) ==
  /\ press[p].pc = "pressed" =>
       /\ \A s \in screens : s.id = last => s = press[p].screen
       /\ press[p].screen.scope = branch
       /\ press[p].text = press[p].screen.text
  /\ press[p].pc = "sending" =>
       /\ \A s \in screens : s.id # last
       /\ press[p].text = press[p].screen.text
       /\ press[p].screen.scope # All =>
            \A e \in press[p].targets : BranchOf[e] = press[p].screen.scope

PrudentInv ==
  /\ ScreensOK
  /\ prudent => LastShows /\ OneAtWork /\ \A p \in Presses : PressShows(p)
  /\ ConfirmedScope

ScopeInv == ChatType /\ PrudentInv

LEMMA DrawKeepsScreens ==
  ASSUME BTypeOK, ScreensOK, NEW old, NEW kind \in Kinds, NEW scope \in Branches \cup {All},
         NEW txt \in TextSet \cup {NoText}, kind = "stats" => txt = NoText,
         Draw(old, kind, scope, txt)
  PROVE  /\ ScreensOK'
         /\ \/ /\ UNCHANGED <<screens, last>>
               /\ Refused(scope) /\ kind # "branches"
            \/ \A s \in screens' : s.id = last' => s = Drawn(kind, scope, txt)
<1>1. CASE /\ UNCHANGED <<screens, drawn, last>>
           /\ Refused(scope) /\ kind # "branches"
  BY <1>1 DEF ScreensOK
<1>2. CASE /\ drawn < MaxScreens
           /\ drawn' = drawn + 1 /\ last' = drawn + 1
           /\ screens' = (screens \ old) \cup {Drawn(kind, scope, txt)}
  <2>1. /\ Drawn(kind, scope, txt).id = drawn + 1
        /\ Drawn(kind, scope, txt).kind = kind
        /\ Drawn(kind, scope, txt).text = txt
    BY DEF Drawn
  <2>2. drawn \in Nat /\ \A s \in screens : s.id \in Nat
    BY BoundsAssumption DEF BoundsAssumption, BTypeOK, Screen
  <2>3. \A s \in screens : s.id <= drawn /\ s.id # drawn + 1 /\ s.id <= drawn + 1
    BY <2>2 DEF ScreensOK
  <2>4. \A s \in screens' : s \in screens \/ s = Drawn(kind, scope, txt)
    BY <1>2
  <2>5. \A s, t \in screens' : s.id = t.id => s = t
    BY <2>1, <2>3, <2>4 DEF ScreensOK
  <2>6. \A s \in screens' : s.id <= drawn'
    BY <1>2, <2>1, <2>2, <2>3, <2>4
  <2>7. \A s \in screens' : s.kind = "stats" => s.text = NoText
    BY <2>1, <2>4 DEF ScreensOK
  <2>8. \A s \in screens' : s.id = last' => s = Drawn(kind, scope, txt)
    BY <1>2, <2>3, <2>4
  <2>. QED
    BY <2>5, <2>6, <2>7, <2>8 DEF ScreensOK
<1>. QED
  BY <1>1, <1>2, DrawStep DEF DrawnOrNot

LEMMA ListedIsNotRefused ==
  ASSUME TypeOK, NEW b \in ListVisible(Actor)
  PROVE  ~Refused(b)
<1>1. Actor \in Managers \cup {Office}
  BY ActorAssumption DEF ActorAssumption
<1>2. CanOpen(Actor, b)
  <2>1. CASE Actor = Office
    BY <2>1 DEF ListVisible, CanOpen
  <2>2. CASE Actor # Office
    <3>1. b \in present
      BY DEF ListVisible
    <3>2. access[Actor][b] \cap {"view", "message", "manage"} = access[Actor][b]
      BY <1>1, <2>2, <3>1 DEF TypeOK, Rights
    <3>. QED
      BY <2>2, <3>1, <3>2 DEF ListVisible, CanOpen
  <2>. QED
    BY <2>1, <2>2
<1>. QED
  BY <1>2 DEF Refused

(* A handler of the dialogue, seen from the prudent: no one is at work and *)
(* the last screen shows the data again.                                   *)
LEMMA DialogueShows ==
  ASSUME ScopeInv, Dialogue
  PROVE  /\ ScreensOK'
         /\ prudent' => prudent /\ ~Busy /\ LastShows'
<1> USE DEF ScopeInv, ChatType, PrudentInv
<1>. DEFINE Goal == /\ ScreensOK'
                    /\ prudent' => prudent /\ ~Busy /\ LastShows'
<1>0. BTypeOK /\ NoText \in TextSet \cup {NoText} /\ All \in Branches \cup {All}
  OBVIOUS
<1>1. ASSUME BroadcastStart PROVE Goal
  <2>1. ListVisible(Actor) \subseteq Branches
    BY DEF ListVisible, BTypeOK, TypeOK
  <2>2. CASE branch' \in ListVisible(Actor) /\ Draw({}, "actions", branch', NoText)
    <3>1. ~Refused(branch')
      BY <2>2, ListedIsNotRefused DEF BTypeOK
    <3>2. ScreensOK' /\ \A s \in screens' : s.id = last' => s = Drawn("actions", branch', NoText)
      BY <2>1, <2>2, <3>1, DrawKeepsScreens DEF Kinds
    <3>3. LastShows'
      BY <3>2 DEF LastShows, ShowsData, Drawn
    <3>. QED
      BY <1>1, <3>2, <3>3 DEF BroadcastStart, Type
  <2>3. CASE branch' = All /\ Draw({}, "branches", All, NoText)
    <3>1. ScreensOK' /\ \A s \in screens' : s.id = last' => s = Drawn("branches", All, NoText)
      BY <2>3, DrawKeepsScreens DEF Kinds
    <3>2. LastShows'
      BY <3>1 DEF LastShows, ShowsData, Drawn
    <3>. QED
      BY <1>1, <3>1, <3>2 DEF BroadcastStart, Type
  <2>. QED
    BY <1>1, <2>2, <2>3 DEF BroadcastStart
<1>2. ASSUME NEW txt \in TextSet, MessageText(txt) PROVE Goal
  <2>1. Draw({}, "message", branch, txt) /\ branch' = branch /\ text' = txt /\ waiting /\ waiting' = FALSE
    BY <1>2 DEF MessageText
  <2>2. /\ ScreensOK'
        /\ \/ UNCHANGED <<screens, last>>
           \/ \A s \in screens' : s.id = last' => s = Drawn("message", branch, txt)
    <3>1. PICK b \in Branches \cup {All} : b = branch
      BY DEF BTypeOK
    <3>2. Draw({}, "message", b, txt)
      BY <2>1, <3>1 DEF Draw
    <3>3. /\ ScreensOK'
          /\ \/ UNCHANGED <<screens, last>>
             \/ \A s \in screens' : s.id = last' => s = Drawn("message", b, txt)
      <4>1. "message" \in Kinds /\ "message" # "stats" /\ txt \in TextSet \cup {NoText}
        BY DEF Kinds
      <4>2. BTypeOK /\ ScreensOK
        OBVIOUS
      <4>. QED
        BY <3>2, <4>1, <4>2, DrawKeepsScreens, SMTT(30)
    <3>. QED
      BY <3>1, <3>3 DEF Drawn
  <2>3. prudent => LastShows'
    BY <2>1, <2>2 DEF LastShows, ShowsData, Drawn
  <2>. QED
    BY <1>2, <2>2, <2>3 DEF MessageText, Type
<1>3. ASSUME NEW s \in screens, NEW b \in s.listed \cup {All}, BroadcastBranch(s, b) PROVE Goal
  <2>1. b \in Branches \cup {All}
    BY <1>3 DEF BTypeOK, Screen
  <2>2. Draw({s}, "actions", b, NoText) /\ branch' = b /\ s.kind = "branches"
    BY <1>3 DEF BroadcastBranch
  <2>3. /\ ScreensOK'
        /\ \/ UNCHANGED <<screens, last>>
           \/ \A t \in screens' : t.id = last' => t = Drawn("actions", b, NoText)
    BY <2>1, <2>2, DrawKeepsScreens DEF Kinds
  <2>4. s.id = last => LastShows'
    <3>1. s.id = last => \A t \in screens : t.id = last => t.kind = "branches"
      BY <2>2 DEF ScreensOK
    <3>. QED
      BY <2>2, <2>3, <3>1 DEF LastShows, ShowsData, Drawn
  <2>. QED
    BY <1>3, <2>3, <2>4 DEF BroadcastBranch, Press
<1>4. ASSUME NEW s \in screens, MessageAction(s) \/ StatisticsAction(s) PROVE Goal
  <2>1. /\ \/ Draw({s}, "prompt", branch, NoText)
           \/ Draw({s}, "stats", branch, NoText) /\ waiting' = FALSE
        /\ branch' = branch /\ text' = text /\ s.kind = "actions"
    BY <1>4 DEF MessageAction, StatisticsAction
  <2>2. /\ ScreensOK'
        /\ \/ UNCHANGED <<screens, last>>
           \/ \A t \in screens' : t.id = last' => t = Drawn("prompt", branch, NoText)
           \/ (\A t \in screens' : t.id = last' => t = Drawn("stats", branch, NoText)) /\ waiting' = FALSE
    <3>1. PICK b \in Branches \cup {All} : b = branch
      BY DEF BTypeOK
    <3>2. \/ Draw({s}, "prompt", b, NoText)
          \/ Draw({s}, "stats", b, NoText) /\ waiting' = FALSE
      BY <2>1, <3>1 DEF Draw
    <3>3. /\ ScreensOK'
          /\ \/ UNCHANGED <<screens, last>>
             \/ \A t \in screens' : t.id = last' => t = Drawn("prompt", b, NoText)
             \/ (\A t \in screens' : t.id = last' => t = Drawn("stats", b, NoText)) /\ waiting' = FALSE
      BY <3>2, DrawKeepsScreens DEF Kinds
    <3>. QED
      BY <3>1, <3>3 DEF Drawn
  <2>3. s.id = last => \A t \in screens : t.id = last => t.kind = "actions"
    BY <2>1 DEF ScreensOK
  <2>4. prudent /\ s.id = last => LastShows'
    BY <2>1, <2>2, <2>3 DEF LastShows, ShowsData, Drawn
  <2>. QED
    BY <1>4, <2>2, <2>4 DEF MessageAction, StatisticsAction, Press
<1>5. ASSUME NEW s \in screens, BroadcastCancel(s) PROVE Goal
  <2>1. \A t \in screens' : t.id # last'
    BY <1>5 DEF BroadcastCancel, BTypeOK, Screen
  <2>. QED
    BY <1>5, <2>1 DEF BroadcastCancel, Press, ScreensOK, LastShows
<1>6. ASSUME LeaveDialog PROVE Goal
  <2>1. \A t \in screens' : t.id # last'
    BY <1>6 DEF LeaveDialog, chat, BTypeOK, Screen
  <2>. QED
    BY <1>6, <2>1 DEF LeaveDialog, Type, chat, ScreensOK, LastShows
<1>. QED
  BY <1>1, <1>2, <1>3, <1>4, <1>5, <1>6 DEF Dialogue

LEMMA TargetsOfBranch ==
  ASSUME branch # All, NEW e \in Targets(branch)
  PROVE  BranchOf[e] = branch
BY DEF Targets, Messageable, Asked

LEMMA PrudentInductive ==
  ASSUME ScopeInv, [BNext]_bvars
  PROVE  PrudentInv'
<1> USE DEF ScopeInv, ChatType, PrudentInv
<1>1. CASE Dialogue
  <2>1. ScreensOK' /\ (prudent' => prudent /\ ~Busy /\ LastShows')
    BY <1>1, DialogueShows
  <2>2. UNCHANGED <<press, delivered>>
    BY <1>1, DialogueQuiet
  <2>3. prudent' => OneAtWork' /\ \A p \in Presses : PressShows(p)'
    BY <2>1, <2>2 DEF Busy, OneAtWork, PressShows
  <2>4. ConfirmedScope'
    BY <2>1, <2>2 DEF ConfirmedScope
  <2>. QED
    BY <2>1, <2>3, <2>4
<1>2. ASSUME NEW p \in Presses, NEW s \in screens, Confirm(p, s) PROVE PrudentInv'
  <2>1. UNCHANGED <<branch, text, waiting, screens, drawn, last, delivered>>
    BY <1>2 DEF Confirm, data, chat
  <2>2. prudent' => prudent /\ ~Busy /\ s.id = last
    BY <1>2 DEF Confirm, Press
  <2>3. /\ press'[p].pc = "pressed" /\ press'[p].screen = s
        /\ press'[p].text = IF s.kind = "message" THEN text ELSE NoText
        /\ \A q \in Presses : q = p \/ press'[q] = press[q]
    BY <1>2 DEF Confirm, BTypeOK
  <2>4. s.kind \in {"message", "stats"}
    BY <1>2 DEF Confirm
  <2>5. ScreensOK' /\ (prudent' => LastShows')
    BY <2>1, <2>2 DEF ScreensOK, LastShows, ShowsData
  <2>6. prudent' => OneAtWork'
    BY <2>2, <2>3 DEF OneAtWork, Busy
  <2>7. prudent' => \A q \in Presses : PressShows(q)'
    <3>1. prudent' => s.scope = branch /\ (s.kind = "message" => s.text = text)
      BY <2>2, <2>4 DEF LastShows, ShowsData
    <3>2. s.kind = "stats" => s.text = NoText
      BY DEF ScreensOK
    <3>3. prudent' => \A t \in screens : t.id = last => t = s
      BY <2>2 DEF ScreensOK
    <3>5. prudent' => PressShows(p)'
      BY <2>1, <2>3, <2>4, <3>1, <3>2, <3>3 DEF PressShows
    <3>4. \A q \in Presses : q # p => (prudent' => PressShows(q)')
      BY <2>2, <2>3 DEF PressShows, Busy
    <3>. QED
      BY <3>4, <3>5
  <2>8. ConfirmedScope'
    BY <2>1, <2>2 DEF ConfirmedScope
  <2>. QED
    BY <2>5, <2>6, <2>7, <2>8
<1>3. ASSUME NEW p \in Presses, ReadTargets(p) PROVE PrudentInv'
  <2>1. /\ UNCHANGED <<branch, text, waiting, drawn, prudent, last, delivered>>
        /\ screens' = screens \ {press[p].screen} /\ press[p].pc = "pressed"
    BY <1>3 DEF ReadTargets, data, used
  <2>2. \A q \in Presses : q = p \/ press'[q] = press[q]
    BY <1>3 DEF ReadTargets, BTypeOK
  <2>3. \/ press'[p].pc = "free"
        \/ /\ press'[p].pc = "sending" /\ press'[p].screen = press[p].screen
           /\ press'[p].text = press[p].text /\ press'[p].targets = Targets(branch)
    BY <1>3 DEF ReadTargets, BTypeOK, Free
  <2>4. ScreensOK' /\ (prudent' => LastShows')
    BY <2>1 DEF ScreensOK, LastShows, ShowsData
  <2>5. prudent' => OneAtWork'
    BY <2>1, <2>2, <2>3 DEF OneAtWork
  <2>6. prudent' => \A q \in Presses : PressShows(q)'
    <3>1. prudent => press[p].screen.scope = branch /\ press[p].text = press[p].screen.text
      BY <2>1 DEF PressShows
    <3>2. prudent => \A s \in screens' : s.id # last
      BY <2>1 DEF PressShows
    <3>3. branch # All => \A e \in Targets(branch) : BranchOf[e] = branch
      BY TargetsOfBranch
    <3>4. prudent' => PressShows(p)'
      BY <2>1, <2>3, <3>1, <3>2, <3>3 DEF PressShows
    <3>5. \A q \in Presses : q # p => (prudent' => PressShows(q)')
      BY <2>1, <2>2 DEF PressShows, OneAtWork
    <3>. QED
      BY <3>4, <3>5
  <2>7. ConfirmedScope'
    BY <2>1 DEF ConfirmedScope
  <2>. QED
    BY <2>4, <2>5, <2>6, <2>7
<1>4. ASSUME NEW p \in Presses, NEW e \in Staff, Send(p, e) PROVE PrudentInv'
  <2>1. /\ UNCHANGED <<branch, text, waiting, screens, drawn, prudent, last>>
        /\ press[p].pc = "sending" /\ e \in press[p].targets
    BY <1>4 DEF Send, data, chat, used
  <2>2. /\ \A q \in Presses : /\ press'[q].pc = press[q].pc
                              /\ press'[q].screen = press[q].screen
                              /\ press'[q].text = press[q].text
                              /\ press'[q].targets \subseteq press[q].targets
    BY <1>4 DEF Send, BTypeOK
  <2>3. ScreensOK' /\ (prudent' => LastShows' /\ OneAtWork')
    BY <2>1, <2>2 DEF ScreensOK, LastShows, ShowsData, OneAtWork
  <2>4. prudent' => \A q \in Presses : PressShows(q)'
    BY <2>1, <2>2 DEF PressShows
  <2>5. \A d \in delivered' : d \in delivered \/ d = <<press[p].screen, e, press[p].text>>
    BY <1>4 DEF Send
  <2>6. prudent => /\ press[p].screen.scope # All => BranchOf[e] = press[p].screen.scope
                   /\ press[p].text = press[p].screen.text
    BY <2>1 DEF PressShows
  <2>7. ConfirmedScope'
    BY <2>1, <2>5, <2>6 DEF ConfirmedScope
  <2>. QED
    BY <2>3, <2>4, <2>7
<1>5. ASSUME NEW p \in Presses, Finish(p) PROVE PrudentInv'
  <2>1. /\ UNCHANGED <<screens, drawn, prudent, last, delivered>>
        /\ press[p].pc = "sending"
    BY <1>5 DEF Finish, chat, used
  <2>2. press'[p].pc = "free" /\ \A q \in Presses : q = p \/ press'[q] = press[q]
    BY <1>5 DEF Finish, Free, BTypeOK
  <2>3. ScreensOK' /\ ConfirmedScope'
    BY <2>1 DEF ScreensOK, ConfirmedScope
  <2>4. prudent' => LastShows'
    BY <2>1 DEF LastShows, PressShows
  <2>5. prudent' => \A q \in Presses : press'[q].pc = "free"
    BY <2>1, <2>2 DEF OneAtWork
  <2>6. prudent' => OneAtWork' /\ \A q \in Presses : PressShows(q)'
    BY <2>5 DEF OneAtWork, PressShows
  <2>. QED
    BY <2>3, <2>4, <2>6
<1>6. ASSUME UNCHANGED <<data, chat, used, press, delivered>> PROVE PrudentInv'
  BY <1>6 DEF data, chat, used, ScreensOK, LastShows, ShowsData, OneAtWork, PressShows, ConfirmedScope
<1>7. CASE Change
  BY <1>6, <1>7 DEF Change
<1>8. CASE UNCHANGED bvars
  BY <1>6, <1>8 DEF bvars
<1>. QED
  BY <1>1, <1>2, <1>3, <1>4, <1>5, <1>7, <1>8 DEF BNext, Dialogue

(* Who presses only the last answer's buttons sends what they showed.      *)
THEOREM ConfirmedScopeAlways == BSpec => []ConfirmedScope
<1>1. BInit => PrudentInv
  BY DEF BInit, PrudentInv, ScreensOK, LastShows, OneAtWork, PressShows, ConfirmedScope, Free
<1>2. ChatType /\ PrudentInv /\ [BNext]_bvars => PrudentInv'
  BY PrudentInductive DEF ScopeInv
<1>3. PrudentInv => ConfirmedScope
  BY DEF PrudentInv
<1>. QED
  BY <1>1, <1>2, <1>3, ChatTypeCorrect, PTL DEF BSpec
=============================================================================
