---------------------------- MODULE OneTimeCode ----------------------------
(***************************************************************************)
(* What the connection codes promise, each operation in one step.          *)
(*                                                                         *)
(* Handlers that run one after the other: a code ties one Telegram account *)
(* to the employee it was issued for, once, while it has not expired and   *)
(* the employee works in the branch; an employee who is disconnected or    *)
(* leaves has no account.                                                  *)
(*                                                                         *)
(* Handlers that overlap: a code still only ties accounts to the employee  *)
(* it was issued for, is used from then on, and its status never goes      *)
(* back; but it may be redeemed again by who read it in time, and what one *)
(* handler writes, another that has not seen it may leave or undo.         *)
(***************************************************************************)
CONSTANTS
  Tg,         \* Telegram accounts
  Employees,  \* staff
  Codes,      \* connection codes
  CodeFor,    \* the employee each code is issued for
  NoTg        \* "no Telegram account"

VARIABLES
  status,     \* of each code: "unissued", "ACTIVE" or "USED"
  lapsed,     \* active codes past their expiry
  working,    \* employees with is_active
  linked,     \* the account of each employee
  alone       \* the handlers run one after the other

vars == <<status, lapsed, working, linked, alone>>

Init ==
  /\ status = [c \in Codes |-> "unissued"]
  /\ lapsed = {}
  /\ working = Employees
  /\ linked = [e \in Employees |-> NoTg]
  /\ alone \in BOOLEAN

Issue(c) ==
  /\ status[c] = "unissued"
  /\ status' = [status EXCEPT ![c] = "ACTIVE"]
  /\ UNCHANGED <<lapsed, working, linked, alone>>

Lapse(c) ==
  /\ status[c] = "ACTIVE"
  /\ lapsed' = lapsed \cup {c}
  /\ UNCHANGED <<status, working, linked, alone>>

(* The row of e gets the account g; a handler that overlaps with others    *)
(* may find nothing to write.                                              *)
Link(e, g) ==
  \/ linked' = [linked EXCEPT ![e] = g]
  \/ ~alone /\ UNCHANGED linked

Redeem(c, g) ==
  /\ status[c] # "unissued"
  /\ c \notin lapsed
  /\ alone => status[c] = "ACTIVE" /\ CodeFor[c] \in working
  /\ status' = [status EXCEPT ![c] = "USED"]
  /\ Link(CodeFor[c], g)
  /\ UNCHANGED <<lapsed, working, alone>>

Disconnect(e) ==
  /\ Link(e, NoTg)
  /\ UNCHANGED <<status, lapsed, working, alone>>

Leave(e) ==
  /\ working' = working \ {e}
  /\ Link(e, NoTg)
  /\ UNCHANGED <<status, lapsed, alone>>

Return(e) ==
  /\ working' = working \cup {e}
  /\ UNCHANGED <<status, lapsed, linked, alone>>

Next ==
  \/ \E c \in Codes : Issue(c) \/ Lapse(c) \/ \E g \in Tg : Redeem(c, g)
  \/ \E e \in Employees : Disconnect(e) \/ Leave(e) \/ Return(e)

Spec == Init /\ [][Next]_vars
=============================================================================
