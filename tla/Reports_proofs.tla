--------------------------- MODULE Reports_proofs ---------------------------
(***************************************************************************)
(* Proofs about Reports, for any employees, screens, thresholds and texts  *)
(* of rules, and any number of edits, restarts and changes.                *)
(***************************************************************************)
EXTENDS Reports, Lists_proofs

-----------------------------------------------------------------------------
(* The rules that a text stands for.                                       *)

Lines(text) == IF \E i \in DOMAIN text : text[i][1] = 0 THEN text ELSE Append(text, <<0, 0>>)
LastLine(lines, th) ==
  CHOOSE i \in DOMAIN lines :
    lines[i][1] = th /\ \A j \in DOMAIN lines : lines[j][1] = th => j <= i

LEMMA LinesType ==
  ASSUME NEW text \in Texts
  PROVE  /\ Lines(text) \in Seq(Thresholds \X Percents)
         /\ \E i \in DOMAIN Lines(text) : Lines(text)[i][1] = 0
<1>1. text \in Seq(Thresholds \X Percents) /\ <<0, 0>> \in Thresholds \X Percents
  BY RulesAssumption DEF RulesAssumption
<1>2. CASE \E i \in DOMAIN text : text[i][1] = 0
  BY <1>1, <1>2 DEF Lines
<1>3. CASE ~ \E i \in DOMAIN text : text[i][1] = 0
  <2>1. Lines(text) = Append(text, <<0, 0>>)
    BY <1>3 DEF Lines
  <2>2. /\ Lines(text) \in Seq(Thresholds \X Percents)
        /\ Len(Lines(text)) = Len(text) + 1
        /\ Lines(text)[Len(text) + 1] = <<0, 0>>
    BY <1>1, <2>1
  <2>3. Len(text) + 1 \in DOMAIN Lines(text)
    BY <1>1, <2>2
  <2>. QED
    BY <2>2, <2>3
<1>. QED
  BY <1>2, <1>3

LEMMA LastLineIsLast ==
  ASSUME NEW lines \in Seq(Thresholds \X Percents), NEW th,
         \E i \in DOMAIN lines : lines[i][1] = th
  PROVE  LET k == LastLine(lines, th) IN
         /\ k \in DOMAIN lines /\ lines[k][1] = th
         /\ \A j \in DOMAIN lines : lines[j][1] = th => j <= k
<1> DEFINE S == {i \in DOMAIN lines : lines[i][1] = th}
<1>1. S \in SUBSET Nat /\ S # {} /\ Len(lines) \in Nat /\ \A i \in S : i <= Len(lines)
  OBVIOUS
<1>2. Max(S) \in S /\ \A y \in S : y <= Max(S)
  <2> HIDE DEF S
  <2>. QED
    BY <1>1, MaxIsMember
<1>. QED
  BY <1>2 DEF LastLine

LEMMA ParsedType ==
  ASSUME NEW text \in Texts
  PROVE  /\ DOMAIN ParsedRules(text) = {Lines(text)[i][1] : i \in DOMAIN Lines(text)}
         /\ DOMAIN ParsedRules(text) \subseteq Thresholds
         /\ 0 \in DOMAIN ParsedRules(text)
         /\ \A th \in DOMAIN ParsedRules(text) :
              /\ ParsedRules(text)[th] = Lines(text)[LastLine(Lines(text), th)][2]
              /\ ParsedRules(text)[th] \in Percents
<1> DEFINE lines == Lines(text)
<1>1. ParsedRules(text) =
        [th \in {lines[i][1] : i \in DOMAIN lines} |-> lines[LastLine(lines, th)][2]]
  BY DEF ParsedRules, Lines, LastLine
<1>2. lines \in Seq(Thresholds \X Percents) /\ \E i \in DOMAIN lines : lines[i][1] = 0
  BY LinesType
<1> HIDE DEF lines
<1>3. ASSUME NEW th \in {lines[i][1] : i \in DOMAIN lines}
      PROVE  lines[LastLine(lines, th)][2] \in Percents
  <2>1. LastLine(lines, th) \in DOMAIN lines
    BY <1>2, LastLineIsLast
  <2>. QED
    BY <1>2, <2>1
<1>4. {lines[i][1] : i \in DOMAIN lines} \subseteq Thresholds
  BY <1>2
<1>. QED
  BY <1>1, <1>2, <1>3, <1>4 DEF lines

(* What the table of parsed lines pays is what the text pays.              *)
LEMMA ParsedPaysText ==
  ASSUME NEW text \in Texts, NEW base \in Nat,
         NEW m \in DOMAIN ParsedRules(text), m <= base,
         \A th \in DOMAIN ParsedRules(text) : th <= base => th <= m
  PROVE  HighestReached(text, base) = ParsedRules(text)[m]
<1> DEFINE lines == Lines(text)
           reached == {i \in DOMAIN text : text[i][1] <= base}
           best == {i \in reached : \A j \in reached : text[j][1] <= text[i][1]}
<1>1. /\ text \in Seq(Thresholds \X Percents) /\ Len(text) \in Nat /\ DOMAIN text = 1 .. Len(text)
      /\ Thresholds \subseteq Nat
  BY RulesAssumption DEF RulesAssumption
<1>2. \A i \in DOMAIN text : text[i][1] \in Nat /\ text[i][1] \in Thresholds
  <2>. TAKE i \in DOMAIN text
  <2>1. text[i] \in Thresholds \X Percents
    BY <1>1
  <2>. QED
    BY <1>1, <2>1
<1>3. /\ lines \in Seq(Thresholds \X Percents)
      /\ m \in Nat /\ \E i \in DOMAIN lines : lines[i][1] = m
      /\ ParsedRules(text)[m] = lines[LastLine(lines, m)][2]
      /\ \A i \in DOMAIN lines : lines[i][1] <= base => lines[i][1] <= m
  <2>1. /\ lines \in Seq(Thresholds \X Percents)
        /\ DOMAIN ParsedRules(text) = {lines[i][1] : i \in DOMAIN lines}
        /\ DOMAIN ParsedRules(text) \subseteq Nat
        /\ ParsedRules(text)[m] = lines[LastLine(lines, m)][2]
    BY <1>1, LinesType, ParsedType
  <2> HIDE DEF lines
  <2>. QED
    BY <2>1
<1>4. \/ lines = text
      \/ /\ \A i \in DOMAIN text : text[i][1] # 0
         /\ DOMAIN lines = 1 .. Len(text) + 1
         /\ \A i \in DOMAIN text : lines[i] = text[i]
         /\ lines[Len(text) + 1] = <<0, 0>>
  <2>1. CASE \E i \in DOMAIN text : text[i][1] = 0
    BY <2>1 DEF Lines
  <2>2. CASE ~ \E i \in DOMAIN text : text[i][1] = 0
    <3>1. lines = Append(text, <<0, 0>>)
      BY <2>2 DEF Lines
    <3> HIDE DEF lines
    <3>2. DOMAIN lines = 1 .. Len(text) + 1
      BY <1>1, <3>1
    <3>3. \A i \in DOMAIN text : lines[i] = text[i]
      BY <1>1, <3>1
    <3>4. lines[Len(text) + 1] = <<0, 0>>
      BY <1>1, <3>1
    <3>. QED
      BY <2>2, <3>2, <3>3, <3>4
  <2>. QED
    BY <2>1, <2>2
<1>5. \A i \in DOMAIN text : i \in DOMAIN lines /\ lines[i] = text[i]
  BY <1>1, <1>4
<1>6. PICK k \in DOMAIN lines : /\ k = LastLine(lines, m) /\ lines[k][1] = m
                                /\ \A j \in DOMAIN lines : lines[j][1] = m => j <= k
  <2> HIDE DEF lines
  <2>. QED
    BY <1>3, LastLineIsLast
<1> HIDE DEF lines
<1>7. CASE reached = {}
  <2>1. \A i \in DOMAIN text : text[i][1] # 0 /\ text[i][1] # m
    BY <1>2, <1>7
  <2>2. k = Len(text) + 1 /\ lines[k] = <<0, 0>>
    <3>1. k \notin DOMAIN text
      BY <1>5, <1>6, <2>1
    <3>2. lines # text
      BY <1>6, <3>1
    <3>3. DOMAIN lines = 1 .. Len(text) + 1 /\ lines[Len(text) + 1] = <<0, 0>>
      BY <1>4, <3>2
    <3>. QED
      BY <1>1, <1>6, <3>1, <3>3
  <2>3. HighestReached(text, base) = 0
    BY <1>7 DEF HighestReached
  <2>. QED
    BY <1>3, <1>6, <2>2, <2>3
<1>8. CASE reached # {}
  <2>1. PICK i \in DOMAIN text : text[i][1] <= base
    BY <1>8
  <2>2. text[i][1] <= m /\ text[i][1] \in Nat
    BY <1>2, <1>3, <1>5, <2>1
  <2>3. k \in DOMAIN text /\ lines[k] = text[k]
    <3>1. CASE lines = text
      BY <1>6, <3>1
    <3>2. CASE lines # text
      <4>1. m # 0
        BY <1>2, <1>3, <1>4, <2>1, <2>2, <3>2
      <4>2. k # Len(text) + 1
        BY <1>4, <1>6, <3>2, <4>1
      <4>. QED
        BY <1>1, <1>4, <1>6, <3>2, <4>2
    <3>. QED
      BY <3>1, <3>2
  <2>4. k \in reached /\ \A j \in reached : text[j][1] <= text[k][1]
    BY <1>3, <1>5, <1>6, <2>3
  <2>5. k \in best
    BY <2>4
  <2>6. \A j \in best : j \in DOMAIN text /\ text[j][1] = m
    <3>. TAKE j \in best
    <3>1. j \in DOMAIN text /\ text[j][1] <= text[k][1] /\ text[k][1] <= text[j][1]
      BY <2>4
    <3>. QED
      BY <1>2, <1>3, <1>6, <2>3, <3>1
  <2>7. \A j \in best : j <= k
    BY <1>5, <1>6, <2>6
  <2>8. (CHOOSE i_1 \in best : \A j \in best : j <= i_1) = k
    <3>1. best \subseteq Nat
      BY <1>1
    <3> HIDE DEF best
    <3>. QED
      BY <2>5, <2>7, <3>1
  <2>9. HighestReached(text, base) = text[k][2]
    BY <1>8, <2>8 DEF HighestReached
  <2>. QED
    BY <1>3, <1>6, <2>3, <2>9
<1>. QED
  BY <1>7, <1>8

-----------------------------------------------------------------------------
(* The table of rules is the table of the last text.                       *)

RulesOK ==
  /\ rule \in [Thresholds -> Rule \cup {NoRule}]
  /\ written \in Texts
  /\ Active = DOMAIN ParsedRules(written)
  /\ \A th \in Active : rule[th].percent = ParsedRules(written)[th]

LEMMA NoRuleIsNoRule == NoRule \notin Rule
BY Zenon, RulesAssumption DEF RulesAssumption, Rule

LEMMA ReplacedType ==
  ASSUME NEW text \in Texts, rule \in [Thresholds -> Rule \cup {NoRule}]
  PROVE  Replaced(ParsedRules(text)) \in [Thresholds -> Rule \cup {NoRule}]
<1>1. \A th \in DOMAIN ParsedRules(text) : ParsedRules(text)[th] \in Percents
  BY ParsedType
<1>2. ASSUME NEW th \in Thresholds
      PROVE  Replaced(ParsedRules(text))[th] \in Rule \cup {NoRule}
  <2>1. CASE th \in DOMAIN ParsedRules(text)
    BY <1>1, <2>1 DEF Replaced, Rule
  <2>2. CASE th \notin DOMAIN ParsedRules(text)
    BY <2>2 DEF Replaced, Rule
  <2>. QED
    BY <2>1, <2>2
<1>. QED
  BY <1>2 DEF Replaced

LEMMA ReplacedOK ==
  ASSUME NEW text \in Texts, rule \in [Thresholds -> Rule \cup {NoRule}],
         rule' = Replaced(ParsedRules(text)), written' = text
  PROVE  RulesOK'
<1> DEFINE rules == ParsedRules(text)
<1>1. rule' \in [Thresholds -> Rule \cup {NoRule}]
  BY ReplacedType
<1>2. DOMAIN rules \subseteq Thresholds /\ \A th \in DOMAIN rules : rules[th] \in Percents
  BY ParsedType
<1> HIDE DEF rules
<1>3. ASSUME NEW th \in Thresholds
      PROVE  /\ th \in DOMAIN rules => rule'[th] = [percent |-> rules[th], active |-> TRUE]
             /\ th \notin DOMAIN rules => rule'[th] = NoRule \/ ~ rule'[th].active
  BY DEF Replaced, Rule, rules
<1>4. ASSUME NEW th \in DOMAIN rules
      PROVE  rule'[th] # NoRule /\ rule'[th].active /\ rule'[th].percent = rules[th]
  <2>1. rule'[th] = [percent |-> rules[th], active |-> TRUE]
    BY <1>2, <1>3
  <2>2. [percent |-> rules[th], active |-> TRUE] # NoRule
    <3>1. [percent |-> rules[th], active |-> TRUE] \in Rule
      BY <1>2 DEF Rule
    <3>. QED
      BY <3>1, NoRuleIsNoRule
  <2>. QED
    BY <2>1, <2>2
<1>5. Active' = DOMAIN rules
  BY <1>2, <1>3, <1>4 DEF Active
<1>. QED
  BY <1>1, <1>4, <1>5 DEF RulesOK, rules

LEMMA InitRules == Init => RulesOK
<1> SUFFICES ASSUME Init PROVE RulesOK
  OBVIOUS
<1> DEFINE rules == ParsedRules(Default)
<1>1. Default \in Texts
  BY RulesAssumption DEF RulesAssumption
<1>2. DOMAIN rules \subseteq Thresholds /\ \A th \in DOMAIN rules : rules[th] \in Percents
  BY <1>1, ParsedType
<1>3. /\ rule = [th \in Thresholds |->
                   IF th \in DOMAIN rules THEN [percent |-> rules[th], active |-> TRUE] ELSE NoRule]
      /\ written = Default
  BY DEF Init
<1> HIDE DEF rules
<1>4. rule \in [Thresholds -> Rule \cup {NoRule}]
  BY <1>2, <1>3 DEF Rule
<1>5. ASSUME NEW th \in DOMAIN rules
      PROVE  rule[th] # NoRule /\ rule[th].active /\ rule[th].percent = rules[th]
  <2>1. rule[th] = [percent |-> rules[th], active |-> TRUE]
    BY <1>2, <1>3
  <2>2. [percent |-> rules[th], active |-> TRUE] # NoRule
    <3>1. [percent |-> rules[th], active |-> TRUE] \in Rule
      BY <1>2 DEF Rule
    <3>. QED
      BY <3>1, NoRuleIsNoRule
  <2>. QED
    BY <2>1, <2>2
<1>6. Active = DOMAIN rules
  BY <1>2, <1>3, <1>5 DEF Active
<1>. QED
  BY <1>1, <1>3, <1>4, <1>5, <1>6 DEF RulesOK, rules

LEMMA NextRules == RulesOK /\ [Next]_vars => RulesOK'
<1> SUFFICES ASSUME RulesOK, [Next]_vars PROVE RulesOK'
  OBVIOUS
<1>1. ASSUME NEW text \in Texts, Edit(text) PROVE RulesOK'
  BY <1>1, ReplacedOK DEF Edit, RulesOK
<1>2. CASE Restart
  BY <1>2, ReplacedOK, RulesAssumption DEF Restart, RulesOK, RulesAssumption
<1>3. CASE UNCHANGED <<rule, written>>
  BY <1>3 DEF RulesOK, Active
<1>4. ASSUME NEW e \in Employees, Refreshed(e) \/ Disconnects(e) \/ Connects(e) \/ Toggle(e)
      PROVE  UNCHANGED <<rule, written>>
  BY <1>4 DEF Refreshed, Disconnects, Connects, Toggle
<1>5. ASSUME NEW h \in Handlers, NEW e \in Employees, Views(h, e)
      PROVE  UNCHANGED <<rule, written>>
  BY <1>5 DEF Views
<1>6. ASSUME JobStarts \/ TellStats \/ TellGrade
      PROVE  UNCHANGED <<rule, written>>
  BY <1>6 DEF JobStarts, TellStats, TellGrade
<1>7. ASSUME NEW t \in Tasks,
             Sum(t) \/ Store(t) \/ Rate(t) \/ Write(t) \/ Collide(t) \/ TellKpi(t)
               \/ Refused(t) \/ DeadlockAbort(t) \/ Commit(t)
      PROVE  UNCHANGED <<rule, written>>
  BY <1>7 DEF Sum, Store, Rate, Write, Collide, TellKpi, Refused, DeadlockAbort, Commit
<1>8. UNCHANGED vars => UNCHANGED <<rule, written>>
  BY DEF vars
<1>. QED
  BY <1>1, <1>2, <1>3, <1>4, <1>5, <1>6, <1>7, <1>8 DEF Next

LEMMA EarnedOfText ==
  ASSUME RulesOK, NEW base \in Nat
  PROVE  EarnedPercent(base) = HighestReached(written, base) /\ EarnedPercent(base) \in Percents
<1> DEFINE rules == ParsedRules(written)
           reached == {th \in Active : base >= th}
<1>1. /\ written \in Texts /\ Active = DOMAIN rules
      /\ \A th \in Active : rule[th].percent = rules[th]
  BY DEF RulesOK
<1>2. 0 \in DOMAIN rules /\ DOMAIN rules \subseteq Nat /\ \A th \in DOMAIN rules : rules[th] \in Percents
  BY <1>1, ParsedType, RulesAssumption DEF RulesAssumption
<1> HIDE DEF rules
<1>3. reached \in SUBSET Nat /\ reached # {} /\ \A th \in reached : th <= base
  BY <1>1, <1>2
<1>4. PICK m \in reached : m = Max(reached) /\ \A th \in reached : th <= m
  <2> HIDE DEF reached
  <2>. QED
    BY <1>3, MaxIsMember
<1>5. EarnedPercent(base) = rules[m] /\ rules[m] \in Percents
  BY <1>1, <1>2, <1>3, <1>4 DEF EarnedPercent
<1>6. m \in DOMAIN rules /\ m <= base /\ \A th \in DOMAIN rules : th <= base => th <= m
  BY <1>1, <1>2, <1>4
<1>7. HighestReached(written, base) = rules[m]
  BY <1>1, <1>6, ParsedPaysText DEF rules
<1>. QED
  BY <1>5, <1>7

LEMMA AmountsAreNat == Amounts \subseteq Nat
<1>1. Thresholds \subseteq Nat
  BY RulesAssumption DEF RulesAssumption
<1>2. \A th \in Thresholds : th + 1 \in Nat
  BY <1>1
<1>3. {th + 1 : th \in Thresholds} \subseteq Nat
  BY Zenon, <1>2
<1>. QED
  BY <1>1, <1>3 DEF Amounts

(* For any texts of rules and any sequence of edits and restarts, every    *)
(* amount earns what the last text says (_earned_percent_from_rules on the *)
(* rows that replace_rules leaves active).                                 *)
THEOREM EarnedAsWrittenAlways == Spec => []EarnedAsWritten
<1>1. RulesOK => EarnedAsWritten
  <2> SUFFICES ASSUME RulesOK PROVE EarnedAsWritten
    OBVIOUS
  <2>. QED
    BY AmountsAreNat, EarnedOfText DEF EarnedAsWritten
<1>. QED
  BY <1>1, InitRules, NextRules, PTL DEF Spec

-----------------------------------------------------------------------------
(* The goal: the rules that pay are those of the text, in ascending order. *)

Paying(text) == {text[i][1] : i \in DOMAIN text} \ {0}

LEMMA ActivePays ==
  ASSUME RulesOK
  PROVE  Active \in SUBSET Nat /\ IsFiniteSet(Active) /\ Active \ {0} = Paying(written)
<1> DEFINE lines == Lines(written)
           at == [i \in DOMAIN lines |-> lines[i][1]]
<1>1. lines \in Seq(Thresholds \X Percents) /\ Active = {lines[i][1] : i \in DOMAIN lines}
  BY LinesType, ParsedType DEF RulesOK
<1>2. written \in Seq(Thresholds \X Percents)
  BY RulesAssumption DEF RulesOK, RulesAssumption
<1>3. Active \in SUBSET Nat
  BY ParsedType, RulesAssumption DEF RulesOK, RulesAssumption
<1>4. Active \ {0} = Paying(written)
  <2>1. CASE \E i \in DOMAIN written : written[i][1] = 0
    <3>1. lines = written
      BY <2>1 DEF Lines
    <3>. QED
      BY <1>1, <3>1 DEF Paying
  <2>2. CASE ~ \E i \in DOMAIN written : written[i][1] = 0
    <3>1. lines = Append(written, <<0, 0>>)
      BY <2>2 DEF Lines
    <3> HIDE DEF lines
    <3>2. /\ Len(lines) = Len(written) + 1 /\ DOMAIN lines = 1 .. Len(written) + 1
          /\ DOMAIN written = 1 .. Len(written) /\ Len(written) \in Nat
          /\ \A i \in DOMAIN written : lines[i] = written[i]
          /\ lines[Len(written) + 1] = <<0, 0>>
      BY <1>2, <3>1
    <3>3. lines[Len(written) + 1][1] = 0
      BY <3>2
    <3>4. \A i \in DOMAIN lines : i \in DOMAIN written \/ lines[i][1] = 0
      BY <3>2, <3>3
    <3>. QED
      BY <1>1, <3>2, <3>4 DEF Paying
  <2>. QED
    BY <2>1, <2>2
<1> HIDE DEF lines
<1>5. IsFiniteSet(Active)
  <2>1. DOMAIN lines = 1 .. Len(lines) /\ Len(lines) \in Nat
    BY <1>1
  <2>2. IsFiniteSet(DOMAIN lines)
    BY <2>1, FS_Interval
  <2>3. at \in Surjection(DOMAIN lines, Active)
    BY <1>1 DEF Surjection
  <2>. QED
    BY <2>2, <2>3, FS_Surjection
<1>. QED
  BY <1>3, <1>4, <1>5

(* The rows list_active returns, without the one for nothing earned.       *)
PaidList == Picked(ListActive, {i \in DOMAIN ListActive : ListActive[i] > 0})

LEMMA PaidListed ==
  ASSUME RulesOK
  PROVE  /\ PaidList \in Seq(Paying(written)) /\ Paying(written) \in SUBSET Nat
         /\ \A th \in Paying(written) : \E n \in DOMAIN PaidList : PaidList[n] = th
         /\ \A m, n \in DOMAIN PaidList : PaidList[m] < PaidList[n] <=> m < n
<1> DEFINE N == Cardinality(Active)
           at == {i \in DOMAIN ListActive : ListActive[i] > 0}
<1>1. Active \in SUBSET Nat /\ IsFiniteSet(Active) /\ Active \ {0} = Paying(written)
  BY ActivePays
<1>2. /\ N \in Nat /\ ListActive \in [1 .. N -> Active]
      /\ \A x \in Active : \E n \in 1 .. N : ListActive[n] = x
      /\ \A m, n \in 1 .. N : ListActive[m] < ListActive[n] <=> m < n
  BY <1>1, AscendingIs DEF ListActive
<1> HIDE DEF N
<1>3. ListActive \in Seq(Active) /\ DOMAIN ListActive = 1 .. N
  BY <1>2, IsASeq
<1>4. at \in SUBSET DOMAIN ListActive /\ \A i \in 1 .. N : i \in at <=> ListActive[i] > 0
  BY <1>3
<1>5. PaidList = Picked(ListActive, at)
  BY DEF PaidList
<1> HIDE DEF at
<1>6. PaidList \in Seq(Active)
  BY <1>3, <1>4, <1>5, PickedIs
<1>7. PICK w \in [1 .. Len(PaidList) -> at] :
        /\ \A i \in at : \E n \in DOMAIN w : w[n] = i
        /\ \A m, n \in DOMAIN w : w[m] < w[n] <=> m < n
        /\ \A n \in DOMAIN w : PaidList[n] = ListActive[w[n]]
  <2>1. \E w \in [1 .. Len(Picked(ListActive, at)) -> at] :
          /\ \A i \in at : \E n \in DOMAIN w : w[n] = i
          /\ \A m, n \in DOMAIN w : w[m] < w[n] <=> m < n
          /\ \A n \in DOMAIN w : Picked(ListActive, at)[n] = ListActive[w[n]]
    <3>1. ListActive \in Seq(Active) /\ at \in SUBSET DOMAIN ListActive
      BY <1>3, <1>4
    <3> HIDE DEF PaidList
    <3>. QED
      BY <3>1, PickedIs
  <2>. QED
    BY Zenon, <1>5, <2>1
<1>8. DOMAIN PaidList = 1 .. Len(PaidList) /\ Len(PaidList) \in Nat /\ DOMAIN w = 1 .. Len(PaidList)
  BY <1>6
<1>9. ASSUME NEW n \in DOMAIN PaidList PROVE PaidList[n] \in Paying(written)
  <2>1. w[n] \in 1 .. N /\ PaidList[n] = ListActive[w[n]]
    BY <1>3, <1>4, <1>8, <1>7
  <2>2. ListActive[w[n]] > 0 /\ ListActive[w[n]] \in Active
    BY <1>2, <1>4, <1>8, <2>1
  <2>. QED
    BY <1>1, <2>1, <2>2
<1>10. PaidList \in Seq(Paying(written))
  BY <1>8, <1>9, <1>6, IsASeq, LenProperties
<1>11. ASSUME NEW th \in Paying(written) PROVE \E n \in DOMAIN PaidList : PaidList[n] = th
  <2>1. th \in Active /\ th \in Nat /\ th # 0
    BY <1>1
  <2>2. PICK i \in 1 .. N : ListActive[i] = th
    BY <1>2, <2>1
  <2>3. i \in at
    BY <1>4, <2>1, <2>2
  <2>. QED
    BY <1>8, <1>7, <2>2, <2>3
<1>12. \A m, n \in DOMAIN PaidList : PaidList[m] < PaidList[n] <=> m < n
  <2> SUFFICES ASSUME NEW m \in DOMAIN PaidList, NEW n \in DOMAIN PaidList
               PROVE  PaidList[m] < PaidList[n] <=> m < n
    OBVIOUS
  <2>1. /\ w[m] \in 1 .. N /\ w[n] \in 1 .. N
        /\ PaidList[m] = ListActive[w[m]] /\ PaidList[n] = ListActive[w[n]]
    BY <1>3, <1>4, <1>8, <1>7
  <2>2. ListActive[w[m]] < ListActive[w[n]] <=> w[m] < w[n]
    BY <1>2, <2>1
  <2>3. w[m] < w[n] <=> m < n
    BY <1>8, <1>7
  <2>. QED
    BY <2>1, <2>2, <2>3
<1>. QED
  BY <1>1, <1>10, <1>11, <1>12

(* The goal shown is the nearest threshold not reached yet, or the highest *)
(* one when all are (_next_kpi_goal on the rows list_active returns), for  *)
(* any texts of rules and any sequence of edits and restarts.              *)
THEOREM GoalIsNextAlways == Spec => []GoalIsNext
<1>1. ASSUME RulesOK, NEW base \in Nat
      PROVE  NextGoal(base) =
               LET ahead == {th \in Paying(written) : th > base}
               IN  IF Paying(written) = {} THEN NoGoal
                   ELSE IF ahead # {} THEN Min(ahead) ELSE Max(Paying(written))
  <2> DEFINE paid == Paying(written)
             list == PaidList
             ahead == {th \in paid : th > base}
             places == {i \in DOMAIN list : base < list[i]}
  <2>1. /\ list \in Seq(paid) /\ paid \in SUBSET Nat
        /\ \A th \in paid : \E n \in DOMAIN list : list[n] = th
        /\ \A m, n \in DOMAIN list : list[m] < list[n] <=> m < n
    BY <1>1, PaidListed
  <2>2. NextGoal(base) = IF list = <<>> THEN NoGoal
                         ELSE IF places # {} THEN list[Min(places)] ELSE Last(list)
    BY DEF NextGoal, PaidList
  <2> HIDE DEF paid, list
  <2>3. /\ DOMAIN list = 1 .. Len(list) /\ Len(list) \in Nat
        /\ \A n \in DOMAIN list : list[n] \in paid /\ list[n] \in Nat
    <3>1. DOMAIN list = 1 .. Len(list) /\ Len(list) \in Nat
      BY <2>1
    <3>2. \A n \in DOMAIN list : list[n] \in paid
      BY <2>1
    <3>. QED
      BY <2>1, <3>1, <3>2
  <2>4. list = <<>> <=> paid = {}
    BY <2>1, <2>3
  <2>5. ASSUME places # {} PROVE ahead # {} /\ list[Min(places)] = Min(ahead)
    <3>1. Min(places) \in places /\ \A i \in places : Min(places) <= i
      <4>1. places \in SUBSET Nat
        BY <2>3
      <4> HIDE DEF places
      <4>. QED
        BY <2>5, <4>1, MinIsMember
    <3>2. PICK n \in DOMAIN list : n = Min(places) /\ base < list[n]
      BY <3>1
    <3>3. list[n] \in ahead
      BY <2>3, <3>2
    <3>4. ASSUME NEW th \in ahead PROVE list[n] <= th
      <4>1. PICK m \in DOMAIN list : list[m] = th
        BY <2>1, <3>4
      <4>2. n <= m
        BY <3>1, <3>2, <3>4, <4>1
      <4>3. ~ (list[m] < list[n])
        BY <2>1, <2>3, <4>2
      <4>. QED
        BY <2>3, <4>1, <4>3
    <3>5. Min(ahead) \in ahead /\ \A th \in ahead : Min(ahead) <= th
      <4>1. ahead \in SUBSET Nat
        BY <2>1
      <4> HIDE DEF ahead
      <4>. QED
        BY <3>3, <4>1, MinIsMember
    <3>6. list[n] <= Min(ahead) /\ Min(ahead) <= list[n] /\ list[n] \in Nat /\ Min(ahead) \in Nat
      BY <2>1, <2>3, <3>3, <3>4, <3>5
    <3>. QED
      BY <3>2, <3>3, <3>6
  <2>6. ASSUME places = {}, list # <<>> PROVE ahead = {} /\ Last(list) = Max(paid)
    <3>1. ahead = {}
      <4> SUFFICES ASSUME NEW th \in paid, th > base PROVE FALSE
        OBVIOUS
      <4>1. PICK m \in DOMAIN list : list[m] = th
        BY <2>1
      <4>2. m \in places
        BY <2>1, <4>1
      <4>. QED
        BY <2>6, <4>2
    <3>2. Len(list) \in DOMAIN list
      BY <2>1, <2>3, <2>6
    <3>3. \A th \in paid : th <= list[Len(list)]
      <4> SUFFICES ASSUME NEW th \in paid PROVE th <= list[Len(list)]
        OBVIOUS
      <4>1. PICK m \in DOMAIN list : list[m] = th
        BY <2>1
      <4>2. ~ (list[Len(list)] < list[m])
        BY <2>1, <2>3, <3>2
      <4>. QED
        BY <2>3, <3>2, <4>1, <4>2
    <3>4. Max(paid) \in paid /\ \A th \in paid : th <= Max(paid)
      <4>1. list[Len(list)] \in Nat /\ paid # {}
        BY <2>3, <3>2
      <4>. QED
        BY <2>1, <3>3, <4>1, MaxIsMember
    <3>5. list[Len(list)] \in paid /\ list[Len(list)] \in Nat
      BY <2>3, <3>2
    <3>6. list[Len(list)] = Max(paid)
      <4>1. Max(paid) \in Nat /\ Max(paid) <= list[Len(list)] /\ list[Len(list)] <= Max(paid)
        BY <2>1, <3>3, <3>4, <3>5
      <4>. QED
        BY <3>5, <4>1
    <3>. QED
      BY <3>1, <3>6 DEF Last
  <2>7. NextGoal(base) = IF paid = {} THEN NoGoal
                         ELSE IF ahead # {} THEN Min(ahead) ELSE Max(paid)
    <3> HIDE DEF places, ahead
    <3>. QED
      BY <2>2, <2>4, <2>5, <2>6
  <2>. QED
    BY <2>7 DEF paid
<1>2. RulesOK => GoalIsNext
  BY <1>1, AmountsAreNat DEF GoalIsNext, Paying
<1>. QED
  BY <1>2, InitRules, NextRules, PTL DEF Spec

-----------------------------------------------------------------------------
(* Types, and what the tasks have before them.                             *)

WorkOK ==
  \A t \in Tasks :
    /\ task[t].pc \notin {"idle", "end"} => task[t].queue # <<>>
    /\ At(t, "write") /\ task[t].found # NoRow => KpiRow(t) # NoRow

TInv == TypeOK /\ RulesOK /\ WorkOK

(* The queue of the job holds each of the invited.                         *)
LEMMA QueueOfSet ==
  ASSUME NEW S \in SUBSET Employees, NEW q \in SetToSeqs(S)
  PROVE  q \in Seq(Employees) /\ ToSet(q) = S
<1> DEFINE D == 1 .. Cardinality(S)
<1>1. IsFiniteSet(S) /\ Cardinality(S) \in Nat
  BY TasksAssumption, FS_Subset, FS_CardinalityType DEF TasksAssumption
<1>2. q \in [D -> S] /\ \A i, j \in D : i # j => q[i] # q[j]
  BY DEF SetToSeqs
<1>3. IsFiniteSet(D) /\ Cardinality(D) = Cardinality(S)
  BY <1>1, FS_Interval
<1>4. q \in Injection(D, S)
  BY <1>2 DEF Injection, IsInjective
<1>5. q \in Surjection(D, S)
  BY <1>1, <1>3, <1>4, FS_Injection
<1>6. ToSet(q) = S
  BY <1>2, <1>5 DEF Surjection, ToSet
<1>7. q \in Seq(Employees)
  BY <1>1, <1>2
<1>. QED
  BY <1>6, <1>7

LEMMA KpiRowsPair == \A base \in Nat, percent \in Percents :
                       [base |-> base, percent |-> percent] \in Kpi
BY DEF Kpi

LEMMA NoRowIsNoRow == NoRow \notin Kpi /\ NoRow \notin Nat
BY Zenon, RowsAssumption DEF RowsAssumption, Kpi

LEMMA IdleIsTask == Idle \in Task
<1>1. 0 \in Percents
  BY RulesAssumption DEF RulesAssumption
<1>2. <<>> \in Seq(Employees)
  OBVIOUS
<1>. QED
  BY <1>1, <1>2 DEF Idle, Task, Kpi

LEMMA NowIsEmployee ==
  ASSUME TInv, NEW t \in Tasks, task[t].queue # <<>>
  PROVE  /\ Now(t) \in Employees
         /\ Tail(task[t].queue) \in Seq(Employees)
         /\ ToSet(task[t].queue) = {Now(t)} \cup ToSet(Tail(task[t].queue))
<1>1. task[t] \in Task
  BY DEF TInv, TypeOK
<1>2. task[t].queue \in Seq(Employees)
  BY <1>1 DEF Task
<1> DEFINE q == task[t].queue
<1> HIDE DEF q
<1>3. q \in Seq(Employees) /\ q # <<>>
  BY <1>2 DEF q
<1>4. /\ Head(q) \in Employees /\ Tail(q) \in Seq(Employees) /\ Head(q) = q[1] /\ Len(q) \in Nat \ {0}
      /\ Len(Tail(q)) = Len(q) - 1 /\ \A i \in 1 .. Len(Tail(q)) : Tail(q)[i] = q[i + 1]
  BY <1>3
<1>5. DOMAIN q = 1 .. Len(q) /\ DOMAIN Tail(q) = 1 .. Len(q) - 1
  BY <1>3, <1>4
<1>6. ASSUME NEW i \in DOMAIN q PROVE q[i] \in {Head(q)} \cup ToSet(Tail(q))
  <2>1. CASE i = 1
    BY <1>4, <2>1
  <2>2. CASE i # 1
    <3>1. i - 1 \in DOMAIN Tail(q) /\ Tail(q)[i - 1] = q[i]
      BY <1>4, <1>5, <2>2
    <3>. QED
      BY <3>1 DEF ToSet
  <2>. QED
    BY <2>1, <2>2
<1>7. ASSUME NEW i \in DOMAIN Tail(q) PROVE Tail(q)[i] \in ToSet(q)
  <2>1. i + 1 \in DOMAIN q /\ Tail(q)[i] = q[i + 1]
    BY <1>4, <1>5
  <2>. QED
    BY <2>1 DEF ToSet
<1>8. Head(q) \in ToSet(q)
  BY <1>4, <1>5 DEF ToSet
<1>9. ToSet(q) = {Head(q)} \cup ToSet(Tail(q))
  <2>1. ToSet(q) \subseteq {Head(q)} \cup ToSet(Tail(q))
    BY <1>6 DEF ToSet
  <2>2. ToSet(Tail(q)) \subseteq ToSet(q)
    <3>1. \A x \in ToSet(Tail(q)) : \E i \in DOMAIN Tail(q) : x = Tail(q)[i]
      BY DEF ToSet
    <3>. QED
      BY <1>7, <3>1
  <2>. QED
    BY <1>8, <2>1, <2>2
<1>. QED
  BY <1>4, <1>9 DEF Now, q

(* What a step of one task has to show.                                    *)
LEMMA OneTask ==
  ASSUME TInv, NEW t \in Tasks, NEW w \in Task, task' = [task EXCEPT ![t] = w],
         w.pc \notin {"idle", "end"} => w.queue # <<>>,
         w.pc = "write" /\ w.found # NoRow =>
           w.kpi[Head(w.queue)] # NoRow \/ kpi[Head(w.queue)] # NoRow,
         \A e \in Employees : kpi[e] # NoRow => kpi'[e] # NoRow
  PROVE  task' \in [Tasks -> Task] /\ WorkOK'
<1>1. task \in [Tasks -> Task]
  BY DEF TInv, TypeOK
<1>2. task' \in [Tasks -> Task] /\ task'[t] = w /\ \A u \in Tasks \ {t} : task'[u] = task[u]
  BY <1>1
<1>3. ASSUME NEW u \in Tasks
      PROVE  /\ (task[u].pc \notin {"idle", "end"} => task[u].queue # <<>>)'
             /\ (At(u, "write") /\ task[u].found # NoRow => KpiRow(u) # NoRow)'
  <2>1. CASE u = t
    <3>1. w.pc \notin {"idle", "end"} => Head(w.queue) \in Employees
      <4>1. w.queue \in Seq(Employees)
        BY DEF Task
      <4>. QED
        BY <4>1
    <3>. QED
      BY <1>2, <2>1, <3>1 DEF At, KpiRow, Now
  <2>2. CASE u # t
    <3>1. task'[u] = task[u]
      BY <1>2, <2>2
    <3>2. task[u].pc \notin {"idle", "end"} => task[u].queue # <<>>
      BY DEF TInv, WorkOK
    <3>3. At(u, "write") /\ task[u].found # NoRow => KpiRow(u) # NoRow /\ Now(u) \in Employees
      BY NowIsEmployee DEF TInv, WorkOK, At
    <3>. QED
      BY <3>1, <3>2, <3>3 DEF At, KpiRow, Now
  <2>. QED
    BY <2>1, <2>2
<1>. QED
  BY <1>2, <1>3 DEF WorkOK

(* A step that writes none of the tables leaves their types.               *)
Tabled == UNCHANGED <<figure, monthly, kpi, connected, muted, edits, changes>>

LEMMA TInvOfTask ==
  ASSUME TInv, RulesOK', Tabled,
         task' \in [Tasks -> Task], WorkOK',
         lock' \in [Tables \X Employees -> Tasks \cup {NoTask}],
         report' \in Report
  PROVE  TInv'
BY DEF TInv, TypeOK, RulesOK, Tabled

LEMMA LockedType ==
  ASSUME TInv, NEW t \in Tasks, NEW table \in Tables, task[t].queue # <<>>
  PROVE  Locked(t, table) \in [Tables \X Employees -> Tasks \cup {NoTask}]
BY NowIsEmployee DEF Locked, TInv, TypeOK

LEMMA ReleasedType ==
  ASSUME TInv, NEW t \in Tasks
  PROVE  Released(t) \in [Tables \X Employees -> Tasks \cup {NoTask}]
BY DEF Released, TInv, TypeOK

LEMMA RestType ==
  ASSUME TInv, RulesOK', NEW t \in Tasks, Fails(t) \/ Refused(t), Tabled
  PROVE  TInv'
<1>1. task' = [task EXCEPT ![t] = Idle] /\ lock' = Released(t)
  BY DEF Fails, Refused
<1>2. report \in Report
  BY DEF TInv, TypeOK
<1>3. report' \in Report
  BY <1>2 DEF Fails, Refused, Report
<1>4. Idle.pc = "idle"
  BY DEF Idle
<1>5. task' \in [Tasks -> Task] /\ WorkOK'
  BY <1>1, <1>4, IdleIsTask, OneTask DEF Tabled
<1>. QED
  BY <1>1, <1>3, <1>5, ReleasedType, TInvOfTask

LEMMA SumType ==
  ASSUME TInv, RulesOK', NEW t \in Tasks, Sum(t)
  PROVE  TInv'
<1> DEFINE w == [task[t] EXCEPT !.base = figure[Now(t)], !.seen = Monthly(t),
                   !.pc = IF Monthly(t) = figure[Now(t)] THEN "rate" ELSE "store",
                   !.from = IF task[t].round = 1 THEN figure[Now(t)] ELSE task[t].from,
                   !.texts = IF task[t].round = 1 THEN {written} ELSE task[t].texts]
<1>1. task[t] \in Task /\ task[t].pc = "sum"
  BY DEF Sum, At, TInv, TypeOK
<1>2. task[t].queue # <<>>
  BY <1>1 DEF TInv, WorkOK
<1>3. Now(t) \in Employees
  BY <1>2, NowIsEmployee
<1>4. figure[Now(t)] \in Nat /\ Monthly(t) \in Nat \cup {NoRow} /\ {written} \in SUBSET Texts
  BY <1>1, <1>3 DEF TInv, TypeOK, Monthly, Task
<1>5. /\ w \in Task /\ w.queue # <<>> /\ w.pc \in {"rate", "store"}
  BY <1>1, <1>2, <1>4 DEF Task
<1>6. task' = [task EXCEPT ![t] = w]
  BY DEF Sum
<1> HIDE DEF w
<1>7. Tabled /\ lock' = lock /\ report' = report
  BY DEF Sum, Tabled
<1>8. task' \in [Tasks -> Task] /\ WorkOK'
  BY <1>5, <1>6, <1>7, OneTask DEF Tabled
<1>. QED
  BY <1>7, <1>8, TInvOfTask DEF TInv, TypeOK

LEMMA StoreType ==
  ASSUME TInv, RulesOK', NEW t \in Tasks, Store(t)
  PROVE  TInv'
<1> DEFINE rows == [e \in Employees |-> IF e = Now(t) THEN task[t].base ELSE task[t].monthly[e]]
           w == [task[t] EXCEPT !.pc = "rate", !.seen = NoRow, !.monthly = rows]
<1>1. task[t] \in Task /\ task[t].pc = "store"
  BY DEF Store, At, TInv, TypeOK
<1>2. task[t].queue # <<>>
  BY <1>1 DEF TInv, WorkOK
<1>3. rows \in [Employees -> Nat \cup {NoRow}]
  BY <1>1 DEF Task
<1>4. task' = [task EXCEPT ![t] = w]
  BY DEF Store
<1> HIDE DEF rows
<1>5. /\ w \in Task /\ w.queue # <<>> /\ w.pc = "rate"
  BY <1>1, <1>2, <1>3 DEF Task
<1> HIDE DEF w
<1>6. Tabled /\ lock' = Locked(t, "monthly") /\ report' = report
  BY DEF Store, Tabled
<1>7. task' \in [Tasks -> Task] /\ WorkOK'
  BY <1>4, <1>5, <1>6, OneTask DEF Tabled
<1>8. lock' \in [Tables \X Employees -> Tasks \cup {NoTask}]
  BY <1>2, <1>6, LockedType DEF Tables
<1>. QED
  BY <1>6, <1>7, <1>8, TInvOfTask DEF TInv, TypeOK

LEMMA RateType ==
  ASSUME TInv, RulesOK', NEW t \in Tasks, Rate(t)
  PROVE  TInv'
<1> DEFINE w == [task[t] EXCEPT !.pc = "write", !.seen = NoRow,
                   !.percent = EarnedPercent(task[t].base), !.found = KpiRow(t)]
<1>1. task[t] \in Task /\ task[t].pc = "rate"
  BY DEF Rate, At, TInv, TypeOK
<1>2. task[t].queue # <<>>
  BY <1>1 DEF TInv, WorkOK
<1>3. Now(t) \in Employees
  BY <1>2, NowIsEmployee
<1>4. EarnedPercent(task[t].base) \in Percents
  <2>1. task[t].base \in Nat
    BY <1>1 DEF Task
  <2>. QED
    BY <2>1, EarnedOfText DEF TInv
<1>5. KpiRow(t) \in Kpi \cup {NoRow}
  <2>1. task[t].kpi[Now(t)] \in Kpi \cup {NoRow}
    BY <1>1, <1>3 DEF Task
  <2>2. kpi[Now(t)] \in Kpi \cup {NoRow}
    BY <1>3 DEF TInv, TypeOK
  <2>. QED
    BY <2>1, <2>2 DEF KpiRow
<1>6. task' = [task EXCEPT ![t] = w]
  BY DEF Rate
<1>7. /\ w \in Task /\ w.queue # <<>> /\ w.pc = "write"
      /\ w.found = KpiRow(t) /\ w.kpi = task[t].kpi /\ w.queue = task[t].queue
  BY <1>1, <1>2, <1>4, <1>5 DEF Task
<1>8. w.found # NoRow => w.kpi[Head(w.queue)] # NoRow \/ kpi[Head(w.queue)] # NoRow
  BY <1>7 DEF KpiRow, Now
<1> HIDE DEF w
<1>9. Tabled /\ lock' = lock /\ report' = report
  BY DEF Rate, Tabled
<1>10. task' \in [Tasks -> Task] /\ WorkOK'
  BY <1>6, <1>7, <1>8, <1>9, OneTask DEF Tabled
<1>. QED
  BY <1>9, <1>10, TInvOfTask DEF TInv, TypeOK

LEMMA UpdatedIsKpi ==
  ASSUME NEW row \in Kpi \cup {NoRow}, NEW found \in Kpi \cup {NoRow}, NEW new \in Kpi,
         found # NoRow => row # NoRow
  PROVE  Updated(row, found, new) \in Kpi
<1>1. CASE found = NoRow
  BY <1>1 DEF Updated
<1>2. CASE found # NoRow
  BY <1>2 DEF Updated, Kpi
<1>. QED
  BY <1>1, <1>2

(* The row that a task writes.                                             *)
LEMMA WriteRow ==
  ASSUME TInv, NEW t \in Tasks, At(t, "write")
  PROVE  /\ Updated(KpiRow(t), task[t].found, Figures(t)) \in Kpi
         /\ Figures(t) \in Kpi
         /\ task[t].queue # <<>> /\ Now(t) \in Employees
<1>1. task[t] \in Task /\ task[t].pc = "write"
  BY DEF At, TInv, TypeOK
<1>2. task[t].queue # <<>>
  BY <1>1 DEF TInv, WorkOK
<1>3. Now(t) \in Employees
  BY <1>2, NowIsEmployee
<1>4. Figures(t) \in Kpi /\ task[t].found \in Kpi \cup {NoRow}
  BY <1>1 DEF Task, Kpi, Figures
<1>5. KpiRow(t) \in Kpi \cup {NoRow}
  <2>1. task[t].kpi[Now(t)] \in Kpi \cup {NoRow}
    BY <1>1, <1>3 DEF Task
  <2>2. kpi[Now(t)] \in Kpi \cup {NoRow}
    BY <1>3 DEF TInv, TypeOK
  <2>. QED
    BY <2>1, <2>2 DEF KpiRow
<1>6. task[t].found # NoRow => KpiRow(t) # NoRow
  BY DEF TInv, WorkOK
<1>. QED
  BY <1>2, <1>3, <1>4, <1>5, <1>6, UpdatedIsKpi

LEMMA WriteType ==
  ASSUME TInv, RulesOK', NEW t \in Tasks, Write(t)
  PROVE  TInv'
<1> DEFINE row == Updated(KpiRow(t), task[t].found, Figures(t))
           rows == [e \in Employees |-> IF e = Now(t) THEN row ELSE task[t].kpi[e]]
           w == [task[t] EXCEPT !.found = NoRow, !.round = 2,
                   !.pc = IF task[t].round = 1 THEN "sum" ELSE "tell",
                   !.rich = IF task[t].round = 1 THEN Figures(t) ELSE task[t].rich,
                   !.kpi = rows]
<1>1. task[t] \in Task /\ At(t, "write")
  BY DEF Write, TInv, TypeOK
<1>2. row \in Kpi /\ Figures(t) \in Kpi /\ task[t].queue # <<>>
  BY <1>1, WriteRow
<1>3. task' = [task EXCEPT ![t] = w]
  BY DEF Write
<1> HIDE DEF row
<1>4. rows \in [Employees -> Kpi \cup {NoRow}]
  BY <1>1, <1>2 DEF Task
<1> HIDE DEF rows
<1>5. /\ w \in Task /\ w.queue # <<>> /\ w.pc \in {"sum", "tell"}
  BY <1>1, <1>2, <1>4 DEF Task
<1> HIDE DEF w
<1>6. Tabled /\ lock' = Locked(t, "kpi") /\ report' = report
  BY DEF Write, Tabled
<1>7. task' \in [Tasks -> Task] /\ WorkOK'
  BY <1>3, <1>5, <1>6, OneTask DEF Tabled
<1>8. lock' \in [Tables \X Employees -> Tasks \cup {NoTask}]
  BY <1>2, <1>6, LockedType DEF Tables
<1>. QED
  BY <1>6, <1>7, <1>8, TInvOfTask DEF TInv, TypeOK

LEMMA TellKpiType ==
  ASSUME TInv, RulesOK', NEW t \in Tasks, TellKpi(t)
  PROVE  TInv'
<1> DEFINE w == [task[t] EXCEPT !.pc = IF t = Job THEN "grade" ELSE "end", !.round = 1,
                   !.base = 0, !.percent = 0, !.rich = Idle.rich, !.from = 0, !.texts = {}]
<1>1. task[t] \in Task /\ task[t].pc = "tell"
  BY DEF TellKpi, At, TInv, TypeOK
<1>2. task[t].queue # <<>>
  BY <1>1 DEF TInv, WorkOK
<1>3. Idle.rich \in Kpi /\ 0 \in Percents
  BY IdleIsTask, RulesAssumption DEF RulesAssumption, Task
<1>4. task' = [task EXCEPT ![t] = w]
  BY DEF TellKpi
<1>5. /\ w \in Task /\ w.queue # <<>> /\ w.pc \in {"grade", "end"}
  BY <1>1, <1>2, <1>3 DEF Task
<1> HIDE DEF w
<1>6. Tabled /\ lock' = lock /\ report' = report
  BY DEF TellKpi, Tabled
<1>7. task' \in [Tasks -> Task] /\ WorkOK'
  BY <1>4, <1>5, <1>6, OneTask DEF Tabled
<1>. QED
  BY <1>6, <1>7, TInvOfTask DEF TInv, TypeOK

LEMMA TellStatsType ==
  ASSUME TInv, RulesOK', TellStats
  PROVE  TInv'
<1> DEFINE w == [task[Job] EXCEPT !.pc = "sum"]
<1>1. Job \in Tasks /\ task[Job] \in Task /\ task[Job].pc = "stats"
  BY DEF TellStats, At, TInv, TypeOK, Tasks
<1>2. task[Job].queue # <<>>
  BY <1>1 DEF TInv, WorkOK
<1>3. task' = [task EXCEPT ![Job] = w]
  BY DEF TellStats
<1>4. /\ w \in Task /\ w.queue # <<>> /\ w.pc = "sum"
  BY <1>1, <1>2 DEF Task
<1> HIDE DEF w
<1>5. Tabled /\ lock' = lock /\ report' = report
  BY DEF TellStats, Tabled
<1>6. task' \in [Tasks -> Task] /\ WorkOK'
  BY <1>1, <1>3, <1>4, <1>5, OneTask DEF Tabled
<1>. QED
  BY <1>5, <1>6, TInvOfTask DEF TInv, TypeOK

LEMMA TellGradeType ==
  ASSUME TInv, RulesOK', TellGrade
  PROVE  TInv'
<1> DEFINE rest == Tail(task[Job].queue)
           w == [task[Job] EXCEPT !.queue = rest, !.pc = IF rest = <<>> THEN "end" ELSE "stats"]
<1>1. Job \in Tasks /\ task[Job] \in Task /\ task[Job].pc = "grade"
  BY DEF TellGrade, At, TInv, TypeOK, Tasks
<1>2. task[Job].queue # <<>>
  BY <1>1 DEF TInv, WorkOK
<1>3. rest \in Seq(Employees) /\ Now(Job) \in Employees
  BY <1>1, <1>2, NowIsEmployee
<1>4. task' = [task EXCEPT ![Job] = w]
  BY DEF TellGrade
<1> HIDE DEF rest
<1>5. /\ w \in Task /\ w.pc \in {"end", "stats"} /\ (w.pc # "end" => w.queue # <<>>)
  BY <1>1, <1>3 DEF Task
<1> HIDE DEF w
<1>6. Tabled /\ lock' = lock /\ report' = [report EXCEPT !.told = @ \cup {Now(Job)}]
  BY DEF TellGrade, Tabled
<1>7. task' \in [Tasks -> Task] /\ WorkOK'
  BY <1>1, <1>4, <1>5, <1>6, OneTask DEF Tabled
<1>8. report' \in Report
  BY <1>3, <1>6 DEF Report, TInv, TypeOK
<1>. QED
  BY <1>6, <1>7, <1>8, TInvOfTask DEF TInv, TypeOK

LEMMA CommitType ==
  ASSUME TInv, RulesOK', NEW t \in Tasks, Commit(t)
  PROVE  TInv'
<1>1. task[t] \in Task
  BY DEF TInv, TypeOK
<1>2. monthly' \in [Employees -> Nat \cup {NoRow}]
  BY <1>1 DEF Commit, TInv, TypeOK, Task
<1>3. kpi' \in [Employees -> Kpi \cup {NoRow}] /\ \A e \in Employees : kpi[e] # NoRow => kpi'[e] # NoRow
  BY <1>1 DEF Commit, TInv, TypeOK, Task
<1>4. task' = [task EXCEPT ![t] = Idle] /\ Idle.pc = "idle"
  BY DEF Commit, Idle
<1>5. task' \in [Tasks -> Task] /\ WorkOK'
  BY <1>3, <1>4, IdleIsTask, OneTask
<1>6. lock' \in [Tables \X Employees -> Tasks \cup {NoTask}]
  BY ReleasedType DEF Commit
<1>7. report' \in Report
  BY DEF Commit, TInv, TypeOK, Report
<1>. QED
  BY <1>2, <1>3, <1>5, <1>6, <1>7 DEF TInv, TypeOK, RulesOK, Commit

LEMMA ViewsType ==
  ASSUME TInv, RulesOK', NEW h \in Handlers, NEW e \in Employees, Views(h, e)
  PROVE  TInv'
<1> DEFINE w == [Idle EXCEPT !.pc = "sum", !.queue = <<e>>]
<1>1. w \in Task /\ w.queue # <<>> /\ w.pc = "sum"
  <2>1. <<e>> \in Seq(Employees) /\ <<e>> # <<>>
    OBVIOUS
  <2>. QED
    BY <2>1, IdleIsTask DEF Task
<1>2. task' = [task EXCEPT ![h] = w] /\ h \in Tasks
  BY DEF Views, Tasks
<1> HIDE DEF w
<1>3. Tabled /\ lock' = lock
  BY DEF Views, Tabled
<1>4. task' \in [Tasks -> Task] /\ WorkOK'
  BY <1>1, <1>2, <1>3, OneTask DEF Tabled
<1>5. report' \in Report
  BY DEF Views, TInv, TypeOK, Report
<1>. QED
  BY <1>3, <1>4, <1>5, TInvOfTask DEF TInv, TypeOK

LEMMA JobStartsType ==
  ASSUME TInv, RulesOK', JobStarts
  PROVE  TInv'
<1>1. PICK q \in SetToSeqs(connected \ muted) :
        task' = [task EXCEPT ![Job] = [Idle EXCEPT !.queue = q,
                                         !.pc = IF q = <<>> THEN "end" ELSE "stats"]]
  BY DEF JobStarts
<1> DEFINE w == [Idle EXCEPT !.queue = q, !.pc = IF q = <<>> THEN "end" ELSE "stats"]
<1>2. connected \ muted \in SUBSET Employees
  BY DEF TInv, TypeOK
<1>3. q \in Seq(Employees)
  BY <1>2, QueueOfSet
<1>4. /\ w \in Task /\ w.pc \in {"end", "stats"} /\ (w.pc # "end" => w.queue # <<>>)
  BY <1>3, IdleIsTask DEF Task
<1>5. task' = [task EXCEPT ![Job] = w] /\ Job \in Tasks
  BY <1>1 DEF Tasks
<1> HIDE DEF w
<1>6. Tabled /\ lock' = lock
  BY DEF JobStarts, Tabled
<1>7. task' \in [Tasks -> Task] /\ WorkOK'
  BY <1>4, <1>5, <1>6, OneTask DEF Tabled
<1>8. report' \in Report
  BY <1>2 DEF JobStarts, TInv, TypeOK, Report
<1>. QED
  BY <1>6, <1>7, <1>8, TInvOfTask DEF TInv, TypeOK

(* An edit changes nothing of the tasks but their history.                 *)
LEMMA EditTasks ==
  ASSUME TInv, NEW text \in Texts, Edit(text)
  PROVE  /\ task' \in [Tasks -> Task]
         /\ \A t \in Tasks : /\ task'[t].pc = task[t].pc /\ task'[t].queue = task[t].queue
                             /\ task'[t].seen = task[t].seen /\ task'[t].found = task[t].found
                             /\ task'[t].monthly = task[t].monthly /\ task'[t].kpi = task[t].kpi
<1>1. task' = [t \in Tasks |-> IF task[t].texts = {} THEN task[t]
                               ELSE [task[t] EXCEPT !.texts = task[t].texts \cup {text}]]
  BY DEF Edit
<1>2. ASSUME NEW t \in Tasks
      PROVE  /\ task'[t] \in Task
             /\ task'[t].pc = task[t].pc /\ task'[t].queue = task[t].queue
             /\ task'[t].seen = task[t].seen /\ task'[t].found = task[t].found
             /\ task'[t].monthly = task[t].monthly /\ task'[t].kpi = task[t].kpi
  <2>1. task[t] \in Task
    BY DEF TInv, TypeOK
  <2>2. task[t].texts \cup {text} \in SUBSET Texts
    BY <2>1 DEF Task
  <2>. QED
    BY <1>1, <2>1, <2>2 DEF Task
<1>. QED
  BY <1>1, <1>2

LEMMA EditType ==
  ASSUME TInv, RulesOK', NEW text \in Texts, Edit(text)
  PROVE  TInv'
<1>1. task' \in [Tasks -> Task] /\ UNCHANGED <<figure, monthly, kpi, connected, muted, lock, changes, report>>
  BY EditTasks DEF Edit
<1>2. WorkOK'
  BY <1>1, EditTasks DEF TInv, WorkOK, At, KpiRow, Now
<1>3. edits' \in Nat
  BY DEF Edit, TInv, TypeOK
<1>. QED
  BY <1>1, <1>2, <1>3 DEF TInv, TypeOK, RulesOK

LEMMA RestartType ==
  ASSUME TInv, RulesOK', Restart
  PROVE  TInv'
<1>1. /\ task' = [t \in Tasks |-> Idle] /\ Idle.pc = "idle"
      /\ lock' = [r \in Tables \X Employees |-> NoTask]
      /\ UNCHANGED <<figure, monthly, kpi, connected, muted, changes>>
  BY DEF Restart, Idle
<1>2. task' \in [Tasks -> Task] /\ WorkOK'
  BY <1>1, IdleIsTask DEF WorkOK, At
<1>3. lock' \in [Tables \X Employees -> Tasks \cup {NoTask}]
  BY <1>1
<1>4. report' \in Report /\ edits' \in Nat
  BY DEF Restart, TInv, TypeOK, Report
<1>. QED
  BY <1>1, <1>2, <1>3, <1>4 DEF TInv, TypeOK, RulesOK

LEMMA ChangesType ==
  ASSUME TInv, RulesOK', NEW e \in Employees,
         Refreshed(e) \/ Disconnects(e) \/ Connects(e) \/ Toggle(e)
  PROVE  TInv'
<1>1. UNCHANGED <<rule, monthly, kpi, lock, task, edits, written, report>>
  BY DEF Refreshed, Disconnects, Connects, Toggle
<1>2. changes' \in Nat
  BY DEF Refreshed, Disconnects, Connects, Toggle, Changed, TInv, TypeOK
<1>3. figure' \in [Employees -> Nat]
  BY DEF Refreshed, Disconnects, Connects, Toggle, TInv, TypeOK
<1>4. connected' \in SUBSET Employees /\ muted' \in SUBSET Employees
  BY DEF Refreshed, Disconnects, Connects, Toggle, TInv, TypeOK
<1>5. WorkOK'
  BY <1>1 DEF TInv, WorkOK, At, KpiRow, Now
<1>. QED
  BY <1>1, <1>2, <1>3, <1>4, <1>5 DEF TInv, TypeOK, RulesOK

LEMMA InitType == Init => TInv
<1> SUFFICES ASSUME Init PROVE TInv
  OBVIOUS
<1>1. RulesOK
  BY InitRules
<1>2. task \in [Tasks -> Task] /\ WorkOK
  BY IdleIsTask DEF Init, WorkOK, At, Idle
<1>. QED
  BY <1>1, <1>2 DEF Init, TInv, TypeOK, RulesOK, Report

LEMMA NextType == TInv /\ [Next]_vars => TInv'
<1> SUFFICES ASSUME TInv, [Next]_vars PROVE TInv'
  OBVIOUS
<1>1. RulesOK'
  BY NextRules DEF TInv
<1>2. ASSUME NEW text \in Texts, Edit(text) PROVE TInv'
  BY <1>1, <1>2, EditType
<1>3. CASE Restart
  BY <1>1, <1>3, RestartType
<1>4. ASSUME NEW e \in Employees, Refreshed(e) \/ Disconnects(e) \/ Connects(e) \/ Toggle(e)
      PROVE  TInv'
  BY <1>1, <1>4, ChangesType
<1>5. ASSUME NEW h \in Handlers, NEW e \in Employees, Views(h, e) PROVE TInv'
  BY <1>1, <1>5, ViewsType
<1>6. CASE JobStarts
  BY <1>1, <1>6, JobStartsType
<1>7. CASE TellStats
  BY <1>1, <1>7, TellStatsType
<1>8. CASE TellGrade
  BY <1>1, <1>8, TellGradeType
<1>9. ASSUME NEW t \in Tasks, Collide(t) \/ DeadlockAbort(t) \/ Refused(t) PROVE TInv'
  BY <1>1, <1>9, RestType DEF Collide, DeadlockAbort, Refused, Tabled
<1>10. ASSUME NEW t \in Tasks, Sum(t) \/ Store(t) \/ Rate(t) \/ Write(t) \/ TellKpi(t) \/ Commit(t)
       PROVE  TInv'
  BY <1>1, <1>10, SumType, StoreType, RateType, WriteType, TellKpiType, CommitType
<1>11. CASE UNCHANGED vars
  BY <1>11 DEF vars, TInv, TypeOK, RulesOK, Active, WorkOK, At, KpiRow, Now
<1>. QED
  BY <1>2, <1>3, <1>4, <1>5, <1>6, <1>7, <1>8, <1>9, <1>10, <1>11 DEF Next

(* Every state of the rules, the figures, the rows and locks and of each   *)
(* calculation has its type: in particular a percentage that is worked out *)
(* is one that a rule can have, and a row that was read is still there     *)
(* when its changed columns are written (calculate_employee_month).        *)
THEOREM TypeCorrect == Spec => []TypeOK
<1>1. TInv => TypeOK
  BY DEF TInv
<1>. QED
  BY <1>1, InitType, NextType, PTL DEF Spec

-----------------------------------------------------------------------------
(* Locks.                                                                  *)

(* Tasks that go on keep their employee.                                   *)
GoesOn(t) ==
  InFlight(t) => /\ InFlight(t)'
                 /\ task[t].queue # <<>> => task'[t].queue = task[t].queue

Owned(e, t) ==
  /\ InFlight(t)
  /\ \/ task[t].queue # <<>> /\ e = Now(t)
     \/ t = Job /\ e \in report.told

LocksOwned ==
  \A table \in Tables, e \in Employees, t \in Tasks : lock[<<table, e>>] = t => Owned(e, t)

LEMMA LocksKept ==
  ASSUME TInv, LocksOwned, UNCHANGED lock, report'.told = report.told,
         \A t \in Tasks : GoesOn(t)
  PROVE  LocksOwned'
<1> SUFFICES ASSUME NEW table \in Tables, NEW e \in Employees, NEW v \in Tasks,
                    lock'[<<table, e>>] = v
             PROVE  Owned(e, v)'
  BY DEF LocksOwned
<1>1. Owned(e, v)
  BY DEF LocksOwned
<1>. QED
  BY <1>1 DEF Owned, GoesOn, Now

LEMMA LocksReleased ==
  ASSUME TInv, LocksOwned, NEW t \in Tasks, lock' = Released(t), report'.told = report.told,
         \A u \in Tasks \ {t} : task'[u] = task[u]
  PROVE  LocksOwned'
<1> SUFFICES ASSUME NEW table \in Tables, NEW e \in Employees, NEW v \in Tasks,
                    lock'[<<table, e>>] = v
             PROVE  Owned(e, v)'
  BY DEF LocksOwned
<1>1. v # t /\ lock[<<table, e>>] = v
  BY TasksAssumption DEF TasksAssumption, Released
<1>2. Owned(e, v)
  BY <1>1 DEF LocksOwned
<1>. QED
  BY <1>1, <1>2 DEF Owned, InFlight, Now

LEMMA LocksTaken ==
  ASSUME TInv, LocksOwned, NEW t \in Tasks, NEW table \in Tables, InFlight(t),
         task[t].queue # <<>>, lock' = Locked(t, table), report'.told = report.told,
         \A u \in Tasks : GoesOn(u)
  PROVE  LocksOwned'
<1> SUFFICES ASSUME NEW place \in Tables, NEW e \in Employees, NEW v \in Tasks,
                    lock'[<<place, e>>] = v
             PROVE  Owned(e, v)'
  BY DEF LocksOwned
<1>1. CASE place = table /\ e = Now(t)
  <2>1. v = t
    BY <1>1 DEF Locked, TInv, TypeOK
  <2>. QED
    BY <1>1, <2>1 DEF Owned, GoesOn, Now
<1>2. CASE ~ (place = table /\ e = Now(t))
  <2>1. lock[<<place, e>>] = v
    BY <1>2 DEF Locked, TInv, TypeOK
  <2>2. Owned(e, v)
    BY <2>1 DEF LocksOwned
  <2>. QED
    BY <2>2 DEF Owned, GoesOn, Now
<1>. QED
  BY <1>1, <1>2

(* Steps of a calculation keep the employee that it is about.              *)
LEMMA StepGoesOn ==
  ASSUME TInv, NEW t \in Tasks, Sum(t) \/ Store(t) \/ Rate(t) \/ Write(t) \/ TellKpi(t)
  PROVE  /\ InFlight(t) /\ task[t].queue # <<>>
         /\ task'[t].queue = task[t].queue /\ task'[t].pc \notin {"idle"}
         /\ \A u \in Tasks \ {t} : task'[u] = task[u]
<1>1. task[t] \in Task /\ task \in [Tasks -> Task]
  BY DEF TInv, TypeOK
<1>2. task[t].pc \in {"sum", "store", "rate", "write", "tell"}
  BY DEF Sum, Store, Rate, Write, TellKpi, At
<1>3. InFlight(t) /\ task[t].queue # <<>>
  BY <1>2 DEF InFlight, TInv, WorkOK
<1>4. CASE Sum(t)
  BY <1>1, <1>3, <1>4 DEF Sum, Task
<1>5. CASE Store(t)
  BY <1>1, <1>3, <1>5 DEF Store, Task
<1>6. CASE Rate(t)
  BY <1>1, <1>3, <1>6 DEF Rate, Task
<1>7. CASE Write(t)
  BY <1>1, <1>3, <1>7 DEF Write, Task
<1>8. CASE TellKpi(t)
  BY <1>1, <1>3, <1>8 DEF TellKpi, Task
<1>. QED
  BY <1>4, <1>5, <1>6, <1>7, <1>8

LEMMA InitLocks == Init => LocksOwned
BY TasksAssumption DEF Init, LocksOwned, TasksAssumption

LEMMA NextLocks == TInv /\ LocksOwned /\ [Next]_vars => LocksOwned'
<1> SUFFICES ASSUME TInv, LocksOwned, [Next]_vars PROVE LocksOwned'
  OBVIOUS
<1>0. task \in [Tasks -> Task] /\ Job \in Tasks /\ report \in Report
  BY DEF TInv, TypeOK, Tasks
<1>1. ASSUME NEW text \in Texts, Edit(text) PROVE LocksOwned'
  <2>1. UNCHANGED lock /\ report' = report
    BY <1>1 DEF Edit
  <2>. QED
    BY <1>1, <2>1, EditTasks, LocksKept DEF GoesOn, InFlight
<1>2. CASE Restart
  BY <1>2, TasksAssumption DEF Restart, LocksOwned, TasksAssumption
<1>3. ASSUME NEW e \in Employees, Refreshed(e) \/ Disconnects(e) \/ Connects(e) \/ Toggle(e)
      PROVE  LocksOwned'
  <2>1. UNCHANGED <<lock, report, task>>
    BY <1>3 DEF Refreshed, Disconnects, Connects, Toggle
  <2>. QED
    BY <2>1, LocksKept DEF GoesOn, InFlight
<1>4. ASSUME NEW h \in Handlers, NEW e \in Employees, Views(h, e) PROVE LocksOwned'
  <2>1. UNCHANGED lock /\ ~ InFlight(h) /\ \A u \in Tasks \ {h} : task'[u] = task[u]
    BY <1>0, <1>4 DEF Views
  <2>2. report'.told = report.told
    BY <1>0, <1>4 DEF Views, Report
  <2>. QED
    BY <2>1, <2>2, LocksKept DEF GoesOn, InFlight
<1>5. CASE JobStarts
  <2>1. UNCHANGED lock /\ ~ InFlight(Job) /\ \A u \in Tasks \ {Job} : task'[u] = task[u]
    BY <1>0, <1>5 DEF JobStarts
  <2>2. report'.told = report.told
    BY <1>0, <1>5 DEF JobStarts, Report
  <2>. QED
    BY <2>1, <2>2, LocksKept DEF GoesOn, InFlight
<1>6. CASE TellStats
  <2>1. task[Job] \in Task
    BY <1>0
  <2>2. task'[Job].queue = task[Job].queue /\ task'[Job].pc = "sum"
    BY <1>0, <1>6, <2>1 DEF TellStats, Task
  <2>3. UNCHANGED <<lock, report>> /\ \A u \in Tasks \ {Job} : task'[u] = task[u]
    BY <1>0, <1>6 DEF TellStats
  <2>. QED
    BY <2>2, <2>3, LocksKept DEF GoesOn, InFlight
<1>7. CASE TellGrade
  <2>1. /\ UNCHANGED lock /\ report'.told = report.told \cup {Now(Job)}
        /\ \A u \in Tasks \ {Job} : task'[u] = task[u]
    BY <1>0, <1>7 DEF TellGrade, Report
  <2>2. task[Job] \in Task
    BY <1>0
  <2>3. task'[Job].pc \in {"stats", "end"}
    BY <1>0, <1>7, <2>2 DEF TellGrade, Task
  <2> SUFFICES ASSUME NEW table \in Tables, NEW e \in Employees, NEW v \in Tasks,
                      lock'[<<table, e>>] = v
               PROVE  Owned(e, v)'
    BY DEF LocksOwned
  <2>4. Owned(e, v)
    BY <2>1 DEF LocksOwned
  <2>5. CASE v = Job
    BY <2>1, <2>3, <2>4, <2>5 DEF Owned, InFlight
  <2>6. CASE v # Job
    BY <2>1, <2>4, <2>6 DEF Owned, InFlight, Now
  <2>. QED
    BY <2>5, <2>6
<1>8. ASSUME NEW t \in Tasks, Fails(t) \/ Refused(t) \/ Commit(t) PROVE LocksOwned'
  <2>1. lock' = Released(t) /\ \A u \in Tasks \ {t} : task'[u] = task[u]
    BY <1>0, <1>8 DEF Fails, Refused, Commit
  <2>2. report'.told = report.told
    BY <1>0, <1>8 DEF Fails, Refused, Commit, Report
  <2>. QED
    BY <2>1, <2>2, LocksReleased
<1>9. ASSUME NEW t \in Tasks, Sum(t) \/ Rate(t) \/ TellKpi(t) PROVE LocksOwned'
  <2>1. UNCHANGED <<lock, report>>
    BY <1>9 DEF Sum, Rate, TellKpi
  <2>. QED
    BY <1>9, <2>1, StepGoesOn, LocksKept DEF GoesOn, InFlight
<1>10. ASSUME NEW t \in Tasks, Store(t) \/ Write(t) PROVE LocksOwned'
  <2>1. PICK table \in Tables : lock' = Locked(t, table) /\ report' = report
    BY <1>10 DEF Store, Write, Tables
  <2>2. InFlight(t) /\ task[t].queue # <<>> /\ \A u \in Tasks : GoesOn(u)
    BY <1>10, StepGoesOn DEF GoesOn, InFlight
  <2>. QED
    BY <2>1, <2>2, LocksTaken
<1>11. CASE UNCHANGED vars
  BY <1>11, LocksKept DEF vars, GoesOn, InFlight
<1>. QED
  BY <1>1, <1>2, <1>3, <1>4, <1>5, <1>6, <1>7, <1>8, <1>9, <1>10, <1>11
     DEF Next, Collide, DeadlockAbort

(* A row is never left locked: its holder still runs, and is at the        *)
(* employee of the row or, the job, has been (the session of a task ends   *)
(* with a commit or a rollback, whatever becomes of it).                   *)
THEOREM LocksAlwaysOwned == Spec => []LocksHaveOwner
<1>1. TInv /\ LocksOwned => LocksHaveOwner
  <2> SUFFICES ASSUME TInv, LocksOwned, NEW table \in Tables, NEW e \in Employees,
                      lock[<<table, e>>] # NoTask
               PROVE  Owned(e, lock[<<table, e>>])
    BY Zenon DEF LocksHaveOwner, Owned
  <2>1. lock[<<table, e>>] \in Tasks
    BY DEF TInv, TypeOK
  <2>. QED
    BY <2>1 DEF LocksOwned
<1>. QED
  BY <1>1, InitType, NextType, InitLocks, NextLocks, PTL DEF Spec

-----------------------------------------------------------------------------
(* The job and those it has to tell.                                       *)

(* The invited are those told and those still queued; the rows of everyone *)
(* told, and of the one whose KPI is being told, are among the pending.    *)
Underway ==
  /\ report.invited = report.told \cup ToSet(task[Job].queue)
  /\ At(Job, "end") => task[Job].queue = <<>>
  /\ \A e \in report.told : task[Job].kpi[e] # NoRow
  /\ task[Job].pc \in {"tell", "grade"} => task[Job].kpi[Now(Job)] # NoRow

JobOK ==
  /\ InFlight(Job) <=> report.state = "running"
  /\ report.told \subseteq report.invited
  /\ report.state = "due" => report.told = {}
  /\ report.state = "running" => Underway
  /\ report.state = "done" =>
       report.told = report.invited /\ \A e \in report.invited : kpi[e] # NoRow

(* Steps of others.                                                        *)
LEMMA JobKept ==
  ASSUME TInv, JobOK,
         report'.state = report.state, report'.told = report.told,
         report'.invited = report.invited,
         task'[Job].pc = task[Job].pc, task'[Job].queue = task[Job].queue,
         task'[Job].kpi = task[Job].kpi,
         \A e \in Employees : kpi[e] # NoRow => kpi'[e] # NoRow
  PROVE  JobOK'
<1>1. report.invited \subseteq Employees
  BY DEF TInv, TypeOK, Report
<1>. QED
  BY <1>1 DEF JobOK, Underway, InFlight, At, Now

(* A step of the calculation for the employee whose turn it is.            *)
LEMMA JobGoesOn ==
  ASSUME TInv, JobOK, report' = report, kpi' = kpi,
         InFlight(Job), task[Job].queue # <<>>,
         task'[Job].pc \notin {"idle", "end"}, task'[Job].queue = task[Job].queue,
         \A e \in Employees : task[Job].kpi[e] # NoRow => task'[Job].kpi[e] # NoRow,
         task'[Job].pc \in {"tell", "grade"} => task'[Job].kpi[Now(Job)] # NoRow
  PROVE  JobOK'
<1>1. report.invited \subseteq Employees
  BY DEF TInv, TypeOK, Report
<1>2. report.state = "running" /\ report.told \subseteq report.invited /\ Underway
  BY DEF JobOK
<1>. QED
  BY <1>1, <1>2 DEF JobOK, Underway, InFlight, At, Now

LEMMA CalculationStep ==
  ASSUME TInv, JobOK, Sum(Job) \/ Store(Job) \/ Rate(Job) \/ Write(Job) \/ TellKpi(Job)
  PROVE  JobOK'
<1>1. Job \in Tasks /\ task \in [Tasks -> Task] /\ task[Job] \in Task
  BY DEF TInv, TypeOK, Tasks
<1>2. /\ InFlight(Job) /\ task[Job].queue # <<>> /\ task'[Job].queue = task[Job].queue
      /\ task'[Job].pc # "idle" /\ Now(Job) \in Employees
  BY <1>1, StepGoesOn, NowIsEmployee
<1>3. report' = report /\ kpi' = kpi
  BY DEF Sum, Store, Rate, Write, TellKpi
<1>4. CASE Sum(Job)
  <2>1. task'[Job].pc \in {"rate", "store"} /\ task'[Job].kpi = task[Job].kpi
    BY <1>1, <1>4 DEF Sum, Task
  <2>. QED
    BY <1>2, <1>3, <2>1, JobGoesOn
<1>5. CASE Store(Job)
  <2>1. task'[Job].pc = "rate" /\ task'[Job].kpi = task[Job].kpi
    BY <1>1, <1>5 DEF Store, Task
  <2>. QED
    BY <1>2, <1>3, <2>1, JobGoesOn
<1>6. CASE Rate(Job)
  <2>1. task'[Job].pc = "write" /\ task'[Job].kpi = task[Job].kpi
    BY <1>1, <1>6 DEF Rate, Task
  <2>. QED
    BY <1>2, <1>3, <2>1, JobGoesOn
<1>7. CASE Write(Job)
  <2> DEFINE row == Updated(KpiRow(Job), task[Job].found, Figures(Job))
  <2>1. row \in Kpi
    BY <1>1, <1>7, WriteRow DEF Write
  <2>2. row # NoRow
    BY <2>1, NoRowIsNoRow
  <2>3. /\ task'[Job].pc \in {"sum", "tell"}
        /\ task'[Job].kpi = [e \in Employees |-> IF e = Now(Job) THEN row ELSE task[Job].kpi[e]]
    BY <1>1, <1>7 DEF Write, Task
  <2> HIDE DEF row
  <2>4. /\ \A e \in Employees : task[Job].kpi[e] # NoRow => task'[Job].kpi[e] # NoRow
        /\ task'[Job].kpi[Now(Job)] # NoRow
    BY <1>2, <2>2, <2>3
  <2>. QED
    BY <1>2, <1>3, <2>3, <2>4, JobGoesOn
<1>8. CASE TellKpi(Job)
  <2>1. task'[Job].pc = "grade" /\ task'[Job].kpi = task[Job].kpi /\ task[Job].pc = "tell"
    BY <1>1, <1>8 DEF TellKpi, Task, At
  <2>2. task[Job].kpi[Now(Job)] # NoRow
    BY <1>2, <2>1 DEF JobOK, Underway
  <2>. QED
    BY <1>2, <1>3, <2>1, <2>2, JobGoesOn
<1>. QED
  BY <1>4, <1>5, <1>6, <1>7, <1>8

LEMMA TellGradeStep ==
  ASSUME TInv, JobOK, TellGrade
  PROVE  JobOK'
<1> DEFINE rest == Tail(task[Job].queue)
<1>1. Job \in Tasks /\ task \in [Tasks -> Task] /\ task[Job] \in Task /\ task[Job].pc = "grade"
  BY DEF TInv, TypeOK, Tasks, TellGrade, At
<1>2. task[Job].queue # <<>>
  BY <1>1 DEF TInv, WorkOK
<1>3. /\ Now(Job) \in Employees
      /\ ToSet(task[Job].queue) = {Now(Job)} \cup ToSet(rest)
  BY <1>1, <1>2, NowIsEmployee
<1>4. report.state = "running" /\ Underway /\ report.told \subseteq report.invited
  BY <1>1 DEF JobOK, InFlight
<1>5. /\ task'[Job].queue = rest /\ task'[Job].kpi = task[Job].kpi
      /\ task'[Job].pc = IF rest = <<>> THEN "end" ELSE "stats"
  BY <1>1 DEF TellGrade, Task
<1> HIDE DEF rest
<1>6. /\ report'.state = "running" /\ report'.invited = report.invited
      /\ report'.told = report.told \cup {Now(Job)}
  BY <1>4 DEF TellGrade, TInv, TypeOK, Report
<1>7. report'.invited = report'.told \cup ToSet(task'[Job].queue)
  BY <1>3, <1>4, <1>5, <1>6 DEF Underway
<1>8. \A e \in report'.told : task'[Job].kpi[e] # NoRow
  BY <1>1, <1>4, <1>5, <1>6 DEF Underway
<1>9. Underway'
  BY <1>5, <1>7, <1>8 DEF Underway, At
<1>. QED
  BY <1>5, <1>6, <1>7, <1>9 DEF JobOK, InFlight

LEMMA InitJob == Init => JobOK
BY DEF Init, JobOK, InFlight, Idle, Tasks

LEMMA NextJob == TInv /\ JobOK /\ [Next]_vars => JobOK'
<1> SUFFICES ASSUME TInv, JobOK, [Next]_vars PROVE JobOK'
  OBVIOUS
<1>0. task \in [Tasks -> Task] /\ Job \in Tasks /\ task[Job] \in Task /\ report \in Report
  BY DEF TInv, TypeOK, Tasks
<1>1. ASSUME NEW text \in Texts, Edit(text) PROVE JobOK'
  BY <1>0, <1>1, EditTasks, JobKept DEF Edit
<1>2. CASE Restart
  <2>1. task'[Job].pc = "idle" /\ kpi' = kpi
    BY <1>0, <1>2 DEF Restart, Idle
  <2>2. \/ report' = [report EXCEPT !.state = "lost"]
        \/ report.state # "running" /\ report' = report
    BY <1>2 DEF Restart
  <2>3. report' = [report EXCEPT !.state = "lost"] =>
          report'.state = "lost" /\ report'.told = report.told /\ report'.invited = report.invited
    BY <1>0 DEF Report
  <2>. QED
    BY <2>1, <2>2, <2>3 DEF JobOK, InFlight
<1>3. ASSUME NEW e \in Employees, Refreshed(e) \/ Disconnects(e) \/ Connects(e) \/ Toggle(e)
      PROVE  JobOK'
  <2>1. UNCHANGED <<report, task, kpi>>
    BY <1>3 DEF Refreshed, Disconnects, Connects, Toggle
  <2>. QED
    BY <2>1, JobKept
<1>4. ASSUME NEW h \in Handlers, NEW e \in Employees, Views(h, e) PROVE JobOK'
  <2>1. task'[Job] = task[Job] /\ kpi' = kpi
    BY <1>0, <1>4, TasksAssumption DEF Views, TasksAssumption
  <2>2. /\ report'.state = report.state /\ report'.told = report.told
        /\ report'.invited = report.invited
    BY <1>0, <1>4 DEF Views, Report
  <2>. QED
    BY <2>1, <2>2, JobKept
<1>5. CASE JobStarts
  <2>1. PICK q \in SetToSeqs(connected \ muted) :
          task' = [task EXCEPT ![Job] = [Idle EXCEPT !.queue = q,
                                           !.pc = IF q = <<>> THEN "end" ELSE "stats"]]
    BY <1>5 DEF JobStarts
  <2>2. task'[Job].queue = q /\ task'[Job].pc = IF q = <<>> THEN "end" ELSE "stats"
    BY <1>0, <2>1 DEF Idle
  <2>3. ToSet(q) = connected \ muted
    <3>1. connected \ muted \in SUBSET Employees
      BY DEF TInv, TypeOK
    <3>. QED
      BY <3>1, QueueOfSet
  <2>4. report.told = {} /\ kpi' = kpi
    BY <1>5 DEF JobStarts, JobOK
  <2>5. /\ report'.state = "running" /\ report'.told = {}
        /\ report'.invited = connected \ muted
    BY <1>0, <1>5, <2>4 DEF JobStarts, Report
  <2>6. Underway'
    BY <2>2, <2>3, <2>5 DEF Underway, At
  <2>. QED
    BY <2>2, <2>5, <2>6 DEF JobOK, InFlight
<1>6. CASE TellStats
  <2>1. /\ task'[Job].pc = "sum" /\ task'[Job].queue = task[Job].queue
        /\ task'[Job].kpi = task[Job].kpi /\ task[Job].pc = "stats"
    BY <1>0, <1>6 DEF TellStats, Task, At
  <2>2. InFlight(Job) /\ task[Job].queue # <<>>
    BY <1>0, <2>1 DEF InFlight, TInv, WorkOK
  <2>3. UNCHANGED <<report, kpi>>
    BY <1>6 DEF TellStats
  <2>. QED
    BY <2>1, <2>2, <2>3, JobGoesOn
<1>7. CASE TellGrade
  BY <1>7, TellGradeStep
<1>8. ASSUME NEW t \in Tasks, (Fails(t) /\ kpi' = kpi) \/ Refused(t) PROVE JobOK'
  <2>1. CASE t = Job
    <3>1. task'[Job].pc = "idle" /\ kpi' = kpi
      BY <1>0, <1>8, <2>1 DEF Fails, Refused, Idle
    <3>2. /\ report'.state = "failed" /\ report'.told = report.told
          /\ report'.invited = report.invited
      BY <1>0, <1>8, <2>1 DEF Fails, Refused, Report
    <3>. QED
      BY <3>1, <3>2 DEF JobOK, InFlight
  <2>2. CASE t # Job
    <3>1. task'[Job] = task[Job] /\ kpi' = kpi /\ report' = report
      BY <1>0, <1>8, <2>2 DEF Fails, Refused
    <3>. QED
      BY <3>1, JobKept
  <2>. QED
    BY <2>1, <2>2
<1>9. ASSUME NEW t \in Tasks, Sum(t) \/ Store(t) \/ Rate(t) \/ Write(t) \/ TellKpi(t)
      PROVE  JobOK'
  <2>1. CASE t = Job
    BY <1>9, <2>1, CalculationStep
  <2>2. CASE t # Job
    <3>1. task'[Job] = task[Job] /\ kpi' = kpi /\ report' = report
      BY <1>0, <1>9, <2>2 DEF Sum, Store, Rate, Write, TellKpi
    <3>. QED
      BY <3>1, JobKept
  <2>. QED
    BY <2>1, <2>2
<1>10. ASSUME NEW t \in Tasks, Commit(t) PROVE JobOK'
  <2>1. kpi' = [e \in Employees |-> IF task[t].kpi[e] = NoRow THEN kpi[e] ELSE task[t].kpi[e]]
    BY <1>10 DEF Commit
  <2>2. CASE t = Job
    <3>1. report.state = "running" /\ Underway /\ report.told \subseteq report.invited
      BY <1>10, <2>2 DEF JobOK, InFlight, Commit, At
    <3>2. task[Job].queue = <<>> /\ ToSet(task[Job].queue) = {}
      BY <1>10, <2>2, <3>1 DEF Underway, Commit, ToSet
    <3>3. report.told = report.invited /\ report.invited \subseteq Employees
      BY <1>0, <3>1, <3>2 DEF Underway, Report
    <3>4. \A e \in report.invited : kpi'[e] # NoRow
      BY <2>1, <2>2, <3>1, <3>3 DEF Underway
    <3>5. /\ task'[Job].pc = "idle" /\ report'.state = "done"
          /\ report'.told = report.told /\ report'.invited = report.invited
      BY <1>0, <1>10, <2>2 DEF Commit, Idle, Report
    <3>. QED
      BY <3>3, <3>4, <3>5 DEF JobOK, InFlight
  <2>3. CASE t # Job
    <3>1. task'[Job] = task[Job] /\ report' = report
      BY <1>0, <1>10, <2>3 DEF Commit
    <3>2. \A e \in Employees : kpi[e] # NoRow => kpi'[e] # NoRow
      BY <2>1
    <3>. QED
      BY <3>1, <3>2, JobKept
  <2>. QED
    BY <2>2, <2>3
<1>11. CASE UNCHANGED vars
  BY <1>11, JobKept DEF vars
<1>. QED
  BY <1>1, <1>2, <1>3, <1>4, <1>5, <1>6, <1>7, <1>8, <1>9, <1>10, <1>11
     DEF Next, Collide, DeadlockAbort

(* A monthly report that came to its end has told every employee who was   *)
(* connected and had not switched it off when it began, and has stored the *)
(* figures it told them of (send_monthly_reports).                         *)
THEOREM NobodyEverForgotten == Spec => []NobodyForgotten
<1>1. JobOK => NobodyForgotten
  BY DEF JobOK, NobodyForgotten
<1>. QED
  BY <1>1, InitType, NextType, InitJob, NextJob, PTL DEF Spec

-----------------------------------------------------------------------------
(* What ends the job.                                                      *)

(* A KPI screen writes rows of the one employee it is about.               *)
ScreensOK ==
  \A h \in Handlers : InFlight(h) =>
    /\ task[h].queue # <<>>
    /\ \A e \in Employees : task[h].monthly[e] # NoRow \/ task[h].kpi[e] # NoRow => e = Now(h)

(* With no screen about one of the invited, the job finds what it expects. *)
Undisturbed ==
  /\ \A h \in Handlers : InFlight(h) => Now(h) \notin report.invited
  /\ At(Job, "store") /\ task[Job].seen = NoRow => Monthly(Job) = NoRow
  /\ At(Job, "write") /\ task[Job].found = NoRow => KpiRow(Job) = NoRow

AloneOK == report.state = "running" /\ ~ report.crossed => Undisturbed

(* Another transaction leaves the job undisturbed.                         *)
LEMMA LeftAlone ==
  ASSUME AloneOK, task'[Job] = task[Job], monthly' = monthly, kpi' = kpi,
         report'.state = "running" /\ ~ report'.crossed => report.state = "running" /\ ~ report.crossed,
         report'.invited = report.invited,
         \A h \in Handlers : InFlight(h)' => InFlight(h) /\ Now(h)' = Now(h)
  PROVE  AloneOK'
BY DEF AloneOK, Undisturbed, At, Monthly, KpiRow, Now

LEMMA JobNowInvited ==
  ASSUME TInv, JobOK, At(Job, "store") \/ At(Job, "write")
  PROVE  /\ report.state = "running" /\ Now(Job) \in report.invited
         /\ Now(Job) \in Employees
<1>1. Job \in Tasks /\ task[Job].queue # <<>> /\ InFlight(Job)
  BY DEF At, InFlight, TInv, WorkOK, Tasks
<1>2. ToSet(task[Job].queue) = {Now(Job)} \cup ToSet(Tail(task[Job].queue)) /\ Now(Job) \in Employees
  BY <1>1, NowIsEmployee
<1>. QED
  BY <1>1, <1>2 DEF JobOK, Underway

LEMMA ScreenStep ==
  ASSUME TInv, ScreensOK, NEW h \in Handlers,
         Sum(h) \/ Store(h) \/ Rate(h) \/ Write(h) \/ TellKpi(h)
  PROVE  ScreensOK'
<1>1. h \in Tasks /\ task[h] \in Task /\ task \in [Tasks -> Task]
  BY DEF TInv, TypeOK, Tasks
<1>2. /\ InFlight(h) /\ task[h].queue # <<>> /\ task'[h].queue = task[h].queue
      /\ \A u \in Tasks \ {h} : task'[u] = task[u]
  BY <1>1, StepGoesOn
<1>3. \A e \in Employees : task[h].monthly[e] # NoRow \/ task[h].kpi[e] # NoRow => e = Now(h)
  BY <1>2 DEF ScreensOK
<1>4. ASSUME NEW e \in Employees, e # Now(h)
      PROVE  task'[h].monthly[e] = task[h].monthly[e] /\ task'[h].kpi[e] = task[h].kpi[e]
  <2>1. CASE Sum(h)
    BY <1>1, <2>1 DEF Sum, Task
  <2>2. CASE Store(h)
    BY <1>1, <1>4, <2>2 DEF Store, Task
  <2>3. CASE Rate(h)
    BY <1>1, <2>3 DEF Rate, Task
  <2>4. CASE Write(h)
    BY <1>1, <1>4, <2>4 DEF Write, Task
  <2>5. CASE TellKpi(h)
    BY <1>1, <2>5 DEF TellKpi, Task
  <2>. QED
    BY <2>1, <2>2, <2>3, <2>4, <2>5
<1>5. ASSUME NEW u \in Handlers, InFlight(u)', NEW e \in Employees
      PROVE  /\ task'[u].queue # <<>>
             /\ task'[u].monthly[e] # NoRow \/ task'[u].kpi[e] # NoRow => e = Now(u)'
  <2>1. CASE u = h
    BY <1>2, <1>3, <1>4, <2>1 DEF Now
  <2>2. CASE u # h
    BY <1>2, <1>5, <2>2 DEF ScreensOK, InFlight, Now, Tasks
  <2>. QED
    BY <2>1, <2>2
<1>6. \A u \in Handlers : InFlight(u)' => task'[u].queue # <<>>
  BY <1>2 DEF ScreensOK, InFlight, Tasks
<1>. QED
  BY <1>5, <1>6 DEF ScreensOK

LEMMA InitScreens == Init => ScreensOK /\ AloneOK /\ FailsForCause
BY DEF Init, ScreensOK, AloneOK, FailsForCause, InFlight, Idle, Tasks

LEMMA NextScreens == TInv /\ ScreensOK /\ [Next]_vars => ScreensOK'
<1> SUFFICES ASSUME TInv, ScreensOK, [Next]_vars PROVE ScreensOK'
  OBVIOUS
<1>0. /\ task \in [Tasks -> Task] /\ Job \in Tasks /\ Handlers \subseteq Tasks
      /\ Job \notin Handlers
  BY TasksAssumption DEF TInv, TypeOK, Tasks, TasksAssumption
<1>1. ASSUME NEW text \in Texts, Edit(text) PROVE ScreensOK'
  BY <1>0, <1>1, EditTasks DEF ScreensOK, InFlight, Now
<1>2. CASE Restart
  BY <1>0, <1>2 DEF Restart, ScreensOK, InFlight, Idle
<1>3. ASSUME \A h \in Handlers : task'[h] = task[h] \/ task'[h].pc = "idle"
      PROVE  ScreensOK'
  BY <1>3 DEF ScreensOK, InFlight, Now
<1>4. ASSUME NEW e \in Employees, Refreshed(e) \/ Disconnects(e) \/ Connects(e) \/ Toggle(e)
      PROVE  ScreensOK'
  BY <1>3, <1>4 DEF Refreshed, Disconnects, Connects, Toggle
<1>5. ASSUME NEW h \in Handlers, NEW e \in Employees, Views(h, e) PROVE ScreensOK'
  <2>1. /\ task'[h].queue = <<e>> /\ \A d \in Employees : task'[h].monthly[d] = NoRow /\ task'[h].kpi[d] = NoRow
        /\ \A u \in Handlers \ {h} : task'[u] = task[u]
    BY <1>0, <1>5 DEF Views, Idle
  <2>. QED
    BY <2>1 DEF ScreensOK, InFlight, Now
<1>6. ASSUME JobStarts \/ TellStats \/ TellGrade PROVE ScreensOK'
  BY <1>0, <1>3, <1>6 DEF JobStarts, TellStats, TellGrade
<1>7. ASSUME NEW t \in Tasks, Fails(t) \/ Refused(t) \/ Commit(t) PROVE ScreensOK'
  BY <1>0, <1>3, <1>7 DEF Fails, Refused, Commit, Idle
<1>8. ASSUME NEW t \in Tasks, Sum(t) \/ Store(t) \/ Rate(t) \/ Write(t) \/ TellKpi(t)
      PROVE  ScreensOK'
  <2>1. CASE t = Job
    BY <1>0, <1>3, <1>8, <2>1, StepGoesOn
  <2>2. CASE t # Job
    BY <1>8, <2>2, ScreenStep DEF Tasks
  <2>. QED
    BY <2>1, <2>2
<1>9. CASE UNCHANGED vars
  BY <1>3, <1>9 DEF vars
<1>. QED
  BY <1>1, <1>2, <1>4, <1>5, <1>6, <1>7, <1>8, <1>9 DEF Next, Collide, DeadlockAbort

LEMMA JobStepAlone ==
  ASSUME TInv, AloneOK, Sum(Job) \/ Store(Job) \/ Rate(Job) \/ Write(Job) \/ TellKpi(Job)
  PROVE  AloneOK'
<1>1. /\ Job \in Tasks /\ task[Job] \in Task /\ task \in [Tasks -> Task]
      /\ Handlers \subseteq Tasks \ {Job}
  BY TasksAssumption DEF TInv, TypeOK, Tasks, TasksAssumption
<1>2. /\ task[Job].queue # <<>> /\ task'[Job].queue = task[Job].queue
      /\ \A h \in Handlers : task'[h] = task[h]
  BY <1>1, StepGoesOn
<1>3. UNCHANGED <<report, monthly, kpi>>
  BY DEF Sum, Store, Rate, Write, TellKpi
<1>4. \A h \in Handlers : InFlight(h)' => InFlight(h) /\ Now(h)' = Now(h)
  BY <1>2 DEF InFlight, Now
<1>5. CASE Sum(Job)
  <2>1. task'[Job].seen = Monthly(Job) /\ task'[Job].monthly = task[Job].monthly
        /\ task'[Job].pc # "write"
    BY <1>1, <1>5 DEF Sum, Task
  <2>2. Monthly(Job)' = Monthly(Job)
    BY <1>2, <1>3, <2>1 DEF Monthly, Now
  <2>. QED
    BY <1>3, <1>4, <2>1, <2>2 DEF AloneOK, Undisturbed, At
<1>6. CASE Rate(Job)
  <2>1. task'[Job].found = KpiRow(Job) /\ task'[Job].kpi = task[Job].kpi
        /\ task'[Job].pc # "store"
    BY <1>1, <1>6 DEF Rate, Task
  <2>2. KpiRow(Job)' = KpiRow(Job)
    BY <1>2, <1>3, <2>1 DEF KpiRow, Now
  <2>. QED
    BY <1>3, <1>4, <2>1, <2>2 DEF AloneOK, Undisturbed, At
<1>7. CASE Store(Job) \/ Write(Job) \/ TellKpi(Job)
  <2>1. task'[Job].pc \notin {"store", "write"}
    <3>1. CASE Store(Job)
      BY <1>1, <3>1 DEF Store, Task
    <3>2. CASE Write(Job)
      BY <1>1, <3>2 DEF Write, Task
    <3>3. CASE TellKpi(Job)
      BY <1>1, <3>3 DEF TellKpi, Task
    <3>. QED
      BY <1>7, <3>1, <3>2, <3>3
  <2>. QED
    BY <1>3, <1>4, <2>1 DEF AloneOK, Undisturbed, At
<1>. QED
  BY <1>5, <1>6, <1>7

LEMMA ScreenCommit ==
  ASSUME TInv, JobOK, ScreensOK, AloneOK, NEW h \in Handlers, Commit(h)
  PROVE  AloneOK'
<1>1. /\ h \in Tasks /\ h # Job /\ Job \in Tasks /\ task \in [Tasks -> Task]
      /\ Handlers \subseteq Tasks
  BY TasksAssumption DEF TInv, TypeOK, Tasks, TasksAssumption
<1>2. InFlight(h) /\ report' = report /\ \A u \in Tasks \ {h} : task'[u] = task[u]
  BY <1>1 DEF Commit, At, InFlight
<1>3. ~ InFlight(h)'
  BY <1>1 DEF Commit, Idle, InFlight
<1> SUFFICES ASSUME report.state = "running", ~ report.crossed PROVE Undisturbed'
  BY <1>2 DEF AloneOK
<1>4. Undisturbed
  BY DEF AloneOK
<1>5. \A u \in Handlers : InFlight(u)' => InFlight(u) /\ Now(u)' = Now(u)
  BY <1>1, <1>2, <1>3 DEF InFlight, Now
<1>6. ASSUME At(Job, "store") \/ At(Job, "write")
      PROVE  monthly'[Now(Job)] = monthly[Now(Job)] /\ kpi'[Now(Job)] = kpi[Now(Job)]
  <2>1. Now(Job) \in Employees /\ Now(Job) # Now(h)
    BY <1>2, <1>4, <1>6, JobNowInvited DEF Undisturbed
  <2>2. task[h].monthly[Now(Job)] = NoRow /\ task[h].kpi[Now(Job)] = NoRow
    BY <1>2, <2>1 DEF ScreensOK
  <2>. QED
    BY <2>1, <2>2 DEF Commit
<1>7. task'[Job] = task[Job]
  BY <1>1, <1>2
<1>. QED
  BY <1>2, <1>4, <1>5, <1>6, <1>7 DEF Undisturbed, At, Monthly, KpiRow, Now

LEMMA NextAlone ==
  TInv /\ JobOK /\ ScreensOK /\ AloneOK /\ [Next]_vars => AloneOK'
<1> SUFFICES ASSUME TInv, JobOK, ScreensOK, AloneOK, [Next]_vars PROVE AloneOK'
  OBVIOUS
<1>0. /\ task \in [Tasks -> Task] /\ Job \in Tasks /\ Handlers \subseteq Tasks \ {Job}
      /\ report \in Report
  BY TasksAssumption DEF TInv, TypeOK, Tasks, TasksAssumption
<1>1. ASSUME NEW text \in Texts, Edit(text) PROVE AloneOK'
  BY <1>0, <1>1, EditTasks DEF Edit, AloneOK, Undisturbed, InFlight, At, Monthly, KpiRow, Now
<1>2. CASE Restart
  BY <1>0, <1>2 DEF Restart, AloneOK, Report
<1>3. ASSUME NEW e \in Employees, Refreshed(e) \/ Disconnects(e) \/ Connects(e) \/ Toggle(e)
      PROVE  AloneOK'
  <2>1. UNCHANGED <<task, monthly, kpi, report>>
    BY <1>3 DEF Refreshed, Disconnects, Connects, Toggle
  <2>. QED
    BY <2>1, LeftAlone DEF InFlight, Now
<1>4. ASSUME NEW h \in Handlers, NEW e \in Employees, Views(h, e) PROVE AloneOK'
  <2>1. /\ Now(h)' = e /\ UNCHANGED <<monthly, kpi>>
        /\ \A u \in Tasks \ {h} : task'[u] = task[u]
    BY <1>0, <1>4 DEF Views, Now, Idle
  <2>2. CASE report.state = "running" /\ e \in report.invited
    <3>1. report'.crossed
      BY <1>0, <1>4, <2>2 DEF Views, Report
    <3>. QED
      BY <3>1 DEF AloneOK
  <2>3. CASE ~ (report.state = "running" /\ e \in report.invited)
    <3>1. report' = report
      BY <1>4, <2>3 DEF Views
    <3>2. task'[Job] = task[Job] /\ \A u \in Handlers \ {h} : task'[u] = task[u]
      BY <1>0, <2>1
    <3>. QED
      BY <2>1, <2>3, <3>1, <3>2 DEF AloneOK, Undisturbed, InFlight, At, Monthly, KpiRow, Now
  <2>. QED
    BY <2>2, <2>3
<1>5. CASE JobStarts
  <2>1. /\ task'[Job].pc \notin {"store", "write"}
        /\ \A u \in Handlers : task'[u] = task[u]
    BY <1>0, <1>5 DEF JobStarts, Idle
  <2>2. /\ report'.invited = connected \ muted
        /\ ~ report'.crossed => \A h \in Handlers : InFlight(h) => Now(h) \notin connected \ muted
    BY <1>0, <1>5 DEF JobStarts, Report
  <2>. QED
    BY <2>1, <2>2 DEF AloneOK, Undisturbed, InFlight, At, Now
<1>6. ASSUME TellStats \/ TellGrade PROVE AloneOK'
  <2>1. task[Job] \in Task
    BY <1>0
  <2>2. /\ task'[Job].pc \notin {"store", "write"}
        /\ \A u \in Handlers : task'[u] = task[u]
    <3>1. CASE TellStats
      BY <1>0, <2>1, <3>1 DEF TellStats, Task
    <3>2. CASE TellGrade
      BY <1>0, <2>1, <3>2 DEF TellGrade, Task
    <3>. QED
      BY <1>6, <3>1, <3>2
  <2>3. /\ report'.invited = report.invited /\ report'.crossed = report.crossed
        /\ report'.state = report.state
    BY <1>0, <1>6 DEF TellStats, TellGrade, Report
  <2>. QED
    BY <2>2, <2>3 DEF AloneOK, Undisturbed, InFlight, At, Now
<1>7. ASSUME NEW t \in Tasks, (Fails(t) /\ UNCHANGED <<monthly, kpi>>) \/ Refused(t) PROVE AloneOK'
  <2>1. CASE t = Job
    <3>1. report'.state = "failed"
      BY <1>0, <1>7, <2>1 DEF Fails, Refused, Report
    <3>. QED
      BY <3>1 DEF AloneOK
  <2>2. CASE t # Job
    <3>1. /\ task'[Job] = task[Job] /\ UNCHANGED <<report, monthly, kpi>>
          /\ task'[t].pc = "idle" /\ \A u \in Tasks \ {t} : task'[u] = task[u]
      BY <1>0, <1>7, <2>2 DEF Fails, Refused, Idle
    <3>2. \A h \in Handlers : InFlight(h)' => InFlight(h) /\ Now(h)' = Now(h)
      BY <1>0, <3>1 DEF InFlight, Now
    <3>. QED
      BY <3>1, <3>2, LeftAlone
  <2>. QED
    BY <2>1, <2>2
<1>8. ASSUME NEW t \in Tasks, Sum(t) \/ Store(t) \/ Rate(t) \/ Write(t) \/ TellKpi(t)
      PROVE  AloneOK'
  <2>1. CASE t = Job
    BY <1>8, <2>1, JobStepAlone
  <2>2. CASE t # Job
    <3>1. /\ task[t].queue # <<>> /\ task'[t].queue = task[t].queue /\ InFlight(t)
          /\ \A u \in Tasks \ {t} : task'[u] = task[u]
      BY <1>8, StepGoesOn
    <3>2. UNCHANGED <<report, monthly, kpi>>
      BY <1>8 DEF Sum, Store, Rate, Write, TellKpi
    <3>3. \A h \in Handlers : InFlight(h)' => InFlight(h) /\ Now(h)' = Now(h)
      BY <1>0, <3>1 DEF InFlight, Now
    <3>. QED
      BY <1>0, <2>2, <3>1, <3>2, <3>3, LeftAlone
  <2>. QED
    BY <2>1, <2>2
<1>9. ASSUME NEW t \in Tasks, Commit(t) PROVE AloneOK'
  <2>1. CASE t = Job
    <3>1. report'.state = "done"
      BY <1>0, <1>9, <2>1 DEF Commit, Report
    <3>. QED
      BY <3>1 DEF AloneOK
  <2>2. CASE t # Job
    BY <1>9, <2>2, ScreenCommit DEF Tasks
  <2>. QED
    BY <2>1, <2>2
<1>10. CASE UNCHANGED vars
  BY <1>10, LeftAlone DEF vars, InFlight, Now
<1>. QED
  BY <1>1, <1>2, <1>3, <1>4, <1>5, <1>6, <1>7, <1>8, <1>9, <1>10 DEF Next, Collide, DeadlockAbort

(* A job that nobody crossed finds its rows as it expects them.            *)
LEMMA NoClashAlone ==
  ASSUME AloneOK, report.state = "running", ~ report.crossed
  PROVE  ~ Clash(Job)
BY DEF AloneOK, Undisturbed, Clash

(* And it waits for nobody.                                                *)
LEMMA NoWaitAlone ==
  ASSUME TInv, LocksOwned, JobOK, AloneOK, ~ report.crossed, NEW u \in Tasks \ {Job}
  PROVE  ~ WaitsFor(Job, u)
<1> SUFFICES ASSUME WaitsFor(Job, u) PROVE FALSE
  OBVIOUS
<1>1. At(Job, "store") \/ At(Job, "write")
  BY DEF WaitsFor
<1>2. report.state = "running" /\ Now(Job) \in report.invited /\ Now(Job) \in Employees
  BY <1>1, JobNowInvited
<1>3. InFlight(u) /\ Now(Job) = Now(u) /\ u \in Handlers
  BY <1>2 DEF WaitsFor, LocksOwned, Owned, Tables, Tasks
<1>. QED
  BY <1>2, <1>3 DEF AloneOK, Undisturbed

LEMMA NextCause ==
  TInv /\ LocksOwned /\ JobOK /\ AloneOK /\ FailsForCause /\ [Next]_vars => FailsForCause'
<1> SUFFICES ASSUME TInv, LocksOwned, JobOK, AloneOK, FailsForCause, [Next]_vars PROVE FailsForCause'
  OBVIOUS
<1>0. report \in Report
  BY DEF TInv, TypeOK
<1>1. ASSUME NEW t \in Tasks, Collide(t) PROVE FailsForCause'
  <2>1. CASE t = Job
    <3>1. Clash(Job) /\ (At(Job, "store") \/ At(Job, "write"))
      BY <1>1, <2>1 DEF Collide, Clash
    <3>2. report.crossed
      BY <3>1, JobNowInvited, NoClashAlone
    <3>3. report'.crossed = report.crossed
      BY <1>0, <1>1, <2>1 DEF Collide, Fails, Report
    <3>. QED
      BY <3>2, <3>3 DEF FailsForCause
  <2>2. CASE t # Job
    BY <1>1, <2>2 DEF Collide, Fails, FailsForCause
  <2>. QED
    BY <2>1, <2>2
<1>2. ASSUME NEW t \in Tasks, DeadlockAbort(t) PROVE FailsForCause'
  <2>1. CASE t = Job
    <3>1. report.crossed
      BY <1>2, <2>1, NoWaitAlone DEF DeadlockAbort
    <3>2. report'.crossed = report.crossed
      BY <1>0, <1>2, <2>1 DEF DeadlockAbort, Fails, Report
    <3>. QED
      BY <3>1, <3>2 DEF FailsForCause
  <2>2. CASE t # Job
    BY <1>2, <2>2 DEF DeadlockAbort, Fails, FailsForCause
  <2>. QED
    BY <2>1, <2>2
<1>3. ASSUME NEW t \in Tasks, Refused(t) PROVE FailsForCause'
  BY <1>0, <1>3 DEF Refused, FailsForCause, Report
<1>4. ASSUME NEW t \in Tasks, Commit(t) PROVE FailsForCause'
  BY <1>0, <1>4 DEF Commit, FailsForCause, Report
<1>5. CASE Restart
  BY <1>0, <1>5 DEF Restart, FailsForCause, Report
<1>6. ASSUME NEW h \in Handlers, NEW e \in Employees, Views(h, e) PROVE FailsForCause'
  BY <1>0, <1>6 DEF Views, FailsForCause, Report
<1>7. ASSUME JobStarts \/ TellGrade PROVE FailsForCause'
  BY <1>0, <1>7 DEF JobStarts, TellGrade, FailsForCause, Report
<1>8. ASSUME report' = report PROVE FailsForCause'
  BY <1>8 DEF FailsForCause
<1>9. ASSUME NEW text \in Texts, Edit(text) PROVE FailsForCause'
  BY <1>8, <1>9 DEF Edit
<1>10. ASSUME NEW e \in Employees, Refreshed(e) \/ Disconnects(e) \/ Connects(e) \/ Toggle(e)
       PROVE  FailsForCause'
  BY <1>8, <1>10 DEF Refreshed, Disconnects, Connects, Toggle
<1>11. ASSUME NEW t \in Tasks, Sum(t) \/ Store(t) \/ Rate(t) \/ Write(t) \/ TellKpi(t)
       PROVE  FailsForCause'
  BY <1>8, <1>11 DEF Sum, Store, Rate, Write, TellKpi
<1>12. CASE TellStats \/ UNCHANGED vars
  BY <1>8, <1>12 DEF TellStats, vars
<1>. QED
  BY <1>1, <1>2, <1>3, <1>4, <1>5, <1>6, <1>7, <1>9, <1>10, <1>11, <1>12 DEF Next

(* The job fails only when Telegram refused a message or a KPI screen of   *)
(* one of the invited was open beside it: its own two calculations of one  *)
(* month never clash, and without such a screen it waits for no lock.      *)
THEOREM AlwaysFailsForCause == Spec => []FailsForCause
<1>. QED
  BY InitType, NextType, InitLocks, NextLocks, InitJob, NextJob, InitScreens, NextScreens,
     NextAlone, NextCause, PTL DEF Spec

-----------------------------------------------------------------------------
(* What a task carries was due since it began to calculate: the base lies  *)
(* between the one it began with and the employee's, and the percentage is *)
(* one of the rules in force since.                                        *)

Earned(told, w) ==
  /\ told.base \in w.from .. figure[Head(w.queue)]
  /\ \E text \in w.texts : told.percent = HighestReached(text, told.base)

Based(w) == w.pc \in {"store", "rate", "write", "tell"}

DueOK(w) ==
  /\ w.pc \in {"stats", "grade"} => w.round = 1
  /\ w.pc = "tell" => w.round = 2
  /\ Based(w) \/ (w.pc = "sum" /\ w.round = 2) =>
       /\ w.from <= figure[Head(w.queue)] /\ written \in w.texts
       /\ w.round = 2 => Earned(w.rich, w)
  /\ Based(w) => w.base \in w.from .. figure[Head(w.queue)]
  /\ w.pc \in {"write", "tell"} => Earned([base |-> w.base, percent |-> w.percent], w)

TasksDue == \A t \in Tasks : DueOK(task[t])

LEMMA DueOfTask ==
  ASSUME TInv, TasksDue, NEW t \in Tasks, NEW w, DueOK(w),
         task' = [task EXCEPT ![t] = w], UNCHANGED <<figure, written>>
  PROVE  TasksDue'
<1>1. \A u \in Tasks : DueOK(task'[u])
  BY DEF TasksDue, TInv, TypeOK
<1>. QED
  BY <1>1 DEF TasksDue, DueOK, Earned

LEMMA IdleDue == DueOK(Idle)
BY DEF DueOK, Based, Idle

(* New figures are larger, and a new text joins those in force.            *)
LEMMA DueLater ==
  ASSUME TInv, NEW t \in Tasks, DueOK(task[t]),
         \A e \in Employees : figure'[e] \in Nat /\ figure[e] <= figure'[e],
         \/ task'[t] = task[t] /\ (written' = written \/ task[t].texts = {})
         \/ /\ task[t].texts # {}
            /\ task'[t] = [task[t] EXCEPT !.texts = @ \cup {written'}]
  PROVE  DueOK(task[t])'
<1> DEFINE w == task[t]
           v == task'[t]
<1>1. task[t] \in Task /\ \A e \in Employees : figure[e] \in Nat
  BY DEF TInv, TypeOK
<1>2. /\ v.pc = w.pc /\ v.round = w.round /\ v.queue = w.queue /\ v.from = w.from
      /\ v.base = w.base /\ v.percent = w.percent /\ v.rich = w.rich
      /\ w.texts \subseteq v.texts /\ (written' \in v.texts \/ v.texts = w.texts)
      /\ written' # written => written' \in v.texts \/ w.texts = {}
  BY <1>1 DEF Task
<1>3. w.pc \notin {"idle", "end"} => Head(w.queue) \in Employees
  BY NowIsEmployee DEF TInv, WorkOK, Now
<1>4. w.from \in Nat /\ w.base \in Nat /\ w.rich \in Kpi
  BY <1>1 DEF Task
<1>5. ASSUME NEW told, told.base \in Nat, w.pc \notin {"idle", "end"}, Earned(told, w)
      PROVE  /\ told.base \in w.from .. figure'[Head(w.queue)]
             /\ \E text \in v.texts : told.percent = HighestReached(text, told.base)
  BY <1>1, <1>2, <1>3, <1>4, <1>5 DEF Earned
<1>6. w.rich.base \in Nat /\ [base |-> w.base, percent |-> w.percent].base \in Nat
  BY <1>4 DEF Kpi
<1> HIDE DEF w, v
<1>7. DueOK(w)
  BY DEF w
<1>8. /\ v.pc \in {"stats", "grade"} => v.round = 1
      /\ v.pc = "tell" => v.round = 2
      /\ Based(v) \/ (v.pc = "sum" /\ v.round = 2) =>
           v.from <= figure'[Head(v.queue)] /\ written' \in v.texts
      /\ Based(v) => v.base \in v.from .. figure'[Head(v.queue)]
  BY <1>1, <1>2, <1>3, <1>4, <1>7 DEF DueOK, Based
<1>9. (Based(v) \/ (v.pc = "sum" /\ v.round = 2)) /\ v.round = 2 =>
        /\ v.rich.base \in v.from .. figure'[Head(v.queue)]
        /\ \E text \in v.texts : v.rich.percent = HighestReached(text, v.rich.base)
  BY <1>2, <1>5, <1>6, <1>7 DEF DueOK, Based
<1>10. v.pc \in {"write", "tell"} =>
         LET told == [base |-> v.base, percent |-> v.percent]
         IN  /\ told.base \in v.from .. figure'[Head(v.queue)]
             /\ \E text \in v.texts : told.percent = HighestReached(text, told.base)
  BY <1>2, <1>5, <1>6, <1>7 DEF DueOK
<1>. QED
  BY <1>8, <1>9, <1>10 DEF DueOK, Earned, Based, v

LEMMA SumDue ==
  ASSUME TInv, NEW t \in Tasks, DueOK(task[t]), Sum(t)
  PROVE  \E w : DueOK(w) /\ task' = [task EXCEPT ![t] = w]
<1> DEFINE w == [task[t] EXCEPT !.base = figure[Now(t)], !.seen = Monthly(t),
                   !.pc = IF Monthly(t) = figure[Now(t)] THEN "rate" ELSE "store",
                   !.from = IF task[t].round = 1 THEN figure[Now(t)] ELSE task[t].from,
                   !.texts = IF task[t].round = 1 THEN {written} ELSE task[t].texts]
<1>1. task[t] \in Task /\ task[t].pc = "sum"
  BY DEF Sum, At, TInv, TypeOK
<1>2. Now(t) \in Employees /\ Now(t) = Head(task[t].queue)
  BY <1>1, NowIsEmployee DEF TInv, WorkOK, Now
<1>3. figure[Now(t)] \in Nat /\ task[t].from \in Nat
  BY <1>1, <1>2 DEF TInv, TypeOK, Task
<1>4. /\ w.pc \in {"rate", "store"} /\ w.base = figure[Now(t)] /\ w.round = task[t].round
      /\ w.rich = task[t].rich /\ w.queue = task[t].queue
      /\ task[t].round = 1 => w.from = figure[Now(t)] /\ w.texts = {written}
      /\ task[t].round = 2 => w.from = task[t].from /\ w.texts = task[t].texts
      /\ task[t].round \in {1, 2}
  BY <1>1 DEF Task
<1>5. task' = [task EXCEPT ![t] = w]
  BY DEF Sum
<1> HIDE DEF w
<1>6. CASE task[t].round = 1
  <2>1. DueOK(w)
    BY <1>2, <1>3, <1>4, <1>6 DEF DueOK, Based
  <2>. QED
    BY <1>5, <2>1
<1>7. CASE task[t].round = 2
  <2>1. /\ task[t].from <= figure[Now(t)] /\ written \in task[t].texts
        /\ Earned(task[t].rich, task[t])
    BY <1>1, <1>2, <1>7 DEF DueOK
  <2>2. DueOK(w)
    BY <1>2, <1>3, <1>4, <1>7, <2>1 DEF DueOK, Based, Earned
  <2>. QED
    BY <1>5, <2>2
<1>. QED
  BY <1>4, <1>6, <1>7

LEMMA StoreDue ==
  ASSUME TInv, NEW t \in Tasks, DueOK(task[t]), Store(t)
  PROVE  \E w : DueOK(w) /\ task' = [task EXCEPT ![t] = w]
<1> DEFINE rows == [e \in Employees |-> IF e = Now(t) THEN task[t].base ELSE task[t].monthly[e]]
           w == [task[t] EXCEPT !.pc = "rate", !.seen = NoRow, !.monthly = rows]
<1>1. task[t] \in Task /\ task[t].pc = "store" /\ task' = [task EXCEPT ![t] = w]
  BY DEF Store, At, TInv, TypeOK
<1> HIDE DEF rows
<1>2. /\ w.pc = "rate" /\ w.base = task[t].base /\ w.round = task[t].round
      /\ w.rich = task[t].rich /\ w.queue = task[t].queue
      /\ w.from = task[t].from /\ w.texts = task[t].texts
  BY <1>1 DEF Task
<1> HIDE DEF w
<1>3. DueOK(w)
  BY <1>1, <1>2 DEF DueOK, Based, Earned
<1>. QED
  BY <1>1, <1>3

LEMMA RateDue ==
  ASSUME TInv, NEW t \in Tasks, DueOK(task[t]), Rate(t)
  PROVE  \E w : DueOK(w) /\ task' = [task EXCEPT ![t] = w]
<1> DEFINE w == [task[t] EXCEPT !.pc = "write", !.seen = NoRow,
                   !.percent = EarnedPercent(task[t].base), !.found = KpiRow(t)]
<1>1. task[t] \in Task /\ task[t].pc = "rate" /\ task' = [task EXCEPT ![t] = w]
  BY DEF Rate, At, TInv, TypeOK
<1>2. /\ w.pc = "write" /\ w.base = task[t].base /\ w.round = task[t].round
      /\ w.rich = task[t].rich /\ w.queue = task[t].queue
      /\ w.from = task[t].from /\ w.texts = task[t].texts
      /\ w.percent = EarnedPercent(task[t].base)
  BY <1>1 DEF Task
<1>3. EarnedPercent(task[t].base) = HighestReached(written, task[t].base)
  <2>1. task[t].base \in Nat
    BY <1>1 DEF Task
  <2>. QED
    BY <2>1, EarnedOfText DEF TInv
<1> HIDE DEF w
<1>4. DueOK(w)
  BY <1>1, <1>2, <1>3 DEF DueOK, Based, Earned
<1>. QED
  BY <1>1, <1>4

LEMMA WriteDue ==
  ASSUME TInv, NEW t \in Tasks, DueOK(task[t]), Write(t)
  PROVE  \E w : DueOK(w) /\ task' = [task EXCEPT ![t] = w]
<1> DEFINE row == Updated(KpiRow(t), task[t].found, Figures(t))
           rows == [e \in Employees |-> IF e = Now(t) THEN row ELSE task[t].kpi[e]]
           w == [task[t] EXCEPT !.found = NoRow, !.round = 2,
                   !.pc = IF task[t].round = 1 THEN "sum" ELSE "tell",
                   !.rich = IF task[t].round = 1 THEN Figures(t) ELSE task[t].rich,
                   !.kpi = rows]
<1>1. task[t] \in Task /\ task[t].pc = "write" /\ task' = [task EXCEPT ![t] = w]
  BY DEF Write, At, TInv, TypeOK
<1> HIDE DEF rows
<1>2. /\ w.base = task[t].base /\ w.round = 2 /\ w.percent = task[t].percent
      /\ w.queue = task[t].queue /\ w.from = task[t].from /\ w.texts = task[t].texts
      /\ task[t].round = 1 => w.pc = "sum" /\ w.rich = Figures(t)
      /\ task[t].round = 2 => w.pc = "tell" /\ w.rich = task[t].rich
      /\ task[t].round \in {1, 2}
  BY <1>1 DEF Task
<1> HIDE DEF w
<1>3. DueOK(w)
  <2>1. CASE task[t].round = 1
    BY <1>1, <1>2, <2>1 DEF DueOK, Based, Earned, Figures
  <2>2. CASE task[t].round = 2
    BY <1>1, <1>2, <2>2 DEF DueOK, Based, Earned
  <2>. QED
    BY <1>2, <2>1, <2>2
<1>. QED
  BY <1>1, <1>3

LEMMA NextDue == TInv /\ TasksDue /\ [Next]_vars => TasksDue'
<1> SUFFICES ASSUME TInv, TasksDue, [Next]_vars PROVE TasksDue'
  OBVIOUS
<1>0. \A t \in Tasks : DueOK(task[t]) /\ task[t] \in Task
  BY DEF TasksDue, TInv, TypeOK
<1>1. ASSUME NEW text \in Texts, Edit(text) PROVE TasksDue'
  <2>1. \A e \in Employees : figure'[e] \in Nat /\ figure[e] <= figure'[e]
    BY <1>1 DEF Edit, TInv, TypeOK
  <2>2. ASSUME NEW t \in Tasks PROVE DueOK(task[t])'
    BY <1>0, <1>1, <2>1, DueLater DEF Edit
  <2>. QED
    BY <2>2 DEF TasksDue
<1>2. CASE Restart
  <2>1. \A t \in Tasks : task'[t].pc = "idle"
    BY <1>2 DEF Restart, Idle
  <2>. QED
    BY <2>1 DEF TasksDue, DueOK, Based
<1>3. ASSUME NEW e \in Employees, Refreshed(e) PROVE TasksDue'
  <2>1. \A f \in Employees : figure'[f] \in Nat /\ figure[f] <= figure'[f]
    BY <1>3 DEF Refreshed, TInv, TypeOK
  <2>2. ASSUME NEW t \in Tasks PROVE DueOK(task[t])'
    BY <1>0, <1>3, <2>1, DueLater DEF Refreshed
  <2>. QED
    BY <2>2 DEF TasksDue
<1>4. CASE UNCHANGED <<figure, written, task>>
  BY <1>4 DEF TasksDue, DueOK, Earned
<1>5. ASSUME NEW t \in Tasks, NEW w, DueOK(w), task' = [task EXCEPT ![t] = w],
             UNCHANGED <<figure, written>>
      PROVE  TasksDue'
  BY <1>5, DueOfTask
<1>6. ASSUME NEW h \in Handlers, NEW e \in Employees, Views(h, e) PROVE TasksDue'
  <2> DEFINE w == [Idle EXCEPT !.pc = "sum", !.queue = <<e>>]
  <2>1. DueOK(w) /\ task' = [task EXCEPT ![h] = w] /\ UNCHANGED <<figure, written>>
    BY <1>6 DEF Views, DueOK, Based, Idle
  <2> HIDE DEF w
  <2>. QED
    BY <1>5, <2>1 DEF Tasks
<1>7. CASE JobStarts
  <2>1. PICK q \in SetToSeqs(connected \ muted) :
          task' = [task EXCEPT ![Job] = [Idle EXCEPT !.queue = q,
                                           !.pc = IF q = <<>> THEN "end" ELSE "stats"]]
    BY <1>7 DEF JobStarts
  <2> DEFINE w == [Idle EXCEPT !.queue = q, !.pc = IF q = <<>> THEN "end" ELSE "stats"]
  <2>2. DueOK(w)
    BY DEF DueOK, Based, Idle
  <2>3. task' = [task EXCEPT ![Job] = w] /\ UNCHANGED <<figure, written>>
    BY <1>7, <2>1 DEF JobStarts
  <2> HIDE DEF w
  <2>. QED
    BY <1>5, <2>2, <2>3 DEF Tasks
<1>8. CASE TellStats
  <2> DEFINE w == [task[Job] EXCEPT !.pc = "sum"]
  <2>1. task[Job].pc = "stats" /\ task[Job] \in Task /\ DueOK(task[Job])
    BY <1>0, <1>8 DEF TellStats, At, Tasks
  <2>2. w.pc = "sum" /\ w.round = 1
    BY <2>1 DEF Task, DueOK
  <2>3. task' = [task EXCEPT ![Job] = w] /\ UNCHANGED <<figure, written>>
    BY <1>8 DEF TellStats
  <2> HIDE DEF w
  <2>4. DueOK(w)
    BY <2>2 DEF DueOK, Based
  <2>. QED
    BY <1>5, <2>3, <2>4 DEF Tasks
<1>9. CASE TellGrade
  <2> DEFINE rest == Tail(task[Job].queue)
             w == [task[Job] EXCEPT !.queue = rest, !.pc = IF rest = <<>> THEN "end" ELSE "stats"]
  <2>1. task[Job].pc = "grade" /\ task[Job] \in Task /\ DueOK(task[Job])
    BY <1>0, <1>9 DEF TellGrade, At, Tasks
  <2>2. task' = [task EXCEPT ![Job] = w] /\ UNCHANGED <<figure, written>>
    BY <1>9 DEF TellGrade
  <2> HIDE DEF rest
  <2>3. w.pc \in {"end", "stats"} /\ w.round = 1
    BY <2>1 DEF Task, DueOK
  <2> HIDE DEF w
  <2>4. DueOK(w)
    BY <2>3 DEF DueOK, Based
  <2>. QED
    BY <1>5, <2>2, <2>4 DEF Tasks
<1>10. ASSUME NEW t \in Tasks, Sum(t) \/ Store(t) \/ Rate(t) \/ Write(t) PROVE TasksDue'
  <2>1. \E w : DueOK(w) /\ task' = [task EXCEPT ![t] = w]
    BY <1>0, <1>10, SumDue, StoreDue, RateDue, WriteDue
  <2>2. UNCHANGED <<figure, written>>
    BY <1>10 DEF Sum, Store, Rate, Write
  <2>. QED
    BY <1>5, <2>1, <2>2
<1>11. ASSUME NEW t \in Tasks, TellKpi(t) PROVE TasksDue'
  <2> DEFINE w == [task[t] EXCEPT !.pc = IF t = Job THEN "grade" ELSE "end",
                     !.round = 1, !.base = 0, !.percent = 0, !.rich = Idle.rich,
                     !.from = 0, !.texts = {}]
  <2>1. task' = [task EXCEPT ![t] = w] /\ UNCHANGED <<figure, written>>
    BY <1>11 DEF TellKpi
  <2>2. w.pc \in {"grade", "end"} /\ w.round = 1
    BY <1>0 DEF Task
  <2> HIDE DEF w
  <2>3. DueOK(w)
    BY <2>2 DEF DueOK, Based
  <2>. QED
    BY <1>5, <2>1, <2>3
<1>12. ASSUME NEW t \in Tasks, Collide(t) \/ Refused(t) \/ DeadlockAbort(t) \/ Commit(t)
       PROVE  TasksDue'
  <2>1. task' = [task EXCEPT ![t] = Idle] /\ UNCHANGED <<figure, written>>
    BY <1>12 DEF Collide, Refused, DeadlockAbort, Commit, Fails
  <2>. QED
    BY <1>5, <2>1, IdleDue
<1>X. ASSUME NEW e \in Employees, Disconnects(e) \/ Connects(e) \/ Toggle(e) PROVE TasksDue'
  BY <1>4, <1>X DEF Disconnects, Connects, Toggle
<1>14. CASE UNCHANGED vars
  BY <1>4, <1>14 DEF vars
<1>. QED
  BY <1>1, <1>2, <1>3, <1>6, <1>7, <1>8, <1>9, <1>10, <1>11, <1>12, <1>X, <1>14 DEF Next

(* Whatever is edited, sold and calculated meanwhile, for any employees,   *)
(* rules and number of screens: the figures of a message were due at a     *)
(* moment while they were calculated.                                      *)
THEOREM AlwaysToldWasDue == Spec => []ToldWasDue
<1>1. Init => TasksDue
  BY IdleDue DEF Init, TasksDue
<1>2. TasksDue => ToldWasDue
  BY DEF TasksDue, DueOK, Based, Earned, ToldWasDue, At, Figures, Now
<1>. QED
  BY <1>1, <1>2, InitType, NextType, NextDue, PTL DEF Spec
=============================================================================
