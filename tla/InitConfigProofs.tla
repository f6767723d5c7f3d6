-------------------------- MODULE InitConfigProofs --------------------------
(***************************************************************************)
(* What holds of InitConfig for every file, every console line and every   *)
(* bound: the types, that no id is given to two nodes, that a boot enables *)
(* no block whose references lead nowhere, and that a reference keeps      *)
(* leading to the block it was made for.                                   *)
(*                                                                         *)
(* Every step either forgets both lists or leaves each list a selection of *)
(* what it was, with at most one node more, whose id is new (ListStep),    *)
(* and puts nothing in a setting but plain values and the ids of nodes     *)
(* that are there (SettingsStep).  The theorems follow from these two.     *)
(***************************************************************************)
EXTENDS InitConfig, SequenceTheorems, WellFoundedInduction, TLAPS

(* The order of the natural numbers, as a relation.                        *)
LEMMA NatOrder == IsWellFoundedOn({ss \in Nat \X Nat : ss[1] < ss[2]}, Nat)
BY NatLessThanWellFounded, Zenon DEF OpToRel

(* The place of a node that is there, 0 otherwise.                         *)
LEMMA FirstIn ==
    ASSUME NEW S \in SUBSET (Nat \ {0})
    PROVE  /\ First(S) \in S \cup {0}
           /\ First(S) = 0 <=> S = {}
<1>1. CASE S = {} BY <1>1 DEF First
<1>2. CASE S # {}
  <2> DEFINE R == {ss \in Nat \X Nat : ss[1] < ss[2]}
  <2>1. IsWellFoundedOn(R, Nat)
    BY NatOrder
  <2> HIDE DEF R
  <2>2. PICK x \in S : \A y \in S : ~ (<<y, x>> \in R)
    BY <1>2, <2>1, WFMin, Zenon
  <2>3. ASSUME NEW y \in S PROVE x <= y
    <3>1. <<y, x>> \in Nat \X Nat /\ x \in Nat /\ y \in Nat OBVIOUS
    <3>2. ~ (<<y, x>> \in R) BY <2>2
    <3>3. ~ (y < x) BY <3>1, <3>2 DEF R
    <3> QED BY <3>1, <3>3
  <2> QED BY <2>3, <1>2 DEF First
<1> QED BY <1>1, <1>2

(* The look-ups by label and by id find a node that bears it, if one does. *)
LEMMA ByLabelFound ==
    ASSUME NEW list \in Seq(Node), NEW label
    PROVE  /\ ByLabel(list, label) \in DOMAIN list \cup {0}
           /\ ByLabel(list, label) # 0 => list[ByLabel(list, label)].label = label
           /\ ByLabel(list, label) = 0 => \A n \in DOMAIN list : list[n].label # label
<1> DEFINE S == {n \in DOMAIN list : list[n].label = label}
<1>1. DOMAIN list \subseteq Nat \ {0} BY LenProperties
<1>2. S \in SUBSET (Nat \ {0}) BY <1>1
<1>3. First(S) \in S \cup {0} /\ (First(S) = 0 <=> S = {}) BY <1>2, FirstIn
<1>4. 0 \notin S BY <1>2
<1> QED BY <1>3, <1>4 DEF ByLabel

(* The look-up by id.                                                      *)
LEMMA ByIdFound ==
    ASSUME NEW list \in Seq(Node), NEW id
    PROVE  /\ ById(list, id) \in DOMAIN list \cup {0}
           /\ ById(list, id) # 0 => list[ById(list, id)].id = id
           /\ ById(list, id) = 0 => \A n \in DOMAIN list : list[n].id # id
<1> DEFINE S == {n \in DOMAIN list : list[n].id = id}
<1>1. DOMAIN list \subseteq Nat \ {0} BY LenProperties
<1>2. S \in SUBSET (Nat \ {0}) BY <1>1
<1>3. First(S) \in S \cup {0} /\ (First(S) = 0 <=> S = {}) BY <1>2, FirstIn
<1>4. 0 \notin S BY <1>2
<1> QED BY <1>3, <1>4 DEF ById

(* A list with one node taken out.                                         *)
LEMMA RemovedAt ==
    ASSUME NEW list \in Seq(Node), NEW p \in DOMAIN list
    PROVE  /\ RemoveAt(list, p) \in Seq(Node)
           /\ Len(RemoveAt(list, p)) = Len(list) - 1
           /\ \A n \in 1 .. Len(list) - 1 :
                RemoveAt(list, p)[n] = list[IF n < p THEN n ELSE n + 1]
<1> DEFINE a == SubSeq(list, 1, p - 1)  b == SubSeq(list, p + 1, Len(list))
<1>1. Len(list) \in Nat /\ DOMAIN list = 1 .. Len(list) /\ p \in 1 .. Len(list)
  BY LenProperties
<1>2. \A n \in 1 .. Len(list) : list[n] \in Node BY ElementOfSeq
<1>3. /\ a \in Seq(Node) /\ Len(a) = p - 1
      /\ \A n \in 1 .. p - 1 : a[n] = list[n]
  BY <1>1, <1>2, SubSeqProperties
<1>4. /\ b \in Seq(Node) /\ Len(b) = Len(list) - p
      /\ \A n \in 1 .. Len(list) - p : b[n] = list[p + n]
  <2>1. \A n \in p + 1 .. Len(list) : list[n] \in Node BY <1>1, <1>2
  <2>2. /\ b \in Seq(Node)
        /\ Len(b) = IF p + 1 <= Len(list) THEN (Len(list) - (p + 1)) + 1 ELSE 0
        /\ \A n \in 1 .. (Len(list) - (p + 1)) + 1 : b[n] = list[((p + 1) + n) - 1]
    BY <2>1, <1>1, SubSeqProperties
  <2> HIDE DEF b
  <2>3. ASSUME NEW n \in 1 .. Len(list) - p PROVE b[n] = list[p + n]
    <3>1. n \in 1 .. (Len(list) - (p + 1)) + 1 /\ ((p + 1) + n) - 1 = p + n
      BY <1>1
    <3> QED BY <2>2, <3>1
  <2>4. Len(b) = Len(list) - p
    <3> DEFINE l == Len(b)  k == Len(list)
    <3>1. l = IF p + 1 <= k THEN (k - (p + 1)) + 1 ELSE 0 BY <2>2
    <3>2. k \in Nat /\ p \in 1 .. k BY <1>1
    <3> HIDE DEF l, k
    <3> SUFFICES l = k - p BY DEF l, k
    <3> QED BY <3>1, <3>2
  <2> QED BY <2>2, <2>3, <2>4
<1> HIDE DEF a, b
<1>5. /\ a \o b \in Seq(Node) /\ Len(a \o b) = Len(a) + Len(b)
      /\ \A n \in 1 .. Len(a) + Len(b) :
           (a \o b)[n] = IF n <= Len(a) THEN a[n] ELSE b[n - Len(a)]
  BY <1>3, <1>4, ConcatProperties
<1>6. RemoveAt(list, p) = a \o b BY DEF RemoveAt, a, b
<1>7. ASSUME NEW n \in 1 .. Len(list) - 1
      PROVE  (a \o b)[n] = list[IF n < p THEN n ELSE n + 1]
  <2>0. n \in 1 .. Len(a) + Len(b) BY <1>1, <1>3, <1>4
  <2>1. CASE n < p
    <3>1. n <= Len(a) /\ n \in 1 .. p - 1 BY <1>1, <1>3, <2>1
    <3>2. (a \o b)[n] = a[n] BY <2>0, <3>1, <1>5
    <3>3. a[n] = list[n] BY <3>1, <1>3
    <3> QED BY <3>2, <3>3, <2>1
  <2>2. CASE ~ (n < p)
    <3>0. ~ (n <= Len(a)) BY <1>1, <1>3, <2>2
    <3>1. (a \o b)[n] = b[n - Len(a)] BY <2>0, <3>0, <1>5
    <3>2. n - Len(a) \in 1 .. Len(list) - p /\ p + (n - Len(a)) = n + 1
      BY <1>1, <1>3, <2>2
    <3> QED BY <3>1, <3>2, <1>4, <2>2
  <2> QED BY <2>1, <2>2
<1>8. Len(a \o b) = Len(list) - 1 BY <1>1, <1>3, <1>4, <1>5
<1> QED BY <1>5, <1>6, <1>7, <1>8
-----------------------------------------------------------------------------
(* What a save writes are CONFIG lines, and so is what is left of them.    *)

(* The categories by name.                                                 *)
LEMMA CategoriesKnown ==
    Category = {"FF_INTERFACE", "FF_SYSTEM", "FF_INPUT", "FF_MONITOR",
                "FF_SCHEDULE", "FF_RULE", "FF_CONTROLLER", "FF_OUTPUT"}
BY DEF Category, TypesOf

(* The keys that a save writes are keys of some category.                  *)
LEMMA KeysKnown ==
    {"bus_pin", "device_count", "dallas_address", "temp_scale", "language",
     "week_start", "start_delay", "interface", "if_num", "log_rate",
     "poll_rate", "data_units", "input1", "input2", "input3", "input4",
     "act_val", "deact_val", "days", "time_start", "time_end",
     "time_duration", "time_repeat", "param1", "param2", "param3",
     "param_not", "rule", "output", "act_cmd", "deact_cmd"} \subseteq Key
<1>2. \A c \in Category : KeysOf[c] \subseteq Key BY DEF Key
<1>3. /\ KeysOf["FF_INTERFACE"] = {"bus_pin", "device_count", "dallas_address"}
      /\ KeysOf["FF_SYSTEM"] = {"temp_scale", "language", "week_start", "start_delay"}
      /\ KeysOf["FF_INPUT"] = {"interface", "if_num", "log_rate", "poll_rate", "data_units"}
      /\ KeysOf["FF_MONITOR"] = {"input1", "input2", "input3", "input4", "act_val", "deact_val"}
  BY DEF KeysOf
<1>4. /\ KeysOf["FF_SCHEDULE"] = {"days", "time_start", "time_end", "time_duration", "time_repeat"}
      /\ KeysOf["FF_RULE"] = {"param1", "param2", "param3", "param_not"}
      /\ KeysOf["FF_CONTROLLER"] = {"rule", "output", "act_cmd", "deact_cmd"}
  BY DEF KeysOf
<1>5. {"bus_pin", "device_count", "dallas_address", "temp_scale", "language",
       "week_start", "start_delay", "interface", "if_num", "log_rate",
       "poll_rate", "data_units"} \subseteq Key
  BY CategoriesKnown, <1>2, <1>3
<1>6. {"input1", "input2", "input3", "input4", "act_val", "deact_val", "days",
       "time_start", "time_end", "time_duration", "time_repeat"} \subseteq Key
  BY CategoriesKnown, <1>2, <1>3, <1>4
<1>7. {"param1", "param2", "param3", "param_not", "rule", "output", "act_cmd",
       "deact_cmd"} \subseteq Key
  BY CategoriesKnown, <1>2, <1>4
<1> QED BY <1>5, <1>6, <1>7

(* What an id is written as: a label, or nothing.                          *)
LEMMA LabelText ==
    ASSUME NEW b \in Seq(Node), NEW i \in Seq(Node), NEW id
    PROVE  GetBlockLabelString(b, i, id) \in Label \cup {NoValue}
<1>1. ById(b, id) # 0 => b[ById(b, id)] \in Node BY ByIdFound, ElementOfSeq, LenProperties
<1>2. ById(i, id) # 0 => i[ById(i, id)] \in Node BY ByIdFound, ElementOfSeq, LenProperties
<1> QED BY <1>1, <1>2 DEF GetBlockLabelString, Node

(* The value of a setting is written as a text that can be read.           *)
LEMMA ValueTextTyped ==
    ASSUME bll \in Seq(Node), ill \in Seq(Node), NEW b, NEW key,
           NEW g \in {NoValue, "garbage"}
    PROVE  ValueText(b, key, g) \in Text
<1>1. GetBlockLabelString(bll, ill, b.settings[key]) \in Label \cup {NoValue}
  BY LabelText
<1>2. Label \cup {NoValue, "set", "garbage", "unset"} \subseteq Text BY DEF Text
<1> DEFINE l == GetBlockLabelString(bll, ill, b.settings[key])
<1> HIDE DEF l
<1> QED BY <1>1, <1>2 DEF ValueText, FlagToDayStr, l

(* One line.                                                               *)
LEMMA SaidTyped ==
    ASSUME NEW b \in Node, NEW key \in Key \cup {"type", "disable"},
           NEW val \in Text
    PROVE  Say(b, key, val) \in Seq(Line)
BY DEF Say, Line, Node

(* Lines after lines.                                                      *)
LEMMA LinesClosed ==
    /\ \A s, t \in Seq(Line) : s \o t \in Seq(Line)
    /\ \A s \in Seq(Line) : \A c : When(c, s) \in Seq(Line)
    /\ <<>> \in Seq(Line)
BY ConcatProperties, EmptySeq DEF When

(* The line of a setting, written always or under a condition.             *)
LEMMA PutTyped ==
    ASSUME bll \in Seq(Node), ill \in Seq(Node), NEW b \in Node,
           NEW key \in Key, NEW g \in {NoValue, "garbage"}, NEW c
    PROVE  /\ Put(b, key, g) \in Seq(Line)
           /\ PutIfSet(b, key, g) \in Seq(Line)
           /\ When(c, Put(b, key, g)) \in Seq(Line)
<1>1. Put(b, key, g) \in Seq(Line) BY ValueTextTyped, SaidTyped DEF Put
<1> QED BY <1>1, LinesClosed DEF PutIfSet

(* All the settings of an interface, or of a block.                        *)
LEMMA BlockLines ==
    ASSUME bll \in Seq(Node), ill \in Seq(Node), NEW b \in Node,
           NEW g \in {NoValue, "garbage"}
    PROVE  /\ PutInterface(b, g) \in Seq(Line)
           /\ b.cat # "FF_INTERFACE" => PutBlock(b, g) \in Seq(Line)
<1> DEFINE P(key) == Put(b, key, g)
           Q(key) == PutIfSet(b, key, g)
           W(c, key) == When(c, Put(b, key, g))
<1>1. \A key \in Key : P(key) \in Seq(Line) /\ Q(key) \in Seq(Line)
  BY PutTyped
<1>2. \A key \in Key : \A c : W(c, key) \in Seq(Line) BY PutTyped
<1>3. /\ PutInterface(b, g) = W(b.type \in {"IF_ONEWIRE_BUS", "IF_DS1820B"}, "bus_pin")
                               \o W(b.type = "IF_ONEWIRE_BUS", "device_count")
                               \o W(b.type = "IF_DS1820B", "dallas_address")
  BY DEF PutInterface
<1> DEFINE Sys == P("temp_scale") \o P("language") \o P("week_start") \o P("start_delay")
           Inp == P("interface") \o W(b.type # "IN_ONEWIRE", "if_num")
                  \o P("log_rate") \o P("poll_rate") \o P("data_units")
           Mon == P("input1") \o Q("input2") \o Q("input3")
                  \o W(b.settings["input2"] # UINT16_INIT, "input4")
                  \o P("act_val") \o P("deact_val")
           Sch == P("days") \o P("time_start") \o Q("time_end")
                  \o Q("time_duration") \o Q("time_repeat")
           Rul == P("param1") \o Q("param2") \o Q("param3") \o Q("param_not")
           Con == P("rule") \o P("output") \o P("act_cmd") \o P("deact_cmd")
           Out == P("interface") \o P("if_num")
<1>4. PutBlock(b, g) = CASE b.cat = "FF_SYSTEM" -> Sys [] b.cat = "FF_INPUT" -> Inp
                         [] b.cat = "FF_MONITOR" -> Mon [] b.cat = "FF_SCHEDULE" -> Sch
                         [] b.cat = "FF_RULE" -> Rul [] b.cat = "FF_CONTROLLER" -> Con
                         [] b.cat = "FF_OUTPUT" -> Out
  BY DEF PutBlock
<1> HIDE DEF P, Q, W
<1>5. PutInterface(b, g) \in Seq(Line) BY <1>2, <1>3, KeysKnown, LinesClosed
<1>6. Sys \in Seq(Line) BY <1>1, KeysKnown, LinesClosed
<1>7. Inp \in Seq(Line) BY <1>1, <1>2, KeysKnown, LinesClosed
<1>8. Mon \in Seq(Line) BY <1>1, <1>2, KeysKnown, LinesClosed
<1>9. Sch \in Seq(Line) BY <1>1, KeysKnown, LinesClosed
<1>10. Rul \in Seq(Line) BY <1>1, KeysKnown, LinesClosed
<1>11. Con \in Seq(Line) BY <1>1, KeysKnown, LinesClosed
<1>12. Out \in Seq(Line) BY <1>1, KeysKnown, LinesClosed
<1> HIDE DEF Sys, Inp, Mon, Sch, Rul, Con, Out
<1>13. b.cat \in Category BY DEF Node
<1> QED BY <1>4, <1>5, <1>6, <1>7, <1>8, <1>9, <1>10, <1>11, <1>12, <1>13,
           CategoriesKnown

(* All that WriteInterface or WriteBlock writes of a node.                 *)
LEMMA NodeLines ==
    ASSUME bll \in Seq(Node), ill \in Seq(Node), NEW b \in Node,
           NEW reg_only, NEW g \in {NoValue, "garbage"}
    PROVE  WriteNode(b, reg_only, g) \in Seq(Line)
<1> DEFINE first == Say(b, "type", IF b.type = NoType THEN g ELSE b.type)
           disabled == When(b.status = "DISABLED_ADMIN", Say(b, "disable", "True"))
           rest == IF b.cat = "FF_INTERFACE" THEN PutInterface(b, g) ELSE PutBlock(b, g)
<1>1. first \in Seq(Line)
  <2>1. b.type \in Text /\ g \in Text BY DEF Text, Node
  <2> QED BY <2>1, SaidTyped
<1>2. disabled \in Seq(Line)
  <2>1. "True" \in Text BY DEF Text
  <2> QED BY <2>1, SaidTyped, LinesClosed
<1>3. rest \in Seq(Line) BY BlockLines
<1>4. WriteNode(b, reg_only, g) = first \o When(~ reg_only, disabled \o rest)
  BY DEF WriteNode
<1> HIDE DEF first, disabled, rest
<1> QED BY <1>1, <1>2, <1>3, <1>4, LinesClosed

(* What a loss of power leaves of the file.                                *)
LEMMA RemainsTyped ==
    ASSUME NEW lines \in Seq(Line)
    PROVE  Remains(lines) \subseteq Seq(Line)
<1>1. Len(lines) \in Nat /\ DOMAIN lines = 1 .. Len(lines) BY LenProperties
<1>2. \A n \in 1 .. Len(lines) : lines[n] \in Line BY ElementOfSeq
<1>3. ASSUME NEW n \in 0 .. Len(lines)
      PROVE  SubSeq(lines, 1, n) \in Seq(Line)
  <2>1. \A i \in 1 .. n : lines[i] \in Line BY <1>1, <1>2
  <2>2. n \in Int BY <1>1
  <2> QED BY <2>1, <2>2, SubSeqProperties
<1>4. ASSUME NEW n \in DOMAIN lines, NEW val \in Text
      PROVE  Append(SubSeq(lines, 1, n - 1), [lines[n] EXCEPT !.val = val]) \in Seq(Line)
  <2>1. n - 1 \in 0 .. Len(lines) BY <1>1
  <2>2. SubSeq(lines, 1, n - 1) \in Seq(Line) BY <2>1, <1>3
  <2>3. lines[n] \in Line BY <1>1, <1>2
  <2>4. [lines[n] EXCEPT !.val = val] \in Line BY <2>3 DEF Line
  <2> HIDE DEF Line
  <2> QED BY <2>2, <2>4
<1>5. ASSUME NEW r \in Remains(lines)
      PROVE  r \in Seq(Line)
  <2>1. \/ \E n \in 0 .. Len(lines) : r = SubSeq(lines, 1, n)
        \/ \E p \in (DOMAIN lines) \X Text :
             r = Append(SubSeq(lines, 1, p[1] - 1), [lines[p[1]] EXCEPT !.val = p[2]])
    BY DEF Remains
  <2>2. CASE \E n \in 0 .. Len(lines) : r = SubSeq(lines, 1, n) BY <2>2, <1>3
  <2>3. CASE \E p \in (DOMAIN lines) \X Text :
               r = Append(SubSeq(lines, 1, p[1] - 1), [lines[p[1]] EXCEPT !.val = p[2]])
    <3>1. PICK p \in (DOMAIN lines) \X Text :
            r = Append(SubSeq(lines, 1, p[1] - 1), [lines[p[1]] EXCEPT !.val = p[2]])
      BY <2>3
    <3>2. p[1] \in DOMAIN lines /\ p[2] \in Text OBVIOUS
    <3> QED BY <3>1, <3>2, <1>4
  <2> QED BY <2>1, <2>2, <2>3
<1> QED BY <1>5
-----------------------------------------------------------------------------
(* What a CONFIG line does to the lists.                                   *)

Ids(list) == {list[n].id : n \in DOMAIN list}
Used(list) == {list[n].settings[k] : n \in DOMAIN list, k \in Key}

(* The ids and the settings of a list, by their nodes.                     *)
LEMMA UsedThere ==
    ASSUME NEW list
    PROVE  /\ \A n \in DOMAIN list, k \in Key : list[n].settings[k] \in Used(list)
           /\ \A n \in DOMAIN list : list[n].id \in Ids(list)
BY DEF Used, Ids

(* A bound on each setting bounds them all.                                *)
LEMMA UsedWithin ==
    ASSUME NEW list, NEW S,
           \A n \in DOMAIN list, k \in Key : list[n].settings[k] \in S
    PROVE  Used(list) \subseteq S
BY DEF Used

(* The values of settings that are no ids of nodes.                        *)
Plain == {M_FF_ERROR, SET, NO_DAY, A_DAY, UINT16_INIT}

(* Every node of the second list is one of the first, and no two are the   *)
(* same one; one at most is new, with the given id.                        *)
From(old, new, id) ==
    \E h \in [DOMAIN new -> DOMAIN old \cup {0}] :
      /\ \A n \in DOMAIN new :
           IF h[n] = 0 THEN new[n].id = id
           ELSE new[n].id = old[h[n]].id /\ new[n].label = old[h[n]].label
      /\ \A m, n \in DOMAIN new : h[m] = h[n] => m = n

(* A setting changes neither the id nor the label of the node, and comes   *)
(* to hold a plain value or the id of a node that is on a list.            *)
LEMMA ConfiguredNode ==
    ASSUME ill \in Seq(Node), NEW blocks \in Seq(Node), NEW b \in Node,
           NEW line \in Line
    PROVE  /\ Configured(b, blocks, line) \in Node
           /\ Configured(b, blocks, line).id = b.id
           /\ Configured(b, blocks, line).label = b.label
           /\ \A k \in Key : Configured(b, blocks, line).settings[k]
                \in {b.settings[k]} \cup Plain \cup Ids(blocks) \cup Ids(ill)
<1> DEFINE type == BlockTypeStringArrayIndex(b.cat, line.val)
           status == CASE line.val = "True" -> "DISABLED_ADMIN"
                       [] line.val = "False" -> "DISABLED_INIT"
                       [] OTHER -> b.status
           id == GetBlockIDByLabel(blocks, ill, line.val)
           value == Parsed(line.key, line.val)
           Set(v) == [b EXCEPT !.settings[line.key] = v]
<1>1. type \in BlockType
  <2>1. b.cat \in Category BY DEF Node
  <2>2. TypesOf[b.cat] \in {TypesOf[c] : c \in Category} BY <2>1
  <2> DEFINE types == UNION {TypesOf[c] : c \in Category}
  <2>3. BlockType = types \cup {NoType, "BT_ERROR"} BY DEF BlockType, types
  <2>4. TypesOf[b.cat] \subseteq types BY <2>2
  <2> HIDE DEF types
  <2> QED BY <2>3, <2>4 DEF BlockTypeStringArrayIndex
<1>2. status \in Status BY DEF Node, Status
<1>3. id \in Plain \cup Ids(blocks) \cup Ids(ill) /\ id \in Nat
  <2>1. \A n \in DOMAIN blocks : blocks[n] \in Node BY ElementOfSeq, LenProperties
  <2>2. \A n \in DOMAIN ill : ill[n] \in Node BY ElementOfSeq, LenProperties
  <2> DEFINE p == ByLabel(blocks, line.val)  q == ByLabel(ill, line.val)
  <2>3. p \in DOMAIN blocks \cup {0} /\ q \in DOMAIN ill \cup {0} BY ByLabelFound
  <2>4. id = IF p # 0 THEN blocks[p].id ELSE IF q # 0 THEN ill[q].id ELSE M_FF_ERROR
    BY DEF GetBlockIDByLabel
  <2> HIDE DEF p, q, id
  <2>5. \A n \in DOMAIN blocks : blocks[n].id \in Nat BY <2>1 DEF Node
  <2>6. \A n \in DOMAIN ill : ill[n].id \in Nat BY <2>2 DEF Node
  <2>7. M_FF_ERROR \in Nat BY DEF M_FF_ERROR
  <2> QED BY <2>3, <2>4, <2>5, <2>6, <2>7 DEF Ids, Plain
<1>4. value \in Plain /\ value \in Nat
  BY DEF Parsed, StringArrayIndex, StringToTimeValue, DayStrToFlag,
         DallasAddressStringToArray, Number, Plain, SET, NO_DAY, A_DAY, UINT16_INIT
<1>5. ASSUME NEW v \in Nat
      PROVE  /\ Set(v) \in Node /\ Set(v).id = b.id /\ Set(v).label = b.label
             /\ \A k \in Key : Set(v).settings[k] \in {b.settings[k], v}
  BY DEF Node
<1>6. [b EXCEPT !.type = type] \in Node BY <1>1 DEF Node
<1>7. [b EXCEPT !.status = status] \in Node BY <1>2 DEF Node
<1>8. Configured(b, blocks, line) = [b EXCEPT !.type = type]
      \/ Configured(b, blocks, line) = [b EXCEPT !.status = status]
      \/ Configured(b, blocks, line) = Set(id)
      \/ Configured(b, blocks, line) = Set(value)
      \/ Configured(b, blocks, line) = b
  BY DEF Configured
<1>9. CASE Configured(b, blocks, line) = [b EXCEPT !.type = type]
  <2> HIDE DEF type
  <2> QED BY <1>6, <1>9 DEF Node
<1>10. CASE Configured(b, blocks, line) = [b EXCEPT !.status = status]
  <2> HIDE DEF status
  <2> QED BY <1>7, <1>10 DEF Node
<1> HIDE DEF id, value, Set
<1>11. CASE Configured(b, blocks, line) = Set(id) BY <1>3, <1>5, <1>11
<1>12. CASE Configured(b, blocks, line) = Set(value) BY <1>4, <1>5, <1>12
<1>13. CASE Configured(b, blocks, line) = b BY <1>13
<1> QED BY <1>8, <1>9, <1>10, <1>11, <1>12, <1>13

(* A new node holds plain values only.                                     *)
LEMMA NewNodeTyped ==
    ASSUME NEW cat \in Category, NEW label \in Label, NEW type \in BlockType,
           NEW id \in Nat, NEW settings \in {NewBlockSettings, NewIFSettings}
    PROVE  /\ NewNode(cat, label, type, id, settings) \in Node
           /\ NewNode(cat, label, type, id, settings).id = id
           /\ NewNode(cat, label, type, id, settings).label = label
           /\ \A k \in Key :
                NewNode(cat, label, type, id, settings).settings[k] \in Plain
<1>1. "DISABLED_INIT" \in Status BY DEF Status
<1>2. settings \in [Key -> {SET, UINT16_INIT}]
  BY DEF NewBlockSettings, NewIFSettings
<1>3. settings \in [Key -> Nat] BY <1>2 DEF SET, UINT16_INIT
<1> QED BY <1>1, <1>2, <1>3 DEF NewNode, Node, Plain

(* A list with each node replaced by one with its id and label.            *)
LEMMA SameNodes ==
    ASSUME NEW old \in Seq(Node), NEW new \in Seq(Node), NEW id,
           Len(new) = Len(old),
           \A n \in 1 .. Len(old) : new[n].id = old[n].id /\ new[n].label = old[n].label
    PROVE  From(old, new, id)
<1>1. /\ DOMAIN old = 1 .. Len(old) /\ DOMAIN new = 1 .. Len(old) /\ Len(old) \in Nat
  BY LenProperties
<1> DEFINE h == [n \in DOMAIN new |-> n]
<1>2. h \in [DOMAIN new -> DOMAIN old \cup {0}] BY <1>1
<1>3. \A n \in DOMAIN new : h[n] = n /\ n # 0 BY <1>1
<1> HIDE DEF h
<1> QED BY <1>1, <1>2, <1>3 DEF From

(* ... or with a node more.                                                *)
LEMMA OneMore ==
    ASSUME NEW old \in Seq(Node), NEW new \in Seq(Node),
           Len(new) = Len(old) + 1,
           \A n \in 1 .. Len(old) : new[n].id = old[n].id /\ new[n].label = old[n].label
    PROVE  From(old, new, new[Len(new)].id)
<1>1. /\ DOMAIN old = 1 .. Len(old) /\ DOMAIN new = 1 .. Len(old) + 1 /\ Len(old) \in Nat
  BY LenProperties
<1> DEFINE h == [n \in DOMAIN new |-> IF n = Len(new) THEN 0 ELSE n]
<1>2. h \in [DOMAIN new -> DOMAIN old \cup {0}] BY <1>1
<1>3. \A n \in DOMAIN new : h[n] = (IF n = Len(new) THEN 0 ELSE n) /\ n # 0 BY <1>1
<1>4. \A n \in DOMAIN new : n # Len(new) => n \in 1 .. Len(old) BY <1>1
<1> HIDE DEF h
<1> QED BY <1>2, <1>3, <1>4 DEF From

(* ... or with a node less.                                                *)
LEMMA OneLess ==
    ASSUME NEW old \in Seq(Node), NEW p \in DOMAIN old, NEW id
    PROVE  From(old, RemoveAt(old, p), id)
<1> DEFINE new == RemoveAt(old, p)
<1>1. /\ new \in Seq(Node) /\ Len(new) = Len(old) - 1
      /\ \A n \in 1 .. Len(old) - 1 : new[n] = old[IF n < p THEN n ELSE n + 1]
  BY RemovedAt
<1> HIDE DEF new
<1>2. /\ DOMAIN old = 1 .. Len(old) /\ Len(old) \in Nat /\ p \in 1 .. Len(old)
      /\ DOMAIN new = 1 .. Len(old) - 1
  BY <1>1, LenProperties
<1> DEFINE h == [n \in DOMAIN new |-> IF n < p THEN n ELSE n + 1]
<1>3. h \in [DOMAIN new -> DOMAIN old \cup {0}] BY <1>2
<1>4. \A n \in DOMAIN new : h[n] = (IF n < p THEN n ELSE n + 1) /\ h[n] # 0 BY <1>2
<1>5. \A m, n \in DOMAIN new : h[m] = h[n] => m = n BY <1>2, <1>4
<1>6. \A n \in DOMAIN new : new[n] = old[h[n]] BY <1>1, <1>2, <1>4
<1> HIDE DEF h
<1> QED BY <1>3, <1>4, <1>5, <1>6 DEF From, new

(* An emptied list.                                                        *)
LEMMA NoneLeft ==
    ASSUME NEW old, NEW id
    PROVE  From(old, <<>>, id)
<1> DEFINE h == [n \in {} |-> 0]
<1>1. DOMAIN <<>> = {} OBVIOUS
<1>2. h \in [{} -> DOMAIN old \cup {0}] OBVIOUS
<1> QED BY <1>1, <1>2 DEF From

(* How a step may change the lists, and what settings may come to hold.    *)
ListStep ==
    \/ From(bll, bll', SSS) /\ From(ill, ill', SSS) /\ block_count' = block_count
    \/ /\ From(bll, bll', BLOCK_ID_BASE + block_count) /\ From(ill, ill', SSS)
       /\ block_count' = block_count + 1
    \/ /\ From(bll, bll', SSS) /\ From(ill, ill', BLOCK_ID_BASE + block_count)
       /\ block_count' = block_count + 1
    \/ bll' = <<>> /\ ill' = <<>> /\ block_count' = 0

SettingsStep ==
    Used(bll') \cup Used(ill')
      \subseteq Used(bll) \cup Used(ill) \cup Plain \cup Ids(bll') \cup Ids(ill')

ListsTyped == bll \in Seq(Node) /\ ill \in Seq(Node) /\ block_count \in 0 .. MaxNodes

LineStep ==
    /\ ListsTyped' /\ ListStep /\ SettingsStep
    /\ Ids(bll) \subseteq Ids(bll') /\ Ids(ill) \subseteq Ids(ill')

(* A node with its settings changed, to what they were or to values of S.  *)
Kept(old, new, S) ==
    /\ new \in Node /\ new.id = old.id /\ new.label = old.label
    /\ \A k \in Key : new.settings[k] \in {old.settings[k]} \cup S

(* A list with the settings of some nodes changed so.                      *)
KeptAll(old, new, S) ==
    /\ new \in Seq(Node) /\ Len(new) = Len(old)
    /\ \A m \in 1 .. Len(old) : new[m].id = old[m].id /\ new[m].label = old[m].label
    /\ Ids(new) = Ids(old)
    /\ Used(new) \subseteq Used(old) \cup S

(* A list with one node set.                                               *)
LEMMA OneSet ==
    ASSUME NEW list \in Seq(Node), NEW n \in DOMAIN list, NEW c, NEW S,
           Kept(list[n], c, S)
    PROVE  KeptAll(list, [list EXCEPT ![n] = c], S)
<1>0. /\ c \in Node /\ c.id = list[n].id /\ c.label = list[n].label
      /\ \A k \in Key : c.settings[k] \in {list[n].settings[k]} \cup S
  BY DEF Kept
<1> DEFINE new == [list EXCEPT ![n] = c]
<1>1. DOMAIN list = 1 .. Len(list) /\ list[n] \in Node BY LenProperties, ElementOfSeq
<1>3. /\ new \in Seq(Node) /\ Len(new) = Len(list)
      /\ \A m \in 1 .. Len(list) : new[m] = IF m = n THEN c ELSE list[m]
  BY <1>0, <1>1, ExceptSeq
<1>4. DOMAIN new = 1 .. Len(list) BY <1>3, LenProperties
<1> HIDE DEF new
<1>5. \A m \in 1 .. Len(list) : new[m].id = list[m].id /\ new[m].label = list[m].label
  BY <1>0, <1>3
<1>6. Ids(new) = Ids(list)
  <2>1. \A m \in 1 .. Len(list) : new[m].id \in Ids(list) /\ list[m].id \in Ids(new)
    <3> SUFFICES ASSUME NEW m \in 1 .. Len(list)
                 PROVE  new[m].id \in Ids(list) /\ list[m].id \in Ids(new)
      OBVIOUS
    <3>1. new[m].id \in Ids(new) BY <1>4 DEF Ids
    <3>2. list[m].id \in Ids(list) BY <1>1 DEF Ids
    <3>3. new[m].id = list[m].id BY <1>5
    <3> QED BY <3>1, <3>2, <3>3
  <2>2. Ids(new) \subseteq Ids(list) BY <2>1, <1>4 DEF Ids
  <2>3. Ids(list) \subseteq Ids(new) BY <2>1, <1>1 DEF Ids
  <2> QED BY <2>2, <2>3
<1>7. ASSUME NEW m \in 1 .. Len(list), NEW k \in Key
      PROVE  new[m].settings[k] \in Used(list) \cup S
  <2>1. list[m].settings[k] \in Used(list) BY <1>1, UsedThere
  <2>2. CASE m = n
    <3>1. new[m] = c /\ list[m] = list[n] BY <1>3, <2>2
    <3> QED BY <3>1, <2>1, <1>0
  <2>3. CASE m # n
    <3>1. new[m] = list[m] BY <1>3, <2>3
    <3> QED BY <3>1, <2>1
  <2> QED BY <2>2, <2>3
<1>8. Used(new) \subseteq Used(list) \cup S
  BY <1>4, <1>7, UsedWithin
<1> QED BY <1>3, <1>5, <1>6, <1>8 DEF new, KeptAll

(* A list with one node added.                                             *)
LEMMA OneAdded ==
    ASSUME NEW list \in Seq(Node), NEW b \in Node,
           \A k \in Key : b.settings[k] \in Plain
    PROVE  LET new == Append(list, b)
           IN /\ new \in Seq(Node) /\ Len(new) = Len(list) + 1
              /\ \A m \in 1 .. Len(list) : new[m] = list[m]
              /\ new[Len(new)] = b
              /\ Ids(list) \subseteq Ids(new)
              /\ Used(new) \subseteq Used(list) \cup Plain
<1> DEFINE new == Append(list, b)
<1>1. /\ new \in Seq(Node) /\ Len(new) = Len(list) + 1 /\ Len(list) \in Nat
      /\ \A m \in 1 .. Len(list) : new[m] = list[m]
      /\ new[Len(list) + 1] = b
  BY LenProperties
<1>2. DOMAIN list = 1 .. Len(list) /\ DOMAIN new = 1 .. Len(list) + 1
  BY <1>1, LenProperties
<1> HIDE DEF new
<1>3. Ids(list) \subseteq Ids(new) BY <1>1, <1>2 DEF Ids
<1>4. ASSUME NEW m \in 1 .. Len(list) + 1, NEW k \in Key
      PROVE  new[m].settings[k] \in Used(list) \cup Plain
  <2>1. CASE m = Len(list) + 1 BY <1>1, <2>1
  <2>2. CASE m \in 1 .. Len(list) BY <1>1, <1>2, <2>2 DEF Used
  <2> QED BY <2>1, <2>2, <1>1
<1>5. Used(new) \subseteq Used(list) \cup Plain BY <1>2, <1>4 DEF Used
<1> QED BY <1>1, <1>3, <1>5 DEF new

(* ConfigureBlock sets one node, after adding it when its label is new.    *)
LEMMA BlockLine ==
    ASSUME ListsTyped, block_count < MaxNodes, NEW line \in Line,
           ConfigureBlock(line)
    PROVE  LineStep
<1> DEFINE known == ByLabel(bll, line.label) # 0
           b == NewBlockNode(line.cat, line.label)
           blocks == IF known THEN bll ELSE Append(bll, b)
           n == ByLabel(blocks, line.label)
           counted == known \/ line.cat = "FF_SYSTEM"
<1>1. /\ bll' = [blocks EXCEPT ![n] = Configured(@, blocks, line)]
      /\ block_count' = IF counted THEN block_count ELSE block_count + 1
      /\ ill' = ill
  BY DEF ConfigureBlock
<1>2. bll \in Seq(Node) /\ ill \in Seq(Node) /\ block_count \in Nat /\ MaxNodes \in Nat
      /\ block_count \in 0 .. MaxNodes
  BY BoundsAssumption DEF ListsTyped
<1>3. line.cat \in Category /\ line.label \in Label BY DEF Line
<1>4. /\ b \in Node /\ b.label = line.label
      /\ b.id = IF line.cat = "FF_SYSTEM" THEN SSS ELSE BLOCK_ID_BASE + block_count
      /\ \A k \in Key : b.settings[k] \in Plain
  <2> DEFINE id == IF line.cat = "FF_SYSTEM" THEN SSS ELSE BLOCK_ID_BASE + block_count
  <2>1. id \in Nat BY <1>2 DEF SSS, BLOCK_ID_BASE
  <2>2. NoType \in BlockType BY DEF BlockType
  <2>3. b = NewNode(line.cat, line.label, NoType, id, NewBlockSettings)
    BY DEF NewBlockNode
  <2> HIDE DEF b, id
  <2>4. /\ b \in Node /\ b.label = line.label /\ b.id = id
        /\ \A k \in Key : b.settings[k] \in Plain
    BY <1>3, <2>1, <2>2, <2>3, NewNodeTyped
  <2> QED BY <2>4 DEF id
<1> HIDE DEF b
<1>5. /\ blocks \in Seq(Node) /\ Len(bll) <= Len(blocks)
      /\ \A m \in 1 .. Len(bll) : blocks[m] = bll[m]
      /\ known => blocks = bll
      /\ ~ known => Len(blocks) = Len(bll) + 1 /\ blocks[Len(blocks)] = b
      /\ Ids(bll) \subseteq Ids(blocks)
      /\ Used(blocks) \subseteq Used(bll) \cup Plain
  <2>1. CASE known BY <2>1, <1>2, LenProperties
  <2>2. CASE ~ known
    <3>1. Len(bll) \in Nat BY <1>2, LenProperties
    <3> QED BY <2>2, <3>1, <1>2, <1>4, OneAdded
  <2> QED BY <2>1, <2>2
<1> HIDE DEF blocks
<1>6. n \in DOMAIN blocks
  <2>1. n \in DOMAIN blocks \cup {0}
        /\ (n = 0 => \A m \in DOMAIN blocks : blocks[m].label # line.label)
    BY <1>5, ByLabelFound
  <2>2. CASE known BY <2>1, <2>2, <1>5
  <2>3. CASE ~ known
    <3>1. Len(blocks) \in DOMAIN blocks
      BY <1>2, <1>5, <2>3, LenProperties
    <3> QED BY <3>1, <2>1, <2>3, <1>4, <1>5
  <2> QED BY <2>2, <2>3
<1> HIDE DEF n, known
<1>7. /\ bll' \in Seq(Node) /\ Len(bll') = Len(blocks)
      /\ \A m \in 1 .. Len(blocks) : bll'[m].id = blocks[m].id /\ bll'[m].label = blocks[m].label
      /\ Ids(bll') = Ids(blocks)
      /\ Used(bll') \subseteq Used(blocks) \cup Plain \cup Ids(blocks) \cup Ids(ill)
  <2> DEFINE c == Configured(blocks[n], blocks, line)
             S == Plain \cup Ids(blocks) \cup Ids(ill)
  <2>1. blocks[n] \in Node BY <1>5, <1>6, ElementOfSeq, LenProperties
  <2>2. /\ c \in Node /\ c.id = blocks[n].id /\ c.label = blocks[n].label
        /\ \A k \in Key : c.settings[k] \in {blocks[n].settings[k]} \cup S
    BY <1>2, <1>5, <2>1, ConfiguredNode
  <2>8. Kept(blocks[n], c, S) BY <2>2 DEF Kept
  <2>3. bll' = [blocks EXCEPT ![n] = c] BY <1>1
  <2>4. Used(blocks) \cup Plain \cup Ids(blocks) \cup Ids(ill) = Used(blocks) \cup S
    OBVIOUS
  <2> HIDE DEF c, S
  <2>5. blocks \in Seq(Node) BY <1>5
  <2> DEFINE new == [blocks EXCEPT ![n] = c]
  <2>6. /\ new \in Seq(Node) /\ Len(new) = Len(blocks)
        /\ \A m \in 1 .. Len(blocks) :
             new[m].id = blocks[m].id /\ new[m].label = blocks[m].label
        /\ Ids(new) = Ids(blocks)
        /\ Used(new) \subseteq Used(blocks) \cup S
    <3>1. KeptAll(blocks, new, S) BY <1>6, <2>5, <2>8, OneSet
    <3> HIDE DEF new
    <3> QED BY <3>1 DEF KeptAll
  <2> HIDE DEF new
  <2>7. bll' = new BY <2>3 DEF new
  <2> QED BY <2>4, <2>6, <2>7
<1>8. Len(bll) \in Nat /\ Len(blocks) \in Nat BY <1>2, <1>5, LenProperties
<1>9. \A m \in 1 .. Len(bll) : bll'[m].id = bll[m].id /\ bll'[m].label = bll[m].label
  BY <1>5, <1>7, <1>8
<1>10. \A id : From(ill, ill', id) BY <1>1, <1>2, SameNodes
<1>11. ListStep
  <2>1. CASE known
    <3>1. \A id : From(bll, bll', id) BY <1>2, <1>5, <1>7, <1>9, <2>1, SameNodes
    <3> QED BY <3>1, <1>1, <1>10, <2>1 DEF ListStep
  <2>2. CASE ~ known
    <3>1. From(bll, bll', bll'[Len(bll')].id) BY <1>2, <1>5, <1>7, <1>9, <2>2, OneMore
    <3>2. bll'[Len(bll')].id = b.id BY <1>5, <1>7, <1>8, <2>2
    <3> QED BY <3>1, <3>2, <1>1, <1>4, <1>10, <2>2 DEF ListStep
  <2> QED BY <2>1, <2>2
<1>12. Ids(bll) \subseteq Ids(bll') /\ Ids(ill) \subseteq Ids(ill') BY <1>1, <1>5, <1>7
<1>13. SettingsStep BY <1>1, <1>5, <1>7 DEF SettingsStep
<1>14. block_count' \in 0 .. MaxNodes BY <1>1, <1>2
<1> QED BY <1>1, <1>2, <1>7, <1>11, <1>12, <1>13, <1>14 DEF LineStep, ListsTyped

(* ConfigureInterface adds an interface, sets one, or does nothing.        *)
LEMMA InterfaceLine ==
    ASSUME ListsTyped, block_count < MaxNodes, NEW line \in Line,
           line.cat = "FF_INTERFACE", ConfigureInterface(line)
    PROVE  LineStep
<1> DEFINE n == ByLabel(ill, line.label)
           added == /\ n = 0 /\ line.key = "type"
                    /\ line.val \in TypesOf.FF_INTERFACE
           taken == n # 0
           b == NewInterfaceNode(line.val, line.label)
           c == ConfigureIFSetting(ill[n], line)
           S == Plain \cup Ids(bll) \cup Ids(ill)
<1>1. /\ ill' = CASE added -> Append(ill, b)
                   [] taken -> [ill EXCEPT ![n] = c]
                   [] OTHER -> ill
      /\ block_count' = IF added THEN block_count + 1 ELSE block_count
      /\ bll' = bll
  BY DEF ConfigureInterface, AddInterface
<1>2. bll \in Seq(Node) /\ ill \in Seq(Node) /\ block_count \in Nat /\ MaxNodes \in Nat
      /\ block_count \in 0 .. MaxNodes
  BY BoundsAssumption DEF ListsTyped
<1>3. line.label \in Label BY DEF Line
<1>4. n \in DOMAIN ill \cup {0} BY <1>2, ByLabelFound
<1>5. \A id : From(bll, bll', id) BY <1>1, <1>2, SameNodes
<1>6. added => ~ taken OBVIOUS
<1>7. added => /\ b \in Node /\ b.id = BLOCK_ID_BASE + block_count
               /\ \A k \in Key : b.settings[k] \in Plain
  <2> SUFFICES ASSUME added
               PROVE  /\ b \in Node /\ b.id = BLOCK_ID_BASE + block_count
                      /\ \A k \in Key : b.settings[k] \in Plain
    OBVIOUS
  <2>1. "FF_INTERFACE" \in Category /\ line.val \in BlockType
    BY CategoriesKnown DEF BlockType, TypesOf
  <2>2. BLOCK_ID_BASE + block_count \in Nat BY <1>2 DEF BLOCK_ID_BASE
  <2> QED BY <2>1, <2>2, <1>3, NewNodeTyped DEF NewInterfaceNode
<1>8. taken => Kept(ill[n], c, S)
  <2> SUFFICES ASSUME taken PROVE Kept(ill[n], c, S) OBVIOUS
  <2>1. ill[n] \in Node BY <1>2, <1>4, ElementOfSeq, LenProperties
  <2>2. c = Configured(ill[n], bll, line) \/ c = ill[n]
    BY DEF ConfigureIFSetting, ConfigureIFSpecificSetting
  <2>3. /\ Configured(ill[n], bll, line) \in Node
        /\ Configured(ill[n], bll, line).id = ill[n].id
        /\ Configured(ill[n], bll, line).label = ill[n].label
        /\ \A k \in Key : Configured(ill[n], bll, line).settings[k]
                            \in {ill[n].settings[k]} \cup S
    BY <1>2, <2>1, ConfiguredNode
  <2> HIDE DEF c, S
  <2> QED BY <2>1, <2>2, <2>3 DEF Kept
<1> HIDE DEF b, c
<1>9. CASE added
  <2>1. ill' = Append(ill, b) BY <1>1, <1>9
  <2>2. Len(ill) \in Nat BY <1>2, LenProperties
  <2>3. /\ ill' \in Seq(Node) /\ Len(ill') = Len(ill) + 1
        /\ \A m \in 1 .. Len(ill) : ill'[m] = ill[m]
        /\ ill'[Len(ill')] = b
        /\ Ids(ill) \subseteq Ids(ill')
        /\ Used(ill') \subseteq Used(ill) \cup Plain
    BY <1>2, <1>7, <1>9, <2>1, OneAdded
  <2>4. From(ill, ill', ill'[Len(ill')].id) BY <1>2, <2>3, OneMore
  <2>5. From(ill, ill', BLOCK_ID_BASE + block_count) BY <2>3, <2>4, <1>7, <1>9
  <2>6. block_count' = block_count + 1 /\ bll' = bll BY <1>1, <1>9
  <2>7. ListStep BY <1>5, <2>5, <2>6 DEF ListStep
  <2>8. SettingsStep BY <2>3, <2>6 DEF SettingsStep
  <2>9. ListsTyped' BY <1>2, <2>3, <2>6 DEF ListsTyped
  <2> QED BY <2>3, <2>6, <2>7, <2>8, <2>9 DEF LineStep
<1>10. CASE ~ added
  <2>1. bll' = bll /\ block_count' = block_count BY <1>1, <1>10
  <2>2. \/ ill' = [ill EXCEPT ![n] = c] /\ taken
        \/ ill' = ill
    BY <1>1, <1>10
  <2> HIDE DEF n, taken, S
  <2>3. KeptAll(ill, ill', S)
    <3>1. CASE ill' = [ill EXCEPT ![n] = c] /\ taken
      <4>1. n \in DOMAIN ill BY <3>1, <1>4 DEF taken
      <4>2. KeptAll(ill, [ill EXCEPT ![n] = c], S) BY <4>1, <1>2, <1>8, <3>1, OneSet
      <4> QED BY <4>2, <3>1
    <3>2. CASE ill' = ill
      BY <3>2, <1>2 DEF KeptAll
    <3> QED BY <2>2, <3>1, <3>2
  <2>4. /\ ill' \in Seq(Node) /\ Len(ill') = Len(ill)
        /\ \A m \in 1 .. Len(ill) : ill'[m].id = ill[m].id /\ ill'[m].label = ill[m].label
        /\ Ids(ill') = Ids(ill)
        /\ Used(ill') \subseteq Used(ill) \cup S
    BY <2>3 DEF KeptAll
  <2>5. From(ill, ill', SSS) BY <1>2, <2>4, SameNodes
  <2>6. ListStep BY <1>5, <2>1, <2>5 DEF ListStep
  <2>7. SettingsStep BY <2>1, <2>4 DEF SettingsStep, S
  <2>8. ListsTyped' BY <1>2, <2>1, <2>4 DEF ListsTyped
  <2> QED BY <2>1, <2>4, <2>6, <2>7, <2>8 DEF LineStep
<1> QED BY <1>9, <1>10

(* A CONFIG line, from the console or from a file.                         *)
LEMMA ConfiguredLine ==
    ASSUME ListsTyped, NEW line \in Line, Configure(line)
    PROVE  LineStep
<1>1. CASE line.cat = "FF_INTERFACE" BY <1>1, InterfaceLine DEF Configure
<1>2. CASE line.cat # "FF_INTERFACE" BY <1>2, BlockLine DEF Configure
<1> QED BY <1>1, <1>2

(* A line that is passed over.                                             *)
LEMMA NoLine ==
    ASSUME ListsTyped, UNCHANGED lists
    PROVE  LineStep
<1>1. bll' = bll /\ ill' = ill /\ block_count' = block_count BY DEF lists
<1>2. From(bll, bll', SSS) /\ From(ill, ill', SSS) BY <1>1, SameNodes DEF ListsTyped
<1>3. ListsTyped' BY <1>1 DEF ListsTyped
<1>4. ListStep BY <1>1, <1>2 DEF ListStep
<1>5. SettingsStep BY <1>1 DEF SettingsStep
<1> QED BY <1>1, <1>3, <1>4, <1>5 DEF LineStep

(* A line of the file.                                                     *)
LEMMA LoadedLine ==
    ASSUME TypeOK, LoadLine
    PROVE  LineStep
<1>1. ListsTyped BY DEF TypeOK, ListsTyped
<1>2. file[pos + 1] \in Line
  <2>1. pos \in Nat /\ file \in Seq(Line) /\ pos < Len(file) BY DEF TypeOK, LoadLine
  <2>2. Len(file) \in Nat BY <2>1, LenProperties
  <2>3. pos + 1 \in 1 .. Len(file) BY <2>1, <2>2
  <2> QED BY <2>1, <2>3, ElementOfSeq
<1>3. ConfigParse(file[pos + 1]) BY DEF LoadLine
<1> QED BY <1>1, <1>2, <1>3, ConfiguredLine, NoLine DEF ConfigParse
-----------------------------------------------------------------------------
(* The other steps.                                                        *)

ListsStep == ListsTyped' /\ ListStep /\ SettingsStep

(* A list with the settings of any of its nodes changed.                   *)
LEMMA AllKept ==
    ASSUME NEW old \in Seq(Node), NEW new, NEW S,
           new = [n \in DOMAIN old |-> new[n]],
           \A n \in DOMAIN old : Kept(old[n], new[n], S)
    PROVE  KeptAll(old, new, S)
<1>1. DOMAIN old = 1 .. Len(old) /\ Len(old) \in Nat BY LenProperties
<1>2. \A n \in DOMAIN old :
         /\ new[n] \in Node /\ new[n].id = old[n].id /\ new[n].label = old[n].label
         /\ \A k \in Key : new[n].settings[k] \in {old[n].settings[k]} \cup S
  BY DEF Kept
<1>3. DOMAIN new = DOMAIN old OBVIOUS
<1>4. new \in [1 .. Len(old) -> Node] BY <1>1, <1>2
<1>5. new \in Seq(Node) /\ Len(new) = Len(old)
  <2>1. new \in Seq(Node) BY <1>1, <1>4, SeqDef
  <2>2. DOMAIN new = 1 .. Len(new) /\ Len(new) \in Nat BY <2>1, LenProperties
  <2> QED BY <2>1, <2>2, <1>1, <1>3
<1>6. Ids(new) = Ids(old)
  <2>1. \A n \in DOMAIN old : new[n].id \in Ids(old) /\ old[n].id \in Ids(new)
    <3> SUFFICES ASSUME NEW n \in DOMAIN old
                 PROVE  new[n].id \in Ids(old) /\ old[n].id \in Ids(new)
      OBVIOUS
    <3>1. new[n].id \in Ids(new) /\ old[n].id \in Ids(old) BY <1>3 DEF Ids
    <3>2. new[n].id = old[n].id BY <1>2
    <3> QED BY <3>1, <3>2
  <2> QED BY <2>1, <1>3 DEF Ids
<1>7. ASSUME NEW n \in DOMAIN old, NEW k \in Key
      PROVE  new[n].settings[k] \in Used(old) \cup S
  BY <1>2, UsedThere
<1>8. Used(new) \subseteq Used(old) \cup S BY <1>3, <1>7, UsedWithin
<1> QED BY <1>1, <1>2, <1>5, <1>6, <1>8 DEF KeptAll

(* A step that keeps the nodes and their ids.                              *)
LEMMA KeepsNodes ==
    ASSUME ListsTyped, block_count' = block_count,
           NEW S, S \subseteq Used(bll) \cup Used(ill) \cup Plain,
           KeptAll(bll, bll', S), KeptAll(ill, ill', S)
    PROVE  ListsStep
<1>1. /\ bll' \in Seq(Node) /\ Len(bll') = Len(bll)
      /\ \A n \in 1 .. Len(bll) : bll'[n].id = bll[n].id /\ bll'[n].label = bll[n].label
      /\ Used(bll') \subseteq Used(bll) \cup S
  BY DEF KeptAll
<1>2. /\ ill' \in Seq(Node) /\ Len(ill') = Len(ill)
      /\ \A n \in 1 .. Len(ill) : ill'[n].id = ill[n].id /\ ill'[n].label = ill[n].label
      /\ Used(ill') \subseteq Used(ill) \cup S
  BY DEF KeptAll
<1>3. bll \in Seq(Node) /\ ill \in Seq(Node) BY DEF ListsTyped
<1>4. From(bll, bll', SSS) BY <1>1, <1>3, SameNodes
<1>5. From(ill, ill', SSS) BY <1>2, <1>3, SameNodes
<1>6. ListStep BY <1>4, <1>5 DEF ListStep
<1>7. SettingsStep BY <1>1, <1>2 DEF SettingsStep
<1> QED BY <1>1, <1>2, <1>6, <1>7 DEF ListsStep, ListsTyped

(* A list that stays the same.                                             *)
LEMMA KeptSame ==
    ASSUME NEW list \in Seq(Node), NEW S
    PROVE  KeptAll(list, list, S)
BY DEF KeptAll

(* A step of another part of the program.                                  *)
LEMMA Unchanged ==
    ASSUME ListsTyped, UNCHANGED lists
    PROVE  ListsStep
BY NoLine DEF LineStep, ListsStep

(* The power goes, or the program restarts.                                *)
LEMMA Forgotten ==
    ASSUME NoMemory
    PROVE  ListsStep
<1>1. bll' = <<>> /\ ill' = <<>> /\ block_count' = 0 BY DEF NoMemory
<1>2. DOMAIN <<>> = {} OBVIOUS
<1>3. Used(bll') = {} /\ Used(ill') = {} BY <1>1, <1>2, UsedWithin
<1>4. ListsTyped'
  <2>1. 0 \in 0 .. MaxNodes BY BoundsAssumption
  <2> QED BY <1>1, <2>1, EmptySeq DEF ListsTyped
<1> QED BY <1>1, <1>3, <1>4 DEF ListsStep, ListStep, SettingsStep

(* A list with one node taken out.                                         *)
LEMMA OneTaken ==
    ASSUME NEW list \in Seq(Node), NEW p \in DOMAIN list, NEW new,
           new = RemoveAt(list, p)
    PROVE  /\ new \in Seq(Node)
           /\ From(list, new, SSS)
           /\ Used(new) \subseteq Used(list)
<1>1. /\ new \in Seq(Node) /\ Len(new) = Len(list) - 1
      /\ \A n \in 1 .. Len(list) - 1 : new[n] = list[IF n < p THEN n ELSE n + 1]
  BY RemovedAt
<1>2. From(list, new, SSS) BY OneLess
<1>3. /\ DOMAIN list = 1 .. Len(list) /\ Len(list) \in Nat /\ p \in 1 .. Len(list)
      /\ DOMAIN new = 1 .. Len(list) - 1
  BY <1>1, LenProperties
<1>4. ASSUME NEW n \in DOMAIN new, NEW k \in Key
      PROVE  new[n].settings[k] \in Used(list)
  <2> DEFINE m == IF n < p THEN n ELSE n + 1
  <2>1. m \in DOMAIN list BY <1>3
  <2>2. new[n] = list[m] BY <1>1, <1>3
  <2> HIDE DEF m
  <2> QED BY <2>1, <2>2, UsedThere
<1> QED BY <1>1, <1>2, <1>4, UsedWithin

(* A deletion from either list.                                            *)
LEMMA Deletes ==
    ASSUME ListsTyped, block_count' = block_count,
           \/ \E p \in DOMAIN bll : bll' = RemoveAt(bll, p) /\ ill' = ill
           \/ \E p \in DOMAIN ill : ill' = RemoveAt(ill, p) /\ bll' = bll
    PROVE  ListsStep
<1>1. bll \in Seq(Node) /\ ill \in Seq(Node) BY DEF ListsTyped
<1>2. CASE \E p \in DOMAIN bll : bll' = RemoveAt(bll, p) /\ ill' = ill
  <2>1. PICK p \in DOMAIN bll : bll' = RemoveAt(bll, p) /\ ill' = ill BY <1>2
  <2>2. /\ bll' \in Seq(Node) /\ From(bll, bll', SSS) /\ Used(bll') \subseteq Used(bll)
    BY <1>1, <2>1, OneTaken
  <2>3. From(ill, ill', SSS) BY <1>1, <2>1, SameNodes
  <2> QED BY <1>1, <2>1, <2>2, <2>3 DEF ListsStep, ListStep, SettingsStep, ListsTyped
<1>3. CASE \E p \in DOMAIN ill : ill' = RemoveAt(ill, p) /\ bll' = bll
  <2>1. PICK p \in DOMAIN ill : ill' = RemoveAt(ill, p) /\ bll' = bll BY <1>3
  <2>2. /\ ill' \in Seq(Node) /\ From(ill, ill', SSS) /\ Used(ill') \subseteq Used(ill)
    BY <1>1, <2>1, OneTaken
  <2>3. From(bll, bll', SSS) BY <1>1, <2>1, SameNodes
  <2> QED BY <1>1, <2>1, <2>2, <2>3 DEF ListsStep, ListStep, SettingsStep, ListsTyped
<1> QED BY <1>2, <1>3

(* The end of a boot changes nothing but the status of nodes.              *)
LEMMA Booted ==
    ASSUME ListsTyped, BootDone
    PROVE  ListsStep
<1>1. PICK answer \in [{n \in DOMAIN bll : bll[n].type = "IN_VEDIRECT"} ->
                          {"ENABLED", "DISABLED_ERROR", "DISABLED_INIT"}] :
        bll' = [n \in DOMAIN bll |-> SetUp(Validated(bll[n]), answer[n])]
  BY DEF BootDone
<1>2. ill' = [n \in DOMAIN ill |-> Validated(ill[n])] /\ block_count' = block_count
  BY DEF BootDone
<1>3. bll \in Seq(Node) /\ ill \in Seq(Node) BY DEF ListsTyped
<1>4. ASSUME NEW b \in Node
      PROVE  Kept(b, Validated(b), {}) /\ Validated(b).type = b.type
  BY DEF Kept, Validated, Node, Status
<1>5. ASSUME NEW n \in DOMAIN bll
      PROVE  Kept(bll[n], bll'[n], {})
  <2>1. bll[n] \in Node BY <1>3, ElementOfSeq, LenProperties
  <2> DEFINE b == bll[n]  v == Validated(b)
  <2>2. bll'[n] = SetUp(v, answer[n]) BY <1>1
  <2>3. Kept(b, v, {}) /\ v.type = b.type BY <2>1, <1>4
  <2>4. v.type = "IN_VEDIRECT" => answer[n] \in Status BY <1>1, <2>3 DEF Status
  <2>5. "ENABLED" \in Status BY DEF Status
  <2>6. v \in Node BY <2>3 DEF Kept
  <2> HIDE DEF v, b
  <2>7. \/ bll'[n] = v
        \/ \E status \in Status : bll'[n] = [v EXCEPT !.status = status]
    BY <2>2, <2>4, <2>5 DEF SetUp
  <2>8. ASSUME NEW status \in Status
        PROVE  Kept(b, [v EXCEPT !.status = status], {})
    BY <2>3, <2>6 DEF Kept, Node
  <2>9. Kept(b, bll'[n], {}) BY <2>3, <2>7, <2>8
  <2> QED BY <2>9 DEF b
<1>6. ASSUME NEW n \in DOMAIN ill
      PROVE  Kept(ill[n], ill'[n], {})
  <2>1. ill[n] \in Node BY <1>3, ElementOfSeq, LenProperties
  <2>2. ill'[n] = Validated(ill[n]) BY <1>2
  <2> QED BY <2>1, <2>2, <1>4
<1>7. KeptAll(bll, bll', {})
  <2>1. bll' = [n \in DOMAIN bll |-> bll'[n]] BY <1>1
  <2> QED BY <2>1, <1>3, <1>5, AllKept
<1>8. KeptAll(ill, ill', {})
  <2>1. ill' = [n \in DOMAIN ill |-> ill'[n]] BY <1>2
  <2> QED BY <2>1, <1>3, <1>6, AllKept
<1> QED BY <1>2, <1>7, <1>8, KeepsNodes

(* So do the administrative commands.                                      *)
LEMMA Admin ==
    ASSUME ListsTyped, RegAdmin
    PROVE  ListsStep
<1>1. PICK n \in DOMAIN bll, status \in {"DISABLED_ADMIN", "DISABLED_INIT"} :
        bll' = [bll EXCEPT ![n].status = status]
  BY DEF RegAdmin
<1>2. ill' = ill /\ block_count' = block_count BY DEF RegAdmin
<1>3. bll \in Seq(Node) /\ ill \in Seq(Node) BY DEF ListsTyped
<1>4. bll[n] \in Node BY <1>3, ElementOfSeq, LenProperties
<1> DEFINE c == [bll[n] EXCEPT !.status = status]
<1>5. Kept(bll[n], c, {}) BY <1>4 DEF Kept, Node, Status
<1>6. bll' = [bll EXCEPT ![n] = c] BY <1>1
<1> HIDE DEF c
<1>7. KeptAll(bll, [bll EXCEPT ![n] = c], {}) BY <1>3, <1>5, OneSet
<1>8. KeptAll(ill, ill', {}) BY <1>2, <1>3, KeptSame
<1> QED BY <1>2, <1>6, <1>7, <1>8, KeepsNodes

(* An assigned sensor takes the pin of its bus.                            *)
LEMMA Assigned ==
    ASSUME ListsTyped, RegIFOneWireAssign
    PROVE  ListsStep
<1>1. PICK s \in DOMAIN ill, t \in DOMAIN ill :
        ill' = [ill EXCEPT ![t].settings =
                  [@ EXCEPT !["bus_pin"] = ill[s].settings["bus_pin"],
                            !["dallas_address"] = SET]]
  BY DEF RegIFOneWireAssign
<1>2. bll' = bll /\ block_count' = block_count BY DEF RegIFOneWireAssign
<1>3. bll \in Seq(Node) /\ ill \in Seq(Node) BY DEF ListsTyped
<1>4. ill[s] \in Node /\ ill[t] \in Node BY <1>3, ElementOfSeq, LenProperties
<1> DEFINE v == ill[s].settings["bus_pin"]
           c == [ill[t] EXCEPT !.settings =
                   [@ EXCEPT !["bus_pin"] = v, !["dallas_address"] = SET]]
           S == {v, SET}
<1>5. "bus_pin" \in Key BY KeysKnown
<1>6. v \in Nat /\ SET \in Nat BY <1>4, <1>5 DEF Node, SET
<1>7. S \subseteq Used(bll) \cup Used(ill) \cup Plain
  <2>1. v \in Used(ill) BY <1>5, UsedThere
  <2>2. SET \in Plain BY DEF Plain
  <2> QED BY <2>1, <2>2
<1>8. ill' = [ill EXCEPT ![t] = c] BY <1>1
<1> HIDE DEF v
<1>9. Kept(ill[t], c, S) BY <1>4, <1>6 DEF Kept, Node
<1> HIDE DEF c, S
<1>10. KeptAll(ill, [ill EXCEPT ![t] = c], S) BY <1>3, <1>9, OneSet
<1>11. KeptAll(bll, bll', S) BY <1>2, <1>3, KeptSame
<1> QED BY <1>2, <1>7, <1>8, <1>10, <1>11, KeepsNodes

(* Both lists emptied by the operator: the ids handed out are not.         *)
LEMMA Cleared ==
    ASSUME ListsTyped, bll' = <<>>, ill' = <<>>, block_count' = block_count
    PROVE  ListsStep
<1>1. DOMAIN <<>> = {} OBVIOUS
<1>2. Used(bll') = {} /\ Used(ill') = {} BY <1>1, UsedWithin
<1>3. From(bll, bll', SSS) /\ From(ill, ill', SSS) BY NoneLeft
<1>4. ListsTyped' BY EmptySeq DEF ListsTyped
<1> QED BY <1>2, <1>3, <1>4 DEF ListsStep, ListStep, SettingsStep

(* Every step of the program changes the lists in one of these ways.       *)
LEMMA EveryStep ==
    ASSUME TypeOK, [Next]_vars
    PROVE  ListsStep
<1>1. ListsTyped BY DEF TypeOK, ListsTyped
<1>2. bll \in Seq(Node) /\ ill \in Seq(Node) BY DEF ListsTyped, TypeOK
<1>3. CASE PowerOn \/ RegConfigSave \/ SaveDone \/ RegConfigLoad \/ ReloadDone
           \/ UNCHANGED vars
  <2>1. UNCHANGED lists
    BY <1>3 DEF PowerOn, InitConfigLoad, RegConfigSave, SaveDone, RegConfigLoad, ReloadDone,
       vars, lists
  <2> QED BY <2>1, <1>1, Unchanged
<1>4. CASE LoadLine BY <1>4, LoadedLine DEF LineStep, ListsStep
<1>5. CASE BootDone BY <1>1, <1>5, Booted
<1>6. CASE RegConfigLine
  <2>1. PICK line \in ConsoleLines : Configure(line) BY <1>6 DEF RegConfigLine
  <2>2. line \in Line BY ConsoleAssumption
  <2> QED BY <2>1, <2>2, <1>1, ConfiguredLine DEF LineStep, ListsStep
<1>7. CASE RegConfigDeleteBID
  <2>1. block_count' = block_count BY <1>7 DEF RegConfigDeleteBID
  <2>2. PICK id :
          \/ ById(bll, id) # 0 /\ bll' = RemoveAt(bll, ById(bll, id)) /\ ill' = ill
          \/ ById(ill, id) # 0 /\ ill' = RemoveAt(ill, ById(ill, id)) /\ bll' = bll
    BY <1>7 DEF RegConfigDeleteBID, DeleteBlockByID
  <2>3. /\ ById(bll, id) \in DOMAIN bll \cup {0}
        /\ ById(ill, id) \in DOMAIN ill \cup {0}
    BY <1>2, ByIdFound
  <2> QED BY <2>1, <2>2, <2>3, <1>1, Deletes
<1>8. CASE RegConfigDeleteBlockLabel
  <2>1. block_count' = block_count BY <1>8 DEF RegConfigDeleteBlockLabel
  <2>2. PICK label \in Label :
          \/ ByLabel(bll, label) # 0 /\ bll' = RemoveAt(bll, ByLabel(bll, label)) /\ ill' = ill
          \/ ByLabel(ill, label) # 0 /\ ill' = RemoveAt(ill, ByLabel(ill, label)) /\ bll' = bll
    BY <1>8 DEF RegConfigDeleteBlockLabel, DeleteBlockByLabel
  <2>3. /\ ByLabel(bll, label) \in DOMAIN bll \cup {0}
        /\ ByLabel(ill, label) \in DOMAIN ill \cup {0}
    BY <1>2, ByLabelFound
  <2> QED BY <2>1, <2>2, <2>3, <1>1, Deletes
<1>9. CASE RegConfigClear
  BY <1>1, <1>9, Cleared DEF RegConfigClear, DropBlockList, DropInterfaceList
<1>10. CASE RegAdmin BY <1>1, <1>10, Admin
<1>11. CASE RegAdminInterface
  <2>1. UNCHANGED lists \/ NoMemory BY <1>11 DEF RegAdminInterface, lists
  <2> QED BY <2>1, <1>1, Unchanged, Forgotten
<1>12. CASE RegIFOneWireAssign BY <1>1, <1>12, Assigned
<1>13. CASE SaveNode
  <2>1. UNCHANGED lists \/ NoMemory BY <1>13 DEF SaveNode, lists
  <2> QED BY <2>1, <1>1, Unchanged, Forgotten
<1>14. CASE RegSystemReboot BY <1>14, Forgotten DEF RegSystemReboot
<1>15. CASE PowerLoss BY <1>15, Forgotten DEF PowerLoss
<1> QED BY <1>3, <1>4, <1>5, <1>6, <1>7, <1>8, <1>9, <1>10, <1>11, <1>12, <1>13,
           <1>14, <1>15 DEF Next

(* The node that is written next is on one of the lists.                   *)
LEMMA NextNodeThere ==
    ASSUME TypeOK, SaveNode
    PROVE  NextNode \in Node
<1>1. bll \in Seq(Node) /\ ill \in Seq(Node) /\ pos \in Nat BY DEF TypeOK
<1> DEFINE all == ill \o bll
<1>2. all \in Seq(Node) BY <1>1, ConcatProperties
<1>3. pos < 2 * Len(all) BY DEF SaveNode, Nodes
<1>4. NextNode = all[IF pos < Len(all) THEN pos + 1 ELSE pos - Len(all) + 1]
  BY DEF NextNode, Nodes
<1> HIDE DEF all
<1>5. Len(all) \in Nat /\ \A n \in 1 .. Len(all) : all[n] \in Node
  BY <1>2, LenProperties, ElementOfSeq
<1> DEFINE n == IF pos < Len(all) THEN pos + 1 ELSE pos - Len(all) + 1
<1>6. n \in 1 .. Len(all)
  <2> DEFINE l == Len(all)
  <2>1. l \in Nat /\ pos < 2 * l BY <1>3, <1>5
  <2> HIDE DEF l
  <2>2. (IF pos < l THEN pos + 1 ELSE pos - l + 1) \in 1 .. l BY <1>1, <2>1
  <2> QED BY <2>2 DEF l
<1>7. NextNode = all[n] BY <1>4
<1> HIDE DEF n
<1> QED BY <1>5, <1>6, <1>7

(* The file holds lines only, whatever part of a save it is left by.       *)
LEMMA FileTyped ==
    ASSUME TypeOK, [Next]_vars
    PROVE  file' \in Seq(Line)
<1>1. file \in Seq(Line) /\ bll \in Seq(Node) /\ ill \in Seq(Node) BY DEF TypeOK
<1>2. CASE SaveNode
  <2>1. PICK g \in {NoValue, "garbage"} :
          file' = file \o Written(g) \/ file' \in Remains(file \o Written(g))
    BY <1>2 DEF SaveNode
  <2>2. NextNode \in Node BY <1>2, NextNodeThere
  <2>3. Written(g) \in Seq(Line) BY <1>1, <2>2, NodeLines DEF Written
  <2>4. file \o Written(g) \in Seq(Line) BY <1>1, <2>3, LinesClosed
  <2> QED BY <2>1, <2>4, RemainsTyped
<1>3. CASE PowerLoss
  <2>1. file' \in Remains(file) \/ file' = file BY <1>3 DEF PowerLoss
  <2> QED BY <2>1, <1>1, RemainsTyped
<1>4. CASE RegConfigSave BY <1>4, EmptySeq DEF RegConfigSave
<1>5. CASE ~ (SaveNode \/ PowerLoss \/ RegConfigSave)
  <2>1. file' = file
    BY <1>5 DEF Next, vars, PowerOn, InitConfigLoad, LoadLine, BootDone, Console,
       RegConfigLine, RegConfigDeleteBID, RegConfigDeleteBlockLabel, RegConfigClear, RegAdmin,
       RegAdminInterface, RegIFOneWireAssign, SaveDone, RegConfigLoad, ReloadDone,
       RegSystemReboot
  <2> QED BY <2>1, <1>1
<1> QED BY <1>2, <1>3, <1>4, <1>5

(* The other variables.                                                    *)
LEMMA RestTyped ==
    ASSUME TypeOK, [Next]_vars
    PROVE  /\ mode' \in {"off", "load", "run", "save", "reload"}
           /\ pos' \in Nat
           /\ edits' \in 0 .. MaxEdits /\ losses' \in 0 .. MaxLosses
<1> USE DEF TypeOK
<1>1. CASE RegConfigLine \/ RegConfigDeleteBID \/ RegConfigDeleteBlockLabel
           \/ RegConfigClear \/ RegAdmin \/ RegAdminInterface \/ RegIFOneWireAssign
  <2>1. Console BY <1>1 DEF RegConfigLine, RegConfigDeleteBID,
       RegConfigDeleteBlockLabel, RegConfigClear, RegAdmin, RegAdminInterface,
       RegIFOneWireAssign
  <2>2. mode' = mode \/ mode' = "off"
    BY <1>1 DEF RegConfigLine, RegConfigDeleteBID, RegConfigDeleteBlockLabel,
       RegConfigClear, RegAdmin, RegAdminInterface, RegIFOneWireAssign
  <2>3. pos' = pos /\ losses' = losses /\ edits < MaxEdits /\ edits' = edits + 1
    BY <2>1 DEF Console
  <2> QED BY <2>2, <2>3, BoundsAssumption
<1>2. CASE PowerLoss BY <1>2, BoundsAssumption DEF PowerLoss
<1>3. CASE PowerOn \/ LoadLine \/ BootDone \/ RegConfigSave \/ SaveNode \/ SaveDone
           \/ RegConfigLoad \/ ReloadDone \/ RegSystemReboot \/ UNCHANGED vars
  <2>1. edits' = edits /\ losses' = losses
    BY <1>3 DEF PowerOn, InitConfigLoad, LoadLine, BootDone, RegConfigSave,
       SaveNode, SaveDone, RegConfigLoad, ReloadDone, RegSystemReboot, vars
  <2>2. pos' \in {pos, pos + 1, 0}
    BY <1>3 DEF PowerOn, InitConfigLoad, LoadLine, BootDone, RegConfigSave,
       SaveNode, SaveDone, RegConfigLoad, ReloadDone, RegSystemReboot, vars
  <2>3. mode' \in {mode, "off", "load", "run", "save", "reload"}
    BY <1>3 DEF PowerOn, InitConfigLoad, LoadLine, BootDone, RegConfigSave,
       SaveNode, SaveDone, RegConfigLoad, ReloadDone, RegSystemReboot, vars
  <2> QED BY <2>1, <2>2, <2>3
<1> QED BY <1>1, <1>2, <1>3 DEF Next

(* Every configuration line, typed, saved or cut short, leaves lists of    *)
(* nodes and a file of lines.                                              *)
THEOREM InitConfigTypeCorrect == Spec => []TypeOK
<1>1. Init => TypeOK
  <2>1. 0 \in 0 .. MaxNodes /\ 0 \in 0 .. MaxEdits /\ 0 \in 0 .. MaxLosses
    BY BoundsAssumption
  <2> QED BY <2>1, FilesAssumption, EmptySeq DEF Init, TypeOK
<1>2. TypeOK /\ [Next]_vars => TypeOK'
  <2> SUFFICES ASSUME TypeOK, [Next]_vars PROVE TypeOK' OBVIOUS
  <2>1. ListsTyped' BY EveryStep DEF ListsStep
  <2> QED BY <2>1, FileTyped, RestTyped DEF TypeOK, ListsTyped
<1> QED BY <1>1, <1>2, PTL DEF Spec
-----------------------------------------------------------------------------
(* IdsInv, said of the two lists one by one.                               *)

Handed(id, count) == id = SSS \/ id \in BLOCK_ID_BASE .. BLOCK_ID_BASE + count - 1

IdsOf(list, count) ==
    /\ \A n \in DOMAIN list : Handed(list[n].id, count)
    /\ \A m, n \in DOMAIN list : list[m].id = list[n].id => m = n \/ list[n].id = SSS

Apart(blocks, interfaces) ==
    \A m \in DOMAIN interfaces, n \in DOMAIN blocks :
      interfaces[m].id = blocks[n].id => blocks[n].id = SSS

IdsApart == IdsOf(bll, block_count) /\ IdsOf(ill, block_count) /\ Apart(bll, ill)

(* Ids apart within and between the lists are apart in all.                *)
LEMMA IdsJoined ==
    ASSUME TypeOK, IdsApart
    PROVE  IdsInv
<1> DEFINE All == ill \o bll  l == Len(ill)
<1>1. bll \in Seq(Node) /\ ill \in Seq(Node) BY DEF TypeOK
<1>2. /\ All \in Seq(Node) /\ Len(All) = Len(ill) + Len(bll)
      /\ \A n \in 1 .. Len(ill) + Len(bll) :
           All[n] = IF n <= Len(ill) THEN ill[n] ELSE bll[n - Len(ill)]
  BY <1>1, ConcatProperties
<1>3. /\ DOMAIN All = 1 .. Len(ill) + Len(bll) /\ Len(ill) \in Nat /\ Len(bll) \in Nat
      /\ DOMAIN ill = 1 .. Len(ill) /\ DOMAIN bll = 1 .. Len(bll)
  BY <1>1, <1>2, LenProperties
<1> SUFFICES ASSUME NEW m \in DOMAIN All, NEW n \in DOMAIN All
             PROVE  /\ All[n].id # SSS =>
                         All[n].id \in BLOCK_ID_BASE .. BLOCK_ID_BASE + block_count - 1
                    /\ All[m].id = All[n].id => m = n \/ All[n].id = SSS
  BY DEF IdsInv
<1>4. \A k \in DOMAIN All :
         \/ k \in DOMAIN ill /\ All[k] = ill[k]
         \/ k - l \in DOMAIN bll /\ All[k] = bll[k - l]
  BY <1>2, <1>3
<1>5. l \in Nat /\ m \in Nat /\ n \in Nat BY <1>3
<1> HIDE DEF All, l
<1>6. Handed(All[n].id, block_count) BY <1>4 DEF IdsApart, IdsOf
<1>7. ASSUME All[m].id = All[n].id PROVE m = n \/ All[n].id = SSS
  <2>1. CASE m \in DOMAIN ill /\ All[m] = ill[m]
    <3>1. CASE n \in DOMAIN ill /\ All[n] = ill[n] BY <1>7, <2>1, <3>1 DEF IdsApart, IdsOf
    <3>2. CASE n - l \in DOMAIN bll /\ All[n] = bll[n - l]
      BY <1>7, <2>1, <3>2 DEF IdsApart, Apart
    <3> QED BY <3>1, <3>2, <1>4
  <2>2. CASE m - l \in DOMAIN bll /\ All[m] = bll[m - l]
    <3>1. CASE n \in DOMAIN ill /\ All[n] = ill[n]
      BY <1>7, <2>2, <3>1 DEF IdsApart, Apart
    <3>2. CASE n - l \in DOMAIN bll /\ All[n] = bll[n - l]
      <4>1. m - l = n - l \/ All[n].id = SSS BY <1>7, <2>2, <3>2 DEF IdsApart, IdsOf
      <4> QED BY <4>1, <1>5
    <3> QED BY <3>1, <3>2, <1>4
  <2> QED BY <2>1, <2>2, <1>4
<1> QED BY <1>6, <1>7 DEF Handed

(* The ids after a step are those before it, and one new one at most.      *)
LEMMA IdsFrom ==
    ASSUME NEW old, NEW new, NEW id, From(old, new, id)
    PROVE  Ids(new) \subseteq Ids(old) \cup {id}
BY DEF From, Ids

(* An id that is new to the system keeps the ids apart.                    *)
LEMMA NewIdsApart ==
    ASSUME NEW old, NEW new, NEW count \in Nat, NEW id,
           From(old, new, id), IdsOf(old, count),
           id = SSS \/ id = BLOCK_ID_BASE + count
    PROVE  /\ \A m, n \in DOMAIN new :
                new[m].id = new[n].id => m = n \/ new[n].id = SSS
           /\ \A n \in DOMAIN new : Handed(new[n].id, count) \/ new[n].id = id
           /\ Handed(id, count) => id = SSS
<1>1. PICK h \in [DOMAIN new -> DOMAIN old \cup {0}] :
        /\ \A n \in DOMAIN new :
             IF h[n] = 0 THEN new[n].id = id
             ELSE new[n].id = old[h[n]].id /\ new[n].label = old[h[n]].label
        /\ \A m, n \in DOMAIN new : h[m] = h[n] => m = n
  BY DEF From
<1>2. Handed(id, count) => id = SSS BY DEF Handed, BLOCK_ID_BASE, SSS
<1>3. \A n \in DOMAIN new : h[n] # 0 => h[n] \in DOMAIN old BY <1>1
<1>4. \A n \in DOMAIN old : Handed(old[n].id, count) BY DEF IdsOf
<1>5. ASSUME NEW m \in DOMAIN new, NEW n \in DOMAIN new, new[m].id = new[n].id
      PROVE  m = n \/ new[n].id = SSS
  <2>1. CASE h[m] = 0 /\ h[n] = 0 BY <1>1, <2>1
  <2>2. CASE h[m] = 0 /\ h[n] # 0 BY <1>1, <1>2, <1>3, <1>4, <1>5, <2>2
  <2>3. CASE h[m] # 0 /\ h[n] = 0 BY <1>1, <1>2, <1>3, <1>4, <1>5, <2>3
  <2>4. CASE h[m] # 0 /\ h[n] # 0 BY <1>1, <1>3, <1>5, <2>4 DEF IdsOf
  <2> QED BY <2>1, <2>2, <2>3, <2>4
<1>6. \A n \in DOMAIN new : Handed(new[n].id, count) \/ new[n].id = id
  BY <1>1, <1>3, <1>4
<1> QED BY <1>2, <1>5, <1>6

(* No step gives an id twice.                                              *)
LEMMA IdsStayApart ==
    ASSUME TypeOK, IdsApart, [Next]_vars
    PROVE  IdsApart'
<1>1. ListStep BY EveryStep DEF ListsStep
<1>2. block_count \in Nat BY DEF TypeOK
<1> DEFINE c == block_count
           fresh == BLOCK_ID_BASE + c
<1>3. IdsOf(bll, c) /\ IdsOf(ill, c) /\ Apart(bll, ill) BY DEF IdsApart
<1>4. ASSUME NEW p \in {SSS, fresh}, NEW q \in {SSS, fresh}, NEW d \in {c, c + 1},
             From(bll, bll', p), From(ill, ill', q), block_count' = d,
             p = SSS \/ q = SSS,
             p = fresh \/ q = fresh => d = c + 1
      PROVE  IdsApart'
  <2>1. /\ \A m, n \in DOMAIN bll' :
             bll'[m].id = bll'[n].id => m = n \/ bll'[n].id = SSS
        /\ \A n \in DOMAIN bll' : Handed(bll'[n].id, c) \/ bll'[n].id = p
        /\ Handed(p, c) => p = SSS
    BY <1>2, <1>3, <1>4, NewIdsApart
  <2>2. /\ \A m, n \in DOMAIN ill' :
             ill'[m].id = ill'[n].id => m = n \/ ill'[n].id = SSS
        /\ \A n \in DOMAIN ill' : Handed(ill'[n].id, c) \/ ill'[n].id = q
        /\ Handed(q, c) => q = SSS
    BY <1>2, <1>3, <1>4, NewIdsApart
  <2>3. \A id : Handed(id, c) => Handed(id, d)
    BY <1>2, <1>4 DEF Handed, BLOCK_ID_BASE
  <2>4. Handed(p, d) /\ Handed(q, d)
    BY <1>2, <1>4 DEF Handed, BLOCK_ID_BASE
  <2>5. IdsOf(bll', d) /\ IdsOf(ill', d) BY <2>1, <2>2, <2>3, <2>4 DEF IdsOf
  <2>6. Ids(bll') \subseteq Ids(bll) \cup {p} /\ Ids(ill') \subseteq Ids(ill) \cup {q}
    BY <1>4, IdsFrom
  <2>7. \A x \in Ids(bll) \cup Ids(ill) : Handed(x, c) BY <1>3 DEF IdsOf, Ids
  <2>8. \A x : x \in Ids(bll) /\ x \in Ids(ill) => x = SSS BY <1>3 DEF Apart, Ids
  <2>9. \A x : x \in Ids(bll') /\ x \in Ids(ill') => x = SSS
    BY <1>4, <2>1, <2>2, <2>6, <2>7, <2>8
  <2>10. Apart(bll', ill') BY <2>9 DEF Apart, Ids
  <2> QED BY <1>4, <2>5, <2>10 DEF IdsApart
<1>5. CASE bll' = <<>> /\ ill' = <<>>
  <2>1. DOMAIN <<>> = {} OBVIOUS
  <2> QED BY <1>5, <2>1 DEF IdsApart, IdsOf, Apart
<1>6. fresh \in {SSS, fresh} /\ SSS \in {SSS, fresh} /\ c \in {c, c + 1} /\ c + 1 \in {c, c + 1}
  OBVIOUS
<1>7. fresh # SSS BY <1>2 DEF BLOCK_ID_BASE, SSS
<1>8. \/ From(bll, bll', SSS) /\ From(ill, ill', SSS) /\ block_count' = c
      \/ From(bll, bll', fresh) /\ From(ill, ill', SSS) /\ block_count' = c + 1
      \/ From(bll, bll', SSS) /\ From(ill, ill', fresh) /\ block_count' = c + 1
      \/ bll' = <<>> /\ ill' = <<>>
  BY <1>1 DEF ListStep
<1> HIDE DEF fresh, c
<1> QED BY <1>4, <1>5, <1>6, <1>7, <1>8

(* No id is ever given to two nodes, whatever is added, deleted, cleared   *)
(* and loaded while the power is on.                                       *)
THEOREM InitConfigIds == Spec => []IdsInv
<1>1. Init => IdsApart
  <2>1. DOMAIN <<>> = {} OBVIOUS
  <2> QED BY <2>1 DEF Init, IdsApart, IdsOf, Apart
<1>2. TypeOK /\ IdsApart /\ [Next]_vars => IdsApart' BY IdsStayApart
<1>3. TypeOK /\ IdsApart => IdsInv BY IdsJoined
<1> QED BY <1>1, <1>2, <1>3, InitConfigTypeCorrect, PTL DEF Spec
-----------------------------------------------------------------------------
(* References that were parsed during a boot lead to nodes of that boot.   *)

BootInv ==
    /\ mode = "off" => bll = <<>> /\ ill = <<>>
    /\ mode = "load" =>
         Used(bll) \cup Used(ill) \subseteq Plain \cup Ids(bll) \cup Ids(ill)

(* An empty list.                                                          *)
LEMMA NothingUsed ==
    ASSUME NEW list, list = <<>>
    PROVE  Used(list) = {}
<1>1. DOMAIN list = {} OBVIOUS
<1> QED BY <1>1, UsedWithin

(* Every line of a boot looks its references up among the nodes that are   *)
(* there, and a boot deletes none.                                         *)
LEMMA BootInvKept ==
    ASSUME TypeOK, BootInv, [Next]_vars
    PROVE  BootInv'
<1>1. CASE LoadLine
  <2>1. LineStep BY <1>1, LoadedLine
  <2>2. mode' = mode /\ mode # "off" BY <1>1 DEF LoadLine
  <2>3. /\ Used(bll') \cup Used(ill')
             \subseteq Used(bll) \cup Used(ill) \cup Plain \cup Ids(bll') \cup Ids(ill')
        /\ Ids(bll) \subseteq Ids(bll') /\ Ids(ill) \subseteq Ids(ill')
    BY <2>1 DEF LineStep, SettingsStep
  <2> QED BY <2>2, <2>3 DEF BootInv
<1>2. CASE PowerOn
  <2>1. bll' = <<>> /\ ill' = <<>> /\ mode' = "load"
    BY <1>2 DEF PowerOn, InitConfigLoad, lists, BootInv
  <2>2. Used(bll') = {} /\ Used(ill') = {} BY <2>1, NothingUsed
  <2> QED BY <2>1, <2>2 DEF BootInv
<1>3. CASE UNCHANGED vars
  <2>1. bll' = bll /\ ill' = ill /\ mode' = mode BY <1>3 DEF vars
  <2> QED BY <2>1 DEF BootInv
<1>4. CASE ~ (LoadLine \/ PowerOn \/ UNCHANGED vars)
  <2>1. mode' # "load" /\ (mode' = "off" => NoMemory)
    BY <1>4 DEF Next, BootDone, Console, RegConfigLine, RegConfigDeleteBID,
       RegConfigDeleteBlockLabel, RegConfigClear, RegAdmin, RegAdminInterface,
       RegIFOneWireAssign, RegConfigSave, SaveNode, SaveDone, RegConfigLoad,
       InitConfigLoad, ReloadDone, RegSystemReboot, PowerLoss
  <2> QED BY <2>1 DEF BootInv, NoMemory
<1> QED BY <1>1, <1>2, <1>3, <1>4

(* References are settings.                                                *)
LEMMA RefKeysAreKeys ==
    ASSUME NEW cat, NEW type
    PROVE  RefKeys(cat, type) \subseteq Key
BY KeysKnown DEF RefKeys

(* A block that the boot enables passed Validate.                          *)
LEMMA EnabledWasValid ==
    ASSUME NEW b \in Node, NEW answer, SetUp(Validated(b), answer).status = "ENABLED"
    PROVE  /\ Valid(b)
           /\ SetUp(Validated(b), answer).cat = b.cat
           /\ SetUp(Validated(b), answer).type = b.type
           /\ SetUp(Validated(b), answer).settings = b.settings
<1> DEFINE v == Validated(b)
<1>1. /\ v.status = IF Valid(b) THEN "DISABLED_INIT" ELSE "DISABLED_ASSERT"
      /\ v.cat = b.cat /\ v.type = b.type /\ v.settings = b.settings
      /\ v \in Node
  BY DEF Validated, Node, Status
<1> HIDE DEF v
<1>2. SetUp(v, answer).status = "ENABLED" BY DEF v
<1>3. v.status = "DISABLED_INIT" BY <1>1, <1>2 DEF SetUp
<1>4. Valid(b) BY <1>1, <1>3
<1>5. /\ SetUp(v, answer).cat = v.cat /\ SetUp(v, answer).type = v.type
      /\ SetUp(v, answer).settings = v.settings
  BY <1>1 DEF SetUp, Node
<1> QED BY <1>1, <1>4, <1>5 DEF v

(* Nothing but an id of a node passes for one in a boot.                   *)
LEMMA EnabledRefs ==
    ASSUME TypeOK, BootInv, mode = "load", BootDone,
           NEW n \in DOMAIN bll', bll'[n].status = "ENABLED",
           NEW k \in RefKeys(bll'[n].cat, bll'[n].type),
           bll'[n].settings[k] # UINT16_INIT
    PROVE  Resolves(bll', ill', bll'[n].settings[k])
<1>1. PICK answer \in [{m \in DOMAIN bll : bll[m].type = "IN_VEDIRECT"} ->
                          {"ENABLED", "DISABLED_ERROR", "DISABLED_INIT"}] :
        bll' = [m \in DOMAIN bll |-> SetUp(Validated(bll[m]), answer[m])]
  BY DEF BootDone
<1>2. bll \in Seq(Node) /\ ill \in Seq(Node) BY DEF TypeOK
<1>3. n \in DOMAIN bll /\ bll'[n] = SetUp(Validated(bll[n]), answer[n]) BY <1>1
<1>4. bll[n] \in Node BY <1>2, <1>3, ElementOfSeq, LenProperties
<1> DEFINE b == bll[n]  id == b.settings[k]
<1>5. /\ Valid(b) /\ bll'[n].cat = b.cat /\ bll'[n].type = b.type
      /\ bll'[n].settings = b.settings
  BY <1>3, <1>4, EnabledWasValid
<1>6. k \in RefKeys(b.cat, b.type) /\ id # UINT16_INIT /\ k \in Key
  BY <1>5, RefKeysAreKeys
<1>7. id >= BLOCK_ID_BASE BY <1>5, <1>6 DEF Valid
<1>8. id \in Used(bll) BY <1>3, <1>6, UsedThere
<1>9. id \in Plain \cup Ids(bll) \cup Ids(ill) BY <1>8 DEF BootInv
<1>10. id \notin Plain
  BY <1>6, <1>7 DEF Plain, M_FF_ERROR, SET, NO_DAY, A_DAY, BLOCK_ID_BASE
<1>11. /\ DOMAIN bll' = DOMAIN bll /\ DOMAIN ill' = DOMAIN ill
       /\ \A m \in DOMAIN bll : bll'[m].id = bll[m].id
       /\ \A m \in DOMAIN ill : ill'[m].id = ill[m].id
  <2>1. ill' = [m \in DOMAIN ill |-> Validated(ill[m])] BY DEF BootDone
  <2>2. \A m \in DOMAIN bll : bll[m] \in Node BY <1>2, ElementOfSeq, LenProperties
  <2>3. \A m \in DOMAIN ill : ill[m] \in Node BY <1>2, ElementOfSeq, LenProperties
  <2>4. \A c \in Node : Validated(c) \in Node /\ Validated(c).id = c.id
    BY DEF Validated, Node, Status
  <2>5. \A c \in Node : \A a : SetUp(c, a).id = c.id BY DEF SetUp, Node
  <2>6. \A m \in DOMAIN bll : bll'[m].id = bll[m].id BY <1>1, <2>2, <2>4, <2>5
  <2>7. \A m \in DOMAIN ill : ill'[m].id = ill[m].id BY <2>1, <2>3, <2>4
  <2> QED BY <1>1, <2>1, <2>6, <2>7
<1> HIDE DEF id
<1>12. \/ \E m \in DOMAIN bll' : bll'[m].id = id
       \/ \E m \in DOMAIN ill' : ill'[m].id = id
  BY <1>9, <1>10, <1>11 DEF Ids
<1>13. bll' \in Seq(Node) /\ ill' \in Seq(Node)
  BY <1>2, Booted DEF ListsTyped, ListsStep, TypeOK
<1>14. ById(bll', id) # 0 \/ ById(ill', id) # 0 BY <1>12, <1>13, ByIdFound
<1> QED BY <1>5, <1>14 DEF Resolves, id

(* Whatever the file holds, complete or cut short, a block that a boot     *)
(* enables refers to nothing that does not exist.                          *)
THEOREM InitConfigBootRefs == Spec => BootRefsResolve
<1>1. Init => BootInv BY DEF Init, BootInv
<1>2. TypeOK /\ BootInv /\ [Next]_vars => BootInv' BY BootInvKept
<1>3. TypeOK /\ BootInv /\ [Next]_vars =>
        [mode = "load" /\ mode' = "run" =>
           \A n \in DOMAIN bll' :
             LET b == bll'[n]
             IN b.status = "ENABLED" =>
                  \A k \in RefKeys(b.cat, b.type) :
                    b.settings[k] # UINT16_INIT => Resolves(bll', ill', b.settings[k])]_vars
  <2> SUFFICES ASSUME TypeOK, BootInv, [Next]_vars, mode = "load", mode' = "run",
                      NEW n \in DOMAIN bll', bll'[n].status = "ENABLED",
                      NEW k \in RefKeys(bll'[n].cat, bll'[n].type),
                      bll'[n].settings[k] # UINT16_INIT
               PROVE  Resolves(bll', ill', bll'[n].settings[k])
    OBVIOUS
  <2>1. BootDone
    BY DEF Next, vars, PowerOn, InitConfigLoad, LoadLine, Console,
       RegConfigLine, RegConfigDeleteBID, RegConfigDeleteBlockLabel, RegConfigClear, RegAdmin,
       RegAdminInterface, RegIFOneWireAssign, RegConfigSave, SaveNode, SaveDone,
       RegConfigLoad, ReloadDone, RegSystemReboot, PowerLoss
  <2> QED BY <2>1, EnabledRefs
<1> QED BY <1>1, <1>2, <1>3, InitConfigTypeCorrect, PTL DEF Spec, BootRefsResolve
-----------------------------------------------------------------------------
(* No setting holds an id that is still to be handed out.                  *)

RefsBounded ==
    \A id \in Used(bll) \cup Used(ill) :
      id \in Plain \/ Handed(id, block_count)

(* No step puts an id in a setting that is still to be handed out.         *)
LEMMA RefsBoundedKept ==
    ASSUME TypeOK, IdsApart, RefsBounded, [Next]_vars
    PROVE  RefsBounded'
<1>1. ListStep /\ SettingsStep BY EveryStep DEF ListsStep
<1>2. IdsApart' BY IdsStayApart
<1>3. block_count \in Nat BY DEF TypeOK
<1>4. CASE bll' = <<>> /\ ill' = <<>>
  <2>1. Used(bll') = {} /\ Used(ill') = {} BY <1>4, NothingUsed
  <2> QED BY <2>1 DEF RefsBounded
<1>5. CASE ~ (bll' = <<>> /\ ill' = <<>>)
  <2>1. block_count' \in {block_count, block_count + 1} BY <1>1, <1>5 DEF ListStep
  <2>2. \A id : Handed(id, block_count) => Handed(id, block_count')
    BY <2>1, <1>3 DEF Handed, BLOCK_ID_BASE
  <2>3. \A id \in Ids(bll') \cup Ids(ill') : Handed(id, block_count')
    BY <1>2 DEF IdsApart, IdsOf, Ids
  <2>4. Used(bll') \cup Used(ill')
          \subseteq Used(bll) \cup Used(ill) \cup Plain \cup Ids(bll') \cup Ids(ill')
    BY <1>1 DEF SettingsStep
  <2> SUFFICES ASSUME NEW id \in Used(bll') \cup Used(ill')
               PROVE  id \in Plain \/ Handed(id, block_count')
    BY DEF RefsBounded, Plain
  <2>5. CASE id \in Used(bll) \cup Used(ill) BY <2>2, <2>5 DEF RefsBounded
  <2>6. CASE id \in Plain BY <2>6
  <2>7. CASE id \in Ids(bll') \cup Ids(ill') BY <2>3, <2>7
  <2> QED BY <2>4, <2>5, <2>6, <2>7
<1> QED BY <1>4, <1>5

(* A node with an id that was there before the step had its label, too.    *)
LEMMA LabelKept ==
    ASSUME NEW old, NEW new, NEW fresh, From(old, new, fresh),
           NEW m \in DOMAIN new, new[m].id # fresh
    PROVE  \E n \in DOMAIN old : old[n].id = new[m].id /\ old[n].label = new[m].label
BY DEF From

(* The label of an id that one node bears is the label of that node.       *)
LEMMA LabelOf ==
    ASSUME bll \in Seq(Node), ill \in Seq(Node), IdsApart, NEW id, id # SSS
    PROVE  /\ \A n \in DOMAIN bll :
                bll[n].id = id => GetBlockLabelString(bll, ill, id) = bll[n].label
           /\ \A n \in DOMAIN ill :
                ill[n].id = id => GetBlockLabelString(bll, ill, id) = ill[n].label
<1> DEFINE p == ById(bll, id)  q == ById(ill, id)
<1>1. /\ p \in DOMAIN bll \cup {0}
      /\ p # 0 => bll[p].id = id
      /\ p = 0 => \A n \in DOMAIN bll : bll[n].id # id
  BY ByIdFound
<1>2. /\ q \in DOMAIN ill \cup {0}
      /\ q # 0 => ill[q].id = id
      /\ q = 0 => \A n \in DOMAIN ill : ill[n].id # id
  BY ByIdFound
<1>3. GetBlockLabelString(bll, ill, id) =
        IF p # 0 THEN bll[p].label ELSE IF q # 0 THEN ill[q].label ELSE NoValue
  BY DEF GetBlockLabelString
<1> HIDE DEF p, q
<1>4. ASSUME NEW n \in DOMAIN bll, bll[n].id = id
      PROVE  GetBlockLabelString(bll, ill, id) = bll[n].label
  <2>1. p # 0 /\ p \in DOMAIN bll /\ bll[p].id = bll[n].id BY <1>1, <1>4
  <2>2. p = n BY <2>1, <1>4 DEF IdsApart, IdsOf
  <2> QED BY <2>1, <2>2, <1>3
<1>5. ASSUME NEW n \in DOMAIN ill, ill[n].id = id
      PROVE  GetBlockLabelString(bll, ill, id) = ill[n].label
  <2>1. p = 0 BY <1>1, <1>5 DEF IdsApart, Apart
  <2>2. q # 0 /\ q \in DOMAIN ill /\ ill[q].id = ill[n].id BY <1>2, <1>5
  <2>3. q = n BY <2>2, <1>5 DEF IdsApart, IdsOf
  <2> QED BY <2>1, <2>2, <2>3, <1>3
<1> QED BY <1>4, <1>5

(* The id in a setting of a block leads where it led before, or nowhere.   *)
LEMMA TargetKept ==
    ASSUME TypeOK, IdsApart, RefsBounded, [Next]_vars,
           NEW id \in Used(bll), id >= BLOCK_ID_BASE
    PROVE  GetBlockLabelString(bll', ill', id)
             \in {GetBlockLabelString(bll, ill, id), NoValue}
<1> DEFINE c == block_count  fresh == BLOCK_ID_BASE + c
           p == ById(bll', id)  q == ById(ill', id)
<1>1. ListStep /\ bll' \in Seq(Node) /\ ill' \in Seq(Node)
  BY EveryStep DEF ListsStep, ListsTyped
<1>2. /\ bll \in Seq(Node) /\ ill \in Seq(Node) /\ c \in Nat /\ MaxNodes \in Nat
      /\ c \in 0 .. MaxNodes
  BY BoundsAssumption DEF TypeOK
<1>3. id \in Plain \/ Handed(id, c) BY DEF RefsBounded
<1>4. id # SSS /\ (id = UINT16_INIT \/ id \in BLOCK_ID_BASE .. fresh - 1)
  <2>1. CASE id \in Plain
    BY <2>1 DEF Plain, M_FF_ERROR, SET, NO_DAY, A_DAY, SSS, BLOCK_ID_BASE, UINT16_INIT
  <2>2. CASE Handed(id, c)
    BY <1>2, <2>2 DEF SSS, BLOCK_ID_BASE, Handed
  <2> QED BY <1>3, <2>1, <2>2
<1>5. CASE p = 0 /\ q = 0 BY <1>5 DEF GetBlockLabelString
<1>6. CASE ~ (p = 0 /\ q = 0)
  <2>1. /\ p \in DOMAIN bll' \cup {0}
        /\ p # 0 => bll'[p].id = id
    BY <1>1, ByIdFound
  <2>2. /\ q \in DOMAIN ill' \cup {0}
        /\ q # 0 => ill'[q].id = id
    BY <1>1, ByIdFound
  <2>3. GetBlockLabelString(bll', ill', id) =
          IF p # 0 THEN bll'[p].label ELSE IF q # 0 THEN ill'[q].label ELSE NoValue
    BY DEF GetBlockLabelString
  <2> HIDE DEF p, q
  <2>4. id \in BLOCK_ID_BASE .. fresh - 1
    <3>1. \E list \in {bll', ill'} : \E n \in DOMAIN list : list[n].id = id
      BY <2>1, <2>2, <1>6
    <3>2. \A x \in Ids(bll') \cup Ids(ill') : Handed(x, block_count')
      BY IdsStayApart DEF IdsApart, IdsOf, Ids
    <3>3. Handed(id, block_count') BY <3>1, <3>2 DEF Ids
    <3>4. block_count' \in 0 .. MaxNodes BY EveryStep DEF ListsStep, ListsTyped
    <3>5. BLOCK_ID_BASE + MaxNodes <= UINT16_INIT BY BoundsAssumption
    <3>6. id # UINT16_INIT
      BY <3>3, <3>4, <3>5, <1>2, <1>4 DEF Handed, BLOCK_ID_BASE, UINT16_INIT
    <3> QED BY <3>6, <1>4
  <2>5. id # fresh BY <2>4, <1>2 DEF BLOCK_ID_BASE
  <2>6. \/ \E f \in {SSS, fresh}, g \in {SSS, fresh} : From(bll, bll', f) /\ From(ill, ill', g)
        \/ bll' = <<>> /\ ill' = <<>>
    BY <1>1 DEF ListStep
  <2>7. PICK f \in {SSS, fresh}, g \in {SSS, fresh} : From(bll, bll', f) /\ From(ill, ill', g)
    <3>1. DOMAIN <<>> = {} OBVIOUS
    <3> QED BY <3>1, <2>1, <2>2, <2>6, <1>6
  <2>8. id # f /\ id # g BY <2>5, <1>4
  <2>9. CASE p # 0
    <3>1. PICK n \in DOMAIN bll : bll[n].id = id /\ bll[n].label = bll'[p].label
      BY <2>1, <2>7, <2>8, <2>9, LabelKept
    <3> QED BY <3>1, <2>3, <2>9, <1>2, <1>4, LabelOf
  <2>10. CASE p = 0
    <3>1. q # 0 BY <2>10, <1>6
    <3>2. PICK n \in DOMAIN ill : ill[n].id = id /\ ill[n].label = ill'[q].label
      BY <2>2, <2>7, <2>8, <3>1, LabelKept
    <3> QED BY <3>1, <3>2, <2>3, <2>10, <1>2, <1>4, LabelOf
  <2> QED BY <2>9, <2>10
<1> QED BY <1>5, <1>6

(* While the power is on an id leads to the block it led to, or to none:   *)
(* what is added takes no id that a setting still holds.                   *)
THEOREM InitConfigTargets == Spec => ReferenceKeepsItsTarget
<1>1. Init => RefsBounded /\ IdsApart
  <2>1. DOMAIN <<>> = {} OBVIOUS
  <2>2. Init => IdsApart BY <2>1 DEF Init, IdsApart, IdsOf, Apart
  <2>3. Init => RefsBounded BY NothingUsed DEF Init, RefsBounded
  <2> QED BY <2>2, <2>3
<1>2. TypeOK /\ IdsApart /\ RefsBounded /\ [Next]_vars => RefsBounded' /\ IdsApart'
  BY RefsBoundedKept, IdsStayApart
<1>3. TypeOK /\ IdsApart /\ RefsBounded /\ [Next]_vars =>
        [mode # "off" /\ mode' # "off" =>
           \A n \in DOMAIN bll, m \in DOMAIN bll' :
             bll'[m].id = bll[n].id =>
               \A k \in RefKeys(bll[n].cat, bll[n].type) :
                 LET id == bll[n].settings[k]
                 IN bll'[m].settings[k] = id /\ id >= BLOCK_ID_BASE
                    => GetBlockLabelString(bll', ill', id)
                         \in {GetBlockLabelString(bll, ill, id), NoValue}]_vars
  <2> SUFFICES ASSUME TypeOK, IdsApart, RefsBounded, [Next]_vars,
                      NEW n \in DOMAIN bll,
                      NEW k \in RefKeys(bll[n].cat, bll[n].type),
                      bll[n].settings[k] >= BLOCK_ID_BASE
               PROVE  GetBlockLabelString(bll', ill', bll[n].settings[k])
                        \in {GetBlockLabelString(bll, ill, bll[n].settings[k]), NoValue}
    OBVIOUS
  <2>1. bll[n].settings[k] \in Used(bll) BY RefKeysAreKeys, UsedThere
  <2> QED BY <2>1, TargetKept
<1> QED BY <1>1, <1>2, <1>3, InitConfigTypeCorrect, PTL DEF Spec, ReferenceKeepsItsTarget
====
