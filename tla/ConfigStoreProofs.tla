------------------------- MODULE ConfigStoreProofs --------------------------
(***************************************************************************)
(* That InitConfig implements ConfigStore, for any files, console lines    *)
(* and labels, and that loading the file of a completed save over the      *)
(* configuration it was saved from changes nothing.                        *)
(*                                                                         *)
(* The argument follows a face, which is what a file can say of a node,    *)
(* from the list to the file and back.  A save registers every face in     *)
(* order, then says of each setting what a load would not assume anyway    *)
(* (SaveInv); from then on the file is the faces' (StoredInv); a boot      *)
(* makes of the lines read so far the nodes they register, with the        *)
(* settings they tell (LoadInv).  Where a face holds a label, the node it  *)
(* names is registered before the label is looked up.                      *)
(***************************************************************************)
EXTENDS InitConfigProofs

(* What a setting of a node of the given lists shows in a file.            *)
Shown(blocks, interfaces, b, k) ==
    LET v == b.settings[k]
    IN IF v = UINT16_INIT THEN "unset"
       ELSE IF k \in RefKeys(b.cat, b.type) THEN GetBlockLabelString(blocks, interfaces, v)
       ELSE CASE v = SET -> "set"
              [] v = NO_DAY -> "no day"
              [] v = A_DAY -> "24:00:00"
              [] OTHER -> "garbage"

(* The face of such a node.                                                *)
FaceIn(blocks, interfaces, b) ==
    [label |-> b.label, cat |-> b.cat, type |-> b.type,
     settings |-> [k \in KeysOf[b.cat] |-> Shown(blocks, interfaces, b, k)]]

FacesOf(blocks, interfaces, list) ==
    [n \in DOMAIN list |-> FaceIn(blocks, interfaces, list[n])]

(* A view is the faces of the interfaces and those of the blocks.          *)
LEMMA ViewNow == View = <<FacesOf(bll, ill, ill), FacesOf(bll, ill, bll)>>
<1>1. \A b : Face(b) = FaceIn(bll, ill, b) BY Zenon DEF Face, FaceIn, Shown
<1> QED BY <1>1, Zenon DEF View, FacesOf

(* ... in the state before a step and in the one after it.                 *)
LEMMA ViewIs ==
    /\ View = <<FacesOf(bll, ill, ill), FacesOf(bll, ill, bll)>>
    /\ View' = <<FacesOf(bll', ill', ill'), FacesOf(bll', ill', bll')>>
<1>1. \A b : Face(b)' = FaceIn(bll', ill', b) BY Zenon DEF Face, FaceIn, Shown
<1>2. View' = <<FacesOf(bll', ill', ill'), FacesOf(bll', ill', bll')>>
  BY <1>1, Zenon DEF View, FacesOf
<1> QED BY <1>2, ViewNow

(* The types that lines give to an interface, one at most.                 *)
Given == ConsoleLines \cup UNION {{f[n] : n \in DOMAIN f} : f \in Files}
GivenTypes(label) ==
    {t \in TypesOf.FF_INTERFACE :
       \E l \in Given : /\ l.cat = "FF_INTERFACE" /\ l.label = label
                        /\ l.key = "type" /\ l.val = t}

(* The operator does not give two.                                         *)
LEMMA OneType ==
    ASSUME NEW label, NEW s \in GivenTypes(label), NEW t \in GivenTypes(label)
    PROVE  s = t
<1>1. PICK k \in Given : /\ k.cat = "FF_INTERFACE" /\ k.label = label
                         /\ k.key = "type" /\ k.val = s
  BY DEF GivenTypes
<1>2. PICK l \in Given : /\ l.cat = "FF_INTERFACE" /\ l.label = label
                         /\ l.key = "type" /\ l.val = t
  BY DEF GivenTypes
<1>3. k.val = l.val BY <1>1, <1>2, CategoryAssumption, Zenon DEF Given
<1> QED BY <1>1, <1>2, <1>3

(* What holds of every node, saved or not: the system blocks, and only     *)
(* they, share an id; a language is always some language; an interface has *)
(* the settings of the one type it is ever given.                          *)
SoundLine(line) ==
    /\ line.cat = "FF_INTERFACE" /\ line.key = "type"
    /\ line.val \in TypesOf.FF_INTERFACE
    => line.val \in GivenTypes(line.label)

SoundBlock(b) ==
    /\ b.cat # "FF_INTERFACE"
    /\ b.id = SSS <=> b.cat = "FF_SYSTEM"
    /\ b.settings["language"] = SET

SoundInterface(b) ==
    /\ b.cat = "FF_INTERFACE" /\ b.id # SSS
    /\ b.type \in GivenTypes(b.label) \cup {"BT_ERROR"}
    /\ \A k \in Key : b.settings[k] # UINT16_INIT =>
         \E t \in GivenTypes(b.label) : k \in IFKeys(t)

LabelsApart(list) ==
    \A m, n \in DOMAIN list : list[m].label = list[n].label => m = n

Registry ==
    /\ \A n \in DOMAIN bll : SoundBlock(bll[n])
    /\ \A n \in DOMAIN ill : SoundInterface(ill[n])
    /\ LabelsApart(bll) /\ LabelsApart(ill)

FileSound == \A q \in DOMAIN file : SoundLine(file[q])

Modes ==
    /\ mode \in {"run", "off"} => pos = 0
    /\ mode = "off" => bll = <<>> /\ ill = <<>>
    /\ mode = "save" => saved = Torn
-----------------------------------------------------------------------------
(* What a setting does to a node.                                          *)

(* The two keys that are no settings are keys of no category.              *)
LEMMA NoSettings ==
    /\ \A k \in Key : k # "type" /\ k # "disable"
    /\ \A c \in Category : KeysOf[c] \subseteq Key
<1>1. \A c \in Category : KeysOf[c] \subseteq Key BY DEF Key
<1>2. \A c \in Category : "type" \notin KeysOf[c] /\ "disable" \notin KeysOf[c]
  BY CategoriesKnown DEF KeysOf
<1>3. \A k \in Key : \E c \in Category : k \in KeysOf[c] BY DEF Key
<1> QED BY <1>1, <1>2, <1>3

(* A line sets the type, the status or one setting, whichever it names.    *)
LEMMA ConfiguredDoes ==
    ASSUME ill \in Seq(Node), NEW blocks \in Seq(Node), NEW b \in Node,
           NEW line \in Line, NEW c, c = Configured(b, blocks, line)
    PROVE  /\ c \in Node
           /\ c.id = b.id /\ c.label = b.label /\ c.cat = b.cat
           /\ \A k \in Key : k # line.key => c.settings[k] = b.settings[k]
           /\ c.type = IF line.key = "type"
                       THEN BlockTypeStringArrayIndex(b.cat, line.val) ELSE b.type
           /\ line.key \in RefKeys(b.cat, b.type) =>
                c.settings[line.key] = GetBlockIDByLabel(blocks, ill, line.val)
           /\ line.key \in KeysOf[b.cat] \ RefKeys(b.cat, b.type) =>
                c.settings[line.key] = Parsed(line.key, line.val)
           /\ line.key \notin RefKeys(b.cat, b.type) \cup KeysOf[b.cat] =>
                c.settings = b.settings
<1> DEFINE type == BlockTypeStringArrayIndex(b.cat, line.val)
           status == CASE line.val = "True" -> "DISABLED_ADMIN"
                       [] line.val = "False" -> "DISABLED_INIT"
                       [] OTHER -> b.status
           id == GetBlockIDByLabel(blocks, ill, line.val)
           value == Parsed(line.key, line.val)
           R == RefKeys(b.cat, b.type)
           K == KeysOf[b.cat]
<1>1. c \in Node /\ c.id = b.id /\ c.label = b.label BY ConfiguredNode
<1>2. c = CASE line.key = "type" -> [b EXCEPT !.type = type]
            [] line.key = "disable" -> [b EXCEPT !.status = status]
            [] line.key \in R -> [b EXCEPT !.settings[line.key] = id]
            [] line.key \in K \ R -> [b EXCEPT !.settings[line.key] = value]
            [] OTHER -> b
  BY Zenon DEF Configured
<1>3. R \subseteq Key /\ K \subseteq Key
  <2>1. b.cat \in Category BY DEF Node
  <2> QED BY <2>1, NoSettings, RefKeysAreKeys
<1>4. \A k \in Key : k # "type" /\ k # "disable" BY NoSettings
<1> HIDE DEF type, status, id, value, R, K
<1>5. CASE line.key = "type"
  <2>3. line.key \notin R /\ line.key \notin K BY <1>3, <1>4, <1>5
  <2>1. c = [b EXCEPT !.type = type] BY <1>2, <1>5, <2>3
  <2>2. c.type = type /\ c.settings = b.settings /\ c.cat = b.cat BY <2>1 DEF Node
  <2> QED BY <1>1, <1>5, <2>2, <2>3 DEF type, R, K
<1>6. CASE line.key = "disable"
  <2>3. line.key \notin R /\ line.key \notin K BY <1>3, <1>4, <1>6
  <2>1. c = [b EXCEPT !.status = status] BY <1>2, <1>6, <2>3
  <2>2. c.type = b.type /\ c.settings = b.settings /\ c.cat = b.cat BY <2>1 DEF Node
  <2> QED BY <1>1, <1>6, <2>2, <2>3 DEF R, K
<1>7. CASE line.key \in R
  <2>0. line.key \in Key /\ line.key # "type" /\ line.key # "disable" BY <1>3, <1>4, <1>7
  <2>1. c = [b EXCEPT !.settings[line.key] = id] BY <1>2, <1>7, <2>0
  <2>2. /\ c.type = b.type /\ c.cat = b.cat
        /\ c.settings = [b.settings EXCEPT ![line.key] = id]
    BY <2>1 DEF Node
  <2>3. b.settings \in [Key -> Nat] BY DEF Node
  <2>4. c.settings[line.key] = id /\ \A k \in Key : k # line.key => c.settings[k] = b.settings[k]
    BY <2>0, <2>2, <2>3
  <2> QED BY <1>1, <1>7, <2>0, <2>2, <2>4 DEF R, K, id
<1>8. CASE line.key \in K \ R
  <2>0. line.key \in Key /\ line.key # "type" /\ line.key # "disable" BY <1>3, <1>4, <1>8
  <2>1. c = [b EXCEPT !.settings[line.key] = value] BY <1>2, <1>8, <2>0
  <2>2. /\ c.type = b.type /\ c.cat = b.cat
        /\ c.settings = [b.settings EXCEPT ![line.key] = value]
    BY <2>1 DEF Node
  <2>3. b.settings \in [Key -> Nat] BY DEF Node
  <2>4. c.settings[line.key] = value /\ \A k \in Key : k # line.key => c.settings[k] = b.settings[k]
    BY <2>0, <2>2, <2>3
  <2> QED BY <1>1, <1>8, <2>0, <2>2, <2>4 DEF R, K, value
<1>9. CASE line.key \notin {"type", "disable"} \cup R \cup K
  <2>1. c = b BY <1>2, <1>9
  <2> QED BY <1>1, <1>9, <2>1 DEF R, K
<1> QED BY <1>5, <1>6, <1>7, <1>8, <1>9

(* The language and the references keep to themselves.                     *)
LEMMA LanguageParsed ==
    /\ \A val : Parsed("language", val) = SET
    /\ \A cat, type : "language" \notin RefKeys(cat, type)
    /\ "language" \in Key
    /\ \A c \in Category : "language" \in KeysOf[c] <=> c = "FF_SYSTEM"
<1>1. \A val : Parsed("language", val) = SET
  <2>1. "language" \in NameKeys /\ "language" \notin TimeKeys /\ "language" # "days"
        /\ "language" # "dallas_address"
    BY DEF NameKeys, TimeKeys
  <2>2. \A val : StringArrayIndex("language", val) = SET BY DEF StringArrayIndex
  <2> QED BY <2>1, <2>2 DEF Parsed
<1>2. \A cat, type : "language" \notin RefKeys(cat, type) BY DEF RefKeys
<1>3. \A c \in Category : "language" \in KeysOf[c] <=> c = "FF_SYSTEM"
  BY CategoriesKnown DEF KeysOf
<1> QED BY <1>1, <1>2, <1>3, KeysKnown

(* A block takes any line and stays sound.                                 *)
LEMMA BlockStaysSound ==
    ASSUME ill \in Seq(Node), NEW blocks \in Seq(Node), NEW b \in Node,
           NEW line \in Line, SoundBlock(b)
    PROVE  SoundBlock(Configured(b, blocks, line))
<1> DEFINE c == Configured(b, blocks, line)
<1>1. /\ c.id = b.id /\ c.cat = b.cat
      /\ \A k \in Key : k # line.key => c.settings[k] = b.settings[k]
      /\ line.key \in KeysOf[b.cat] \ RefKeys(b.cat, b.type) =>
           c.settings[line.key] = Parsed(line.key, line.val)
      /\ line.key \notin RefKeys(b.cat, b.type) \cup KeysOf[b.cat] => c.settings = b.settings
  BY ConfiguredDoes
<1> HIDE DEF c
<1>2. c.settings["language"] = SET
  <2>1. CASE line.key = "language" BY <1>1, <2>1, LanguageParsed DEF SoundBlock
  <2>2. CASE line.key # "language" BY <1>1, <2>2, LanguageParsed DEF SoundBlock
  <2> QED BY <2>1, <2>2
<1> QED BY <1>1, <1>2 DEF SoundBlock, c

(* Neither the type nor a setting of an interface is ever of another type  *)
(* than the one it is given.                                               *)
LEMMA InterfaceStaysSound ==
    ASSUME bll \in Seq(Node), ill \in Seq(Node), NEW b \in Node,
           NEW line \in Line, SoundInterface(b), SoundLine(line),
           line.cat = "FF_INTERFACE", line.label = b.label
    PROVE  SoundInterface(ConfigureIFSetting(b, line))
<1> DEFINE c == Configured(b, bll, line)
           T == GivenTypes(b.label)
<1>1. /\ c.id = b.id /\ c.label = b.label /\ c.cat = b.cat
      /\ \A k \in Key : k # line.key => c.settings[k] = b.settings[k]
      /\ c.type = IF line.key = "type"
                  THEN BlockTypeStringArrayIndex(b.cat, line.val) ELSE b.type
      /\ line.key \notin RefKeys(b.cat, b.type) \cup KeysOf[b.cat] => c.settings = b.settings
  BY ConfiguredDoes
<1>2. ConfigureIFSetting(b, line) =
        IF line.key \in {"type", "disable"} \/ line.key \in IFKeys(b.type) THEN c ELSE b
  BY Zenon DEF ConfigureIFSetting, ConfigureIFSpecificSetting
<1> HIDE DEF c
<1>3. b.cat = "FF_INTERFACE" /\ b.cat \in Category BY DEF SoundInterface, Node
<1>4. RefKeys(b.cat, b.type) = {} BY <1>3 DEF RefKeys
<1>5. KeysOf[b.cat] \subseteq Key /\ \A k \in Key : k # "type" /\ k # "disable"
  BY <1>3, NoSettings
<1>6. CASE line.key \in {"type", "disable"}
  <2>1. c.settings = b.settings BY <1>1, <1>4, <1>5, <1>6
  <2>2. c.type \in T \cup {"BT_ERROR"}
    <3>1. BlockTypeStringArrayIndex(b.cat, line.val) \in T \cup {"BT_ERROR"}
      \/ line.key # "type"
      BY <1>3 DEF BlockTypeStringArrayIndex, SoundLine
    <3> QED BY <3>1, <1>1 DEF SoundInterface
  <2> QED BY <1>1, <1>2, <1>6, <2>1, <2>2 DEF SoundInterface
<1>7. CASE line.key \in IFKeys(b.type) /\ line.key \notin {"type", "disable"}
  <2>1. b.type # "BT_ERROR" BY <1>7 DEF IFKeys
  <2>2. b.type \in T BY <2>1 DEF SoundInterface
  <2>3. \A k \in Key : c.settings[k] # UINT16_INIT => \E t \in T : k \in IFKeys(t)
    BY <1>1, <1>7, <2>2 DEF SoundInterface
  <2> QED BY <1>1, <1>2, <1>7, <2>2, <2>3 DEF SoundInterface
<1>8. CASE line.key \notin {"type", "disable"} \cup IFKeys(b.type) BY <1>2, <1>8
<1> QED BY <1>6, <1>7, <1>8

(* New nodes are sound.                                                    *)
LEMMA NewBlockSound ==
    ASSUME block_count \in Nat, NEW cat \in Category, cat # "FF_INTERFACE",
           NEW label \in Label, NEW b, b = NewBlockNode(cat, label)
    PROVE  /\ b \in Node /\ SoundBlock(b)
           /\ b.label = label /\ b.cat = cat /\ b.settings = NewBlockSettings
           /\ b.id = IF cat = "FF_SYSTEM" THEN SSS ELSE BLOCK_ID_BASE + block_count
<1> DEFINE id == IF cat = "FF_SYSTEM" THEN SSS ELSE BLOCK_ID_BASE + block_count
<1>1. id \in Nat /\ (id = SSS <=> cat = "FF_SYSTEM") BY DEF SSS, BLOCK_ID_BASE
<1>2. NoType \in BlockType BY DEF BlockType
<1>3. b = NewNode(cat, label, NoType, id, NewBlockSettings) BY DEF NewBlockNode
<1> HIDE DEF id
<1>4. b \in Node /\ b.id = id BY <1>1, <1>2, <1>3, NewNodeTyped
<1>5. b.label = label /\ b.cat = cat /\ b.settings = NewBlockSettings BY <1>3 DEF NewNode
<1>6. NewBlockSettings["language"] = SET
  BY LanguageParsed DEF NewBlockSettings, PresetKeys
<1> QED BY <1>1, <1>4, <1>5, <1>6 DEF SoundBlock, id

(* So are new interfaces.                                                  *)
LEMMA NewInterfaceSound ==
    ASSUME block_count \in Nat, NEW label \in Label, NEW type \in GivenTypes(label),
           NEW b, b = NewInterfaceNode(type, label)
    PROVE  /\ b \in Node /\ SoundInterface(b)
           /\ b.label = label /\ b.type = type /\ b.settings = NewIFSettings
           /\ b.cat = "FF_INTERFACE" /\ b.id = BLOCK_ID_BASE + block_count
<1> DEFINE id == BLOCK_ID_BASE + block_count
<1>1. id \in Nat /\ id # SSS BY DEF SSS, BLOCK_ID_BASE
<1>2. type \in BlockType /\ "FF_INTERFACE" \in Category
  BY CategoriesKnown DEF BlockType, GivenTypes, TypesOf
<1>3. b = NewNode("FF_INTERFACE", label, type, id, NewIFSettings) BY DEF NewInterfaceNode
<1> HIDE DEF id
<1>4. b \in Node /\ b.id = id BY <1>1, <1>2, <1>3, NewNodeTyped
<1>5. /\ b.label = label /\ b.cat = "FF_INTERFACE" /\ b.settings = NewIFSettings
      /\ b.type = type
  BY <1>3 DEF NewNode
<1>6. \A k \in Key : NewIFSettings[k] = UINT16_INIT BY DEF NewIFSettings
<1> QED BY <1>1, <1>4, <1>5, <1>6 DEF SoundInterface, id
-----------------------------------------------------------------------------
(* Lists of which one node is changed, added or taken out.                 *)

(* ... changed.                                                            *)
LEMMA SetOne ==
    ASSUME NEW list \in Seq(Node), NEW n \in DOMAIN list, NEW c \in Node,
           NEW new, new = [list EXCEPT ![n] = c]
    PROVE  /\ new \in Seq(Node) /\ DOMAIN new = DOMAIN list /\ Len(new) = Len(list)
           /\ \A m \in DOMAIN list : new[m] = IF m = n THEN c ELSE list[m]
           /\ c.label = list[n].label /\ LabelsApart(list) => LabelsApart(new)
<1>1. DOMAIN list = 1 .. Len(list) BY LenProperties
<1>2. /\ new \in Seq(Node) /\ Len(new) = Len(list)
      /\ \A m \in 1 .. Len(list) : new[m] = IF m = n THEN c ELSE list[m]
  BY <1>1, ExceptSeq
<1>3. DOMAIN new = DOMAIN list BY <1>1, <1>2, LenProperties
<1>4. ASSUME c.label = list[n].label
      PROVE  \A m \in DOMAIN list : new[m].label = list[m].label
  BY <1>1, <1>2, <1>4
<1>5. c.label = list[n].label /\ LabelsApart(list) => LabelsApart(new)
  BY <1>3, <1>4 DEF LabelsApart
<1> QED BY <1>1, <1>2, <1>3, <1>5

(* ... added.                                                              *)
LEMMA AddOne ==
    ASSUME NEW list \in Seq(Node), NEW c \in Node, NEW new, new = Append(list, c)
    PROVE  /\ new \in Seq(Node) /\ Len(new) = Len(list) + 1 /\ Len(list) \in Nat
           /\ DOMAIN new = 1 .. Len(list) + 1 /\ DOMAIN list = 1 .. Len(list)
           /\ \A m \in 1 .. Len(list) : new[m] = list[m]
           /\ new[Len(list) + 1] = c
           /\ (\A m \in DOMAIN list : list[m].label # c.label) /\ LabelsApart(list)
              => LabelsApart(new)
<1>1. /\ new \in Seq(Node) /\ Len(new) = Len(list) + 1 /\ Len(list) \in Nat
      /\ \A m \in 1 .. Len(list) : new[m] = list[m]
      /\ new[Len(list) + 1] = c
  BY LenProperties
<1>2. DOMAIN new = 1 .. Len(list) + 1 /\ DOMAIN list = 1 .. Len(list)
  BY <1>1, LenProperties
<1>3. ASSUME \A m \in DOMAIN list : list[m].label # c.label, LabelsApart(list),
             NEW m \in DOMAIN new, NEW n \in DOMAIN new, new[m].label = new[n].label
      PROVE  m = n
  <2> DEFINE l == Len(list)
  <2>1. l \in Nat /\ m \in 1 .. l + 1 /\ n \in 1 .. l + 1 BY <1>1, <1>2
  <2>2. \A p \in 1 .. l : new[p] = list[p] /\ p \in DOMAIN list BY <1>1, <1>2
  <2>3. new[l + 1] = c BY <1>1
  <2> HIDE DEF l
  <2>4. CASE m \in 1 .. l /\ n \in 1 .. l BY <1>3, <2>2, <2>4 DEF LabelsApart
  <2>5. CASE m = l + 1 /\ n \in 1 .. l BY <1>3, <2>2, <2>3, <2>5
  <2>6. CASE n = l + 1 /\ m \in 1 .. l BY <1>3, <2>2, <2>3, <2>6
  <2> QED BY <2>1, <2>4, <2>5, <2>6
<1> QED BY <1>1, <1>2, <1>3 DEF LabelsApart

(* ... taken out.                                                          *)
LEMMA DropOne ==
    ASSUME NEW list \in Seq(Node), NEW p \in DOMAIN list,
           NEW new, new = RemoveAt(list, p)
    PROVE  /\ \A m \in DOMAIN new : \E n \in DOMAIN list : new[m] = list[n]
           /\ LabelsApart(list) => LabelsApart(new)
<1>1. /\ new \in Seq(Node) /\ Len(new) = Len(list) - 1
      /\ \A n \in 1 .. Len(list) - 1 : new[n] = list[IF n < p THEN n ELSE n + 1]
  BY RemovedAt
<1>2. /\ DOMAIN list = 1 .. Len(list) /\ Len(list) \in Nat /\ p \in 1 .. Len(list)
      /\ DOMAIN new = 1 .. Len(list) - 1
  BY <1>1, LenProperties
<1> DEFINE h(n) == IF n < p THEN n ELSE n + 1
<1>3. \A n \in DOMAIN new : h(n) \in DOMAIN list /\ new[n] = list[h(n)] BY <1>1, <1>2
<1>4. \A m, n \in DOMAIN new : h(m) = h(n) => m = n BY <1>2
<1> HIDE DEF h
<1> QED BY <1>3, <1>4 DEF LabelsApart
-----------------------------------------------------------------------------
(* What a line does to the lists.                                          *)

(* A line for a block sets the one with its label, or adds it and sets it. *)
LEMMA BlockLineDoes ==
    ASSUME bll \in Seq(Node), ill \in Seq(Node), block_count \in Nat,
           NEW line \in Line, line.cat # "FF_INTERFACE", ConfigureBlock(line)
    PROVE  /\ ill' = ill
           /\ \/ \E n \in DOMAIN bll :
                   /\ bll[n].label = line.label
                   /\ bll' = [bll EXCEPT ![n] = Configured(bll[n], bll, line)]
              \/ /\ \A n \in DOMAIN bll : bll[n].label # line.label
                 /\ LET b == NewBlockNode(line.cat, line.label)
                    IN bll' = Append(bll, Configured(b, Append(bll, b), line))
<1> DEFINE p == ByLabel(bll, line.label)
           b == NewBlockNode(line.cat, line.label)
           new == Append(bll, b)
           q == ByLabel(new, line.label)
<1>1. /\ p \in DOMAIN bll \cup {0}
      /\ p # 0 => bll[p].label = line.label
      /\ p = 0 => \A n \in DOMAIN bll : bll[n].label # line.label
  BY ByLabelFound
<1>2. /\ p # 0 => bll' = [bll EXCEPT ![p] = Configured(@, bll, line)]
      /\ p = 0 => bll' = [new EXCEPT ![q] = Configured(@, new, line)]
      /\ ill' = ill
  BY DEF ConfigureBlock
<1> HIDE DEF p
<1>3. CASE p # 0 BY <1>1, <1>2, <1>3
<1>4. CASE p = 0
  <2>1. b \in Node /\ b.label = line.label
    <3>1. line.cat \in Category /\ line.label \in Label BY DEF Line
    <3> QED BY <3>1, NewBlockSound
  <2> HIDE DEF b
  <2>2. /\ new \in Seq(Node) /\ DOMAIN new = 1 .. Len(bll) + 1 /\ Len(bll) \in Nat
        /\ DOMAIN bll = 1 .. Len(bll)
        /\ \A m \in 1 .. Len(bll) : new[m] = bll[m]
        /\ new[Len(bll) + 1] = b
    BY <2>1, AddOne
  <2>3. q = Len(bll) + 1
    <3>1. /\ q \in DOMAIN new \cup {0}
          /\ q # 0 => new[q].label = line.label
          /\ q = 0 => \A n \in DOMAIN new : new[n].label # line.label
      BY <2>2, ByLabelFound
    <3> HIDE DEF q, new
    <3>2. q # 0 BY <3>1, <2>1, <2>2
    <3>3. q \notin 1 .. Len(bll) BY <3>1, <3>2, <2>2, <1>1, <1>4
    <3> QED BY <3>1, <3>2, <3>3, <2>2
  <2> DEFINE c == Configured(b, new, line)
  <2>4. bll' = [new EXCEPT ![Len(bll) + 1] = c] BY <1>2, <1>4, <2>2, <2>3
  <2>5. [new EXCEPT ![Len(bll) + 1] = c] = Append(bll, c)
    <3> HIDE DEF c
    <3>0. c \in Node BY <2>1, <2>2, ConfiguredNode DEF c
    <3> DEFINE l == Len(bll) + 1  s == [new EXCEPT ![l] = c]
    <3>1. /\ s \in Seq(Node) /\ Len(s) = Len(bll) + 1
          /\ \A m \in 1 .. Len(bll) + 1 : s[m] = IF m = Len(bll) + 1 THEN c ELSE bll[m]
      <4> HIDE DEF new, c
      <4>1. /\ l \in DOMAIN new /\ DOMAIN new = 1 .. l /\ Len(new) = l
        BY <2>2, LenProperties
      <4>2. \A m \in 1 .. l : m # l => new[m] = bll[m] BY <2>2
      <4> HIDE DEF l, s
      <4>3. /\ s \in Seq(Node) /\ Len(s) = Len(new)
            /\ \A m \in DOMAIN new : s[m] = IF m = l THEN c ELSE new[m]
        BY <2>2, <3>0, <4>1, SetOne DEF s
      <4>4. \A m \in 1 .. l : s[m] = IF m = l THEN c ELSE bll[m]
        BY <4>1, <4>2, <4>3
      <4> QED BY <4>1, <4>3, <4>4 DEF l
    <3>2. LET t == Append(bll, c)
          IN /\ t \in Seq(Node) /\ Len(t) = Len(bll) + 1
             /\ \A m \in 1 .. Len(bll) + 1 : t[m] = IF m = Len(bll) + 1 THEN c ELSE bll[m]
      BY <3>0, <2>2, AddOne
    <3> HIDE DEF new, c
    <3> QED BY <3>1, <3>2, <2>2, SeqEqual
  <2> QED BY <1>1, <1>2, <1>4, <2>4, <2>5 DEF b
<1> QED BY <1>3, <1>4

(* A line for an interface adds it, sets the one with its label, or        *)
(* nothing.                                                                *)
LEMMA InterfaceLineDoes ==
    ASSUME ill \in Seq(Node), NEW line, ConfigureInterface(line)
    PROVE  /\ bll' = bll
           /\ \/ /\ \A n \in DOMAIN ill : ill[n].label # line.label
                 /\ line.key = "type" /\ line.val \in TypesOf.FF_INTERFACE
                 /\ ill' = Append(ill, NewInterfaceNode(line.val, line.label))
              \/ \E n \in DOMAIN ill :
                   /\ ill[n].label = line.label
                   /\ ill' = [ill EXCEPT ![n] = ConfigureIFSetting(ill[n], line)]
              \/ /\ \A n \in DOMAIN ill : ill[n].label # line.label
                 /\ ~ (line.key = "type" /\ line.val \in TypesOf.FF_INTERFACE)
                 /\ ill' = ill
<1> DEFINE n == ByLabel(ill, line.label)
<1>1. /\ n \in DOMAIN ill \cup {0}
      /\ n # 0 => ill[n].label = line.label
      /\ n = 0 => \A m \in DOMAIN ill : ill[m].label # line.label
  BY ByLabelFound
<1>2. /\ n = 0 /\ line.key = "type" /\ line.val \in TypesOf.FF_INTERFACE
           => ill' = Append(ill, NewInterfaceNode(line.val, line.label))
      /\ n # 0 => ill' = [ill EXCEPT ![n] = ConfigureIFSetting(@, line)]
      /\ n = 0 /\ ~ (line.key = "type" /\ line.val \in TypesOf.FF_INTERFACE) => ill' = ill
      /\ bll' = bll
  BY DEF ConfigureInterface, AddInterface
<1> HIDE DEF n
<1> QED BY <1>1, <1>2
-----------------------------------------------------------------------------
(* Every node stays sound, whatever the step.                              *)

(* A list of which nothing changes but the status of nodes.                *)
SameButStatus(old, new) ==
    /\ DOMAIN new = DOMAIN old
    /\ \A n \in DOMAIN old :
         /\ new[n].id = old[n].id /\ new[n].label = old[n].label
         /\ new[n].cat = old[n].cat /\ new[n].type = old[n].type
         /\ new[n].settings = old[n].settings

(* The end of a boot changes nothing else.                                 *)
LEMMA BootSame ==
    ASSUME TypeOK, BootDone
    PROVE  SameButStatus(bll, bll') /\ SameButStatus(ill, ill')
<1>1. PICK answer \in [{n \in DOMAIN bll : bll[n].type = "IN_VEDIRECT"} ->
                          {"ENABLED", "DISABLED_ERROR", "DISABLED_INIT"}] :
        bll' = [n \in DOMAIN bll |-> SetUp(Validated(bll[n]), answer[n])]
  BY DEF BootDone
<1>2. ill' = [n \in DOMAIN ill |-> Validated(ill[n])] BY DEF BootDone
<1>3. bll \in Seq(Node) /\ ill \in Seq(Node) BY DEF TypeOK
<1>4. ASSUME NEW b \in Node, NEW status
      PROVE  LET c == [b EXCEPT !.status = status]
             IN /\ c.id = b.id /\ c.label = b.label /\ c.cat = b.cat
                /\ c.type = b.type /\ c.settings = b.settings
  BY DEF Node
<1>5. ASSUME NEW b \in Node
      PROVE  LET c == Validated(b)
             IN /\ c.id = b.id /\ c.label = b.label /\ c.cat = b.cat
                /\ c.type = b.type /\ c.settings = b.settings /\ c \in Node
  BY <1>4 DEF Validated, Node, Status
<1>6. ASSUME NEW b \in Node, NEW a
      PROVE  LET c == SetUp(Validated(b), a)
             IN /\ c.id = b.id /\ c.label = b.label /\ c.cat = b.cat
                /\ c.type = b.type /\ c.settings = b.settings
  <2> DEFINE v == Validated(b)
  <2>1. /\ v.id = b.id /\ v.label = b.label /\ v.cat = b.cat
        /\ v.type = b.type /\ v.settings = b.settings /\ v \in Node
    BY <1>5
  <2> HIDE DEF v
  <2>2. \/ SetUp(v, a) = v
        \/ \E status : SetUp(v, a) = [v EXCEPT !.status = status]
    BY DEF SetUp
  <2> DEFINE c == SetUp(v, a)
  <2> HIDE DEF c
  <2>3. /\ c.id = v.id /\ c.label = v.label /\ c.cat = v.cat
        /\ c.type = v.type /\ c.settings = v.settings
    <3>1. CASE c = v BY <3>1
    <3>2. CASE \E status : c = [v EXCEPT !.status = status]
      <4>1. PICK status : c = [v EXCEPT !.status = status] BY <3>2
      <4> QED BY <4>1, <2>1, <1>4
    <3> QED BY <2>2, <3>1, <3>2 DEF c
  <2> QED BY <2>1, <2>3 DEF v, c
<1>7. \A n \in DOMAIN bll : bll[n] \in Node BY <1>3, ElementOfSeq, LenProperties
<1>8. \A n \in DOMAIN ill : ill[n] \in Node BY <1>3, ElementOfSeq, LenProperties
<1>9. SameButStatus(bll, bll') BY <1>1, <1>6, <1>7 DEF SameButStatus
<1>10. SameButStatus(ill, ill') BY <1>2, <1>5, <1>8 DEF SameButStatus
<1> QED BY <1>9, <1>10

(* So does an administrative command.                                      *)
LEMMA AdminSame ==
    ASSUME TypeOK, RegAdmin
    PROVE  SameButStatus(bll, bll') /\ ill' = ill
<1>1. PICK n \in DOMAIN bll, status \in {"DISABLED_ADMIN", "DISABLED_INIT"} :
        bll' = [bll EXCEPT ![n].status = status]
  BY DEF RegAdmin
<1>2. bll \in Seq(Node) BY DEF TypeOK
<1>3. \A m \in DOMAIN bll : bll[m] \in Node BY <1>2, ElementOfSeq, LenProperties
<1> DEFINE c == [bll[n] EXCEPT !.status = status]
<1>4. /\ c.id = bll[n].id /\ c.label = bll[n].label /\ c.cat = bll[n].cat
      /\ c.type = bll[n].type /\ c.settings = bll[n].settings
      /\ c \in Node
  BY <1>3 DEF Node, Status
<1>5. bll' = [bll EXCEPT ![n] = c] BY <1>1
<1> HIDE DEF c
<1>6. /\ DOMAIN bll' = DOMAIN bll
      /\ \A m \in DOMAIN bll : bll'[m] = IF m = n THEN c ELSE bll[m]
  BY <1>2, <1>4, <1>5, SetOne
<1>7. ill' = ill BY DEF RegAdmin
<1> QED BY <1>4, <1>6, <1>7 DEF SameButStatus

(* An assigned sensor is one, and takes the settings of one.               *)
LEMMA AssignedSound ==
    ASSUME TypeOK, Registry, RegIFOneWireAssign
    PROVE  Registry'
<1>1. PICK s \in DOMAIN ill, t \in DOMAIN ill :
        /\ ill[s].type = "IF_ONEWIRE_BUS" /\ ill[t].type = "IF_DS1820B"
        /\ ill' = [ill EXCEPT ![t].settings =
                     [@ EXCEPT !["bus_pin"] = ill[s].settings["bus_pin"],
                               !["dallas_address"] = SET]]
  BY DEF RegIFOneWireAssign
<1>2. bll' = bll BY DEF RegIFOneWireAssign
<1>3. ill \in Seq(Node) BY DEF TypeOK
<1>4. ill[s] \in Node /\ ill[t] \in Node BY <1>3, ElementOfSeq, LenProperties
<1> DEFINE v == ill[s].settings["bus_pin"]
           c == [ill[t] EXCEPT !.settings =
                   [@ EXCEPT !["bus_pin"] = v, !["dallas_address"] = SET]]
<1>5. {"bus_pin", "dallas_address"} \subseteq Key BY KeysKnown
<1>6. v \in Nat /\ SET \in Nat BY <1>4, <1>5 DEF Node, SET
<1>7. ill' = [ill EXCEPT ![t] = c] BY <1>1
<1> HIDE DEF v
<1>8. /\ c \in Node
      /\ c.id = ill[t].id /\ c.label = ill[t].label /\ c.cat = ill[t].cat
      /\ c.type = ill[t].type
      /\ \A k \in Key \ {"bus_pin", "dallas_address"} : c.settings[k] = ill[t].settings[k]
  BY <1>4, <1>6 DEF Node
<1> HIDE DEF c
<1>9. SoundInterface(ill[t]) /\ ill[t].type = "IF_DS1820B" BY <1>1 DEF Registry
<1>10. "IF_DS1820B" \in GivenTypes(ill[t].label)
  BY <1>9 DEF SoundInterface
<1>11. SoundInterface(c)
  <2>1. \A k \in {"bus_pin", "dallas_address"} : k \in IFKeys("IF_DS1820B") BY DEF IFKeys
  <2>2. \A k \in Key : c.settings[k] # UINT16_INIT =>
          \E x \in GivenTypes(c.label) : k \in IFKeys(x)
    BY <1>8, <1>9, <1>10, <2>1 DEF SoundInterface
  <2> QED BY <1>8, <1>9, <2>2 DEF SoundInterface
<1>12. /\ DOMAIN ill' = DOMAIN ill
       /\ \A m \in DOMAIN ill : ill'[m] = IF m = t THEN c ELSE ill[m]
       /\ LabelsApart(ill) => LabelsApart(ill')
  <2> DEFINE new == [ill EXCEPT ![t] = c]
  <2>1. new = [ill EXCEPT ![t] = c] /\ c \in Node /\ c.label = ill[t].label BY <1>8
  <2>2. ill' = new BY <1>7
  <2> HIDE DEF new
  <2>3. DOMAIN new = DOMAIN ill BY <2>1
  <2>4. \A m \in DOMAIN ill : new[m] = IF m = t THEN c ELSE ill[m] BY <2>1, <1>3, SetOne
  <2>5. LabelsApart(ill) => LabelsApart(new) BY <2>1, <1>3, SetOne
  <2> QED BY <2>2, <2>3, <2>4, <2>5
<1> QED BY <1>2, <1>11, <1>12 DEF Registry

(* A list that a line may change.                                          *)
LEMMA LineKeepsSound ==
    ASSUME bll \in Seq(Node), ill \in Seq(Node), block_count \in Nat, Registry,
           NEW line \in Line, SoundLine(line), Configure(line)
    PROVE  Registry'
<1>1. line.cat \in Category /\ line.label \in Label BY DEF Line
<1>2. CASE line.cat # "FF_INTERFACE"
  <2>1. /\ ill' = ill
        /\ \/ \E n \in DOMAIN bll :
                /\ bll[n].label = line.label
                /\ bll' = [bll EXCEPT ![n] = Configured(bll[n], bll, line)]
           \/ /\ \A n \in DOMAIN bll : bll[n].label # line.label
              /\ LET b == NewBlockNode(line.cat, line.label)
                 IN bll' = Append(bll, Configured(b, Append(bll, b), line))
    BY <1>2, BlockLineDoes DEF Configure
  <2>2. CASE \E n \in DOMAIN bll :
                /\ bll[n].label = line.label
                /\ bll' = [bll EXCEPT ![n] = Configured(bll[n], bll, line)]
    <3>1. PICK n \in DOMAIN bll : bll' = [bll EXCEPT ![n] = Configured(bll[n], bll, line)]
      BY <2>2
    <3> DEFINE c == Configured(bll[n], bll, line)
    <3>2. bll[n] \in Node BY ElementOfSeq, LenProperties
    <3>3. c \in Node /\ c.label = bll[n].label BY <3>2, ConfiguredDoes
    <3>4. SoundBlock(c) BY <3>2, BlockStaysSound DEF Registry
    <3>5. bll' = [bll EXCEPT ![n] = c] BY <3>1
    <3> HIDE DEF c
    <3>6. /\ DOMAIN bll' = DOMAIN bll
          /\ \A m \in DOMAIN bll : bll'[m] = IF m = n THEN c ELSE bll[m]
          /\ LabelsApart(bll) => LabelsApart(bll')
      BY <3>3, <3>5, SetOne
    <3> QED BY <2>1, <3>4, <3>6 DEF Registry
  <2>3. CASE /\ \A n \in DOMAIN bll : bll[n].label # line.label
             /\ LET b == NewBlockNode(line.cat, line.label)
                IN bll' = Append(bll, Configured(b, Append(bll, b), line))
    <3> DEFINE b == NewBlockNode(line.cat, line.label)
               c == Configured(b, Append(bll, b), line)
    <3>1. b \in Node /\ SoundBlock(b) /\ b.label = line.label BY <1>1, <1>2, NewBlockSound
    <3>2. bll' = Append(bll, c) BY <2>3, Zenon
    <3> HIDE DEF b
    <3>3. Append(bll, b) \in Seq(Node) BY <3>1, AddOne
    <3>4. c \in Node /\ c.label = b.label BY <3>1, <3>3, ConfiguredNode
    <3>5. SoundBlock(c) BY <3>1, <3>3, BlockStaysSound
    <3> HIDE DEF c
    <3> DEFINE new == Append(bll, c)
    <3>9. /\ Len(new) = Len(bll) + 1 /\ Len(bll) \in Nat
          /\ DOMAIN new = 1 .. Len(bll) + 1 /\ DOMAIN bll = 1 .. Len(bll)
          /\ \A m \in 1 .. Len(bll) : new[m] = bll[m]
          /\ new[Len(bll) + 1] = c
      BY <3>4, AddOne
    <3>10. (\A m \in DOMAIN bll : bll[m].label # c.label) /\ LabelsApart(bll)
             => LabelsApart(new)
      BY <3>4, AddOne
    <3>6. /\ DOMAIN bll' = 1 .. Len(bll) + 1 /\ DOMAIN bll = 1 .. Len(bll)
          /\ Len(bll) \in Nat
          /\ \A m \in 1 .. Len(bll) : bll'[m] = bll[m]
          /\ bll'[Len(bll) + 1] = c
          /\ (\A m \in DOMAIN bll : bll[m].label # c.label) /\ LabelsApart(bll)
             => LabelsApart(bll')
      <4> HIDE DEF new
      <4>1. bll' = new BY <3>2 DEF new
      <4> QED BY <3>9, <3>10, <4>1, Zenon
    <3>7. LabelsApart(bll') BY <2>3, <3>1, <3>4, <3>6 DEF Registry
    <3>8. \A m \in DOMAIN bll' : m \in DOMAIN bll \/ m = Len(bll) + 1 BY <3>6
    <3> QED BY <2>1, <3>5, <3>6, <3>7, <3>8 DEF Registry
  <2> QED BY <2>1, <2>2, <2>3
<1>3. CASE line.cat = "FF_INTERFACE"
  <2>1. /\ bll' = bll
        /\ \/ /\ \A n \in DOMAIN ill : ill[n].label # line.label
              /\ line.key = "type" /\ line.val \in TypesOf.FF_INTERFACE
              /\ ill' = Append(ill, NewInterfaceNode(line.val, line.label))
           \/ \E n \in DOMAIN ill :
                /\ ill[n].label = line.label
                /\ ill' = [ill EXCEPT ![n] = ConfigureIFSetting(ill[n], line)]
           \/ ill' = ill
    BY <1>3, InterfaceLineDoes, SMTT(40) DEF Configure
  <2>2. CASE /\ \A n \in DOMAIN ill : ill[n].label # line.label
             /\ line.key = "type" /\ line.val \in TypesOf.FF_INTERFACE
             /\ ill' = Append(ill, NewInterfaceNode(line.val, line.label))
    <3> DEFINE c == NewInterfaceNode(line.val, line.label)
    <3>1. line.val \in GivenTypes(line.label) BY <1>3, <2>2 DEF SoundLine
    <3>2. c \in Node /\ SoundInterface(c) /\ c.label = line.label
      BY <1>1, <3>1, NewInterfaceSound
    <3>3. ill' = Append(ill, c) BY <2>2
    <3> HIDE DEF c
    <3> DEFINE new == Append(ill, c)
    <3>9. /\ Len(new) = Len(ill) + 1 /\ Len(ill) \in Nat
          /\ DOMAIN new = 1 .. Len(ill) + 1 /\ DOMAIN ill = 1 .. Len(ill)
          /\ \A m \in 1 .. Len(ill) : new[m] = ill[m]
          /\ new[Len(ill) + 1] = c
      BY <3>2, AddOne
    <3>10. (\A m \in DOMAIN ill : ill[m].label # c.label) /\ LabelsApart(ill)
             => LabelsApart(new)
      BY <3>2, AddOne
    <3>6. /\ DOMAIN ill' = 1 .. Len(ill) + 1 /\ DOMAIN ill = 1 .. Len(ill)
          /\ Len(ill) \in Nat
          /\ \A m \in 1 .. Len(ill) : ill'[m] = ill[m]
          /\ ill'[Len(ill) + 1] = c
          /\ (\A m \in DOMAIN ill : ill[m].label # c.label) /\ LabelsApart(ill)
             => LabelsApart(ill')
      <4> HIDE DEF new
      <4>1. ill' = new BY <3>3 DEF new
      <4> QED BY <3>9, <3>10, <4>1, Zenon
    <3>7. LabelsApart(ill') BY <2>2, <3>2, <3>6 DEF Registry
    <3>8. \A m \in DOMAIN ill' : m \in DOMAIN ill \/ m = Len(ill) + 1 BY <3>6
    <3> QED BY <2>1, <3>2, <3>6, <3>7, <3>8 DEF Registry
  <2>3. CASE \E n \in DOMAIN ill :
               /\ ill[n].label = line.label
               /\ ill' = [ill EXCEPT ![n] = ConfigureIFSetting(ill[n], line)]
    <3>1. PICK n \in DOMAIN ill :
            /\ ill[n].label = line.label
            /\ ill' = [ill EXCEPT ![n] = ConfigureIFSetting(ill[n], line)]
      BY <2>3
    <3> DEFINE c == ConfigureIFSetting(ill[n], line)
    <3>2. ill[n] \in Node BY ElementOfSeq, LenProperties
    <3>3. c \in Node /\ c.label = ill[n].label
      <4>1. c = Configured(ill[n], bll, line) \/ c = ill[n]
        BY DEF ConfigureIFSetting, ConfigureIFSpecificSetting
      <4>2. Configured(ill[n], bll, line) \in Node
            /\ Configured(ill[n], bll, line).label = ill[n].label
        BY <3>2, ConfiguredDoes
      <4> HIDE DEF c
      <4> QED BY <3>2, <4>1, <4>2
    <3>4. SoundInterface(c) BY <1>3, <3>1, <3>2, InterfaceStaysSound DEF Registry
    <3>5. ill' = [ill EXCEPT ![n] = c] BY <3>1
    <3> HIDE DEF c
    <3>6. /\ DOMAIN ill' = DOMAIN ill
          /\ \A m \in DOMAIN ill : ill'[m] = IF m = n THEN c ELSE ill[m]
          /\ LabelsApart(ill) => LabelsApart(ill')
      BY <3>3, <3>5, SetOne
    <3> QED BY <2>1, <3>4, <3>6 DEF Registry
  <2>4. CASE ill' = ill BY <2>1, <2>4 DEF Registry
  <2> QED BY <2>1, <2>2, <2>3, <2>4
<1> QED BY <1>2, <1>3

(* ... or a deletion.                                                      *)
LEMMA DeletionKeepsSound ==
    ASSUME bll \in Seq(Node), ill \in Seq(Node), Registry,
           \/ \E p \in DOMAIN bll : bll' = RemoveAt(bll, p) /\ ill' = ill
           \/ \E p \in DOMAIN ill : ill' = RemoveAt(ill, p) /\ bll' = bll
    PROVE  Registry'
<1>1. CASE \E p \in DOMAIN bll : bll' = RemoveAt(bll, p) /\ ill' = ill
  <2>1. PICK p \in DOMAIN bll : bll' = RemoveAt(bll, p) /\ ill' = ill BY <1>1
  <2>2. /\ \A m \in DOMAIN bll' : \E n \in DOMAIN bll : bll'[m] = bll[n]
        /\ LabelsApart(bll) => LabelsApart(bll')
    BY <2>1, DropOne
  <2> QED BY <2>1, <2>2 DEF Registry
<1>2. CASE \E p \in DOMAIN ill : ill' = RemoveAt(ill, p) /\ bll' = bll
  <2>1. PICK p \in DOMAIN ill : ill' = RemoveAt(ill, p) /\ bll' = bll BY <1>2
  <2>2. /\ \A m \in DOMAIN ill' : \E n \in DOMAIN ill : ill'[m] = ill[n]
        /\ LabelsApart(ill) => LabelsApart(ill')
    BY <2>1, DropOne
  <2> QED BY <2>1, <2>2 DEF Registry
<1> QED BY <1>1, <1>2

(* Lists that were emptied.                                                *)
LEMMA NothingUnsound ==
    ASSUME bll' = <<>>, ill' = <<>>
    PROVE  Registry'
<1>1. DOMAIN <<>> = {} OBVIOUS
<1> QED BY <1>1 DEF Registry, LabelsApart

(* The lines the operator enters give an interface the type it is given.   *)
LEMMA ConsoleSound ==
    ASSUME NEW line \in Given
    PROVE  SoundLine(line)
BY DEF SoundLine, GivenTypes

(* A change of status.                                                     *)
LEMMA StatusKeepsSound ==
    ASSUME Registry, SameButStatus(bll, bll'), SameButStatus(ill, ill')
    PROVE  Registry'
<1>1. \A n \in DOMAIN bll : SoundBlock(bll[n]) => SoundBlock(bll'[n])
  BY DEF SameButStatus, SoundBlock
<1>2. \A n \in DOMAIN ill : SoundInterface(ill[n]) => SoundInterface(ill'[n])
  BY DEF SameButStatus, SoundInterface
<1>3. LabelsApart(bll) => LabelsApart(bll') BY DEF SameButStatus, LabelsApart
<1>4. LabelsApart(ill) => LabelsApart(ill') BY DEF SameButStatus, LabelsApart
<1> QED BY <1>1, <1>2, <1>3, <1>4 DEF Registry, SameButStatus

(* The line of the file that is read is one of its lines.                  *)
LEMMA LineRead ==
    ASSUME TypeOK, LoadLine
    PROVE  /\ file[pos + 1] \in Line /\ pos + 1 \in DOMAIN file
           /\ ConfigParse(file[pos + 1])
<1>1. pos \in Nat /\ file \in Seq(Line) /\ pos < Len(file) BY DEF TypeOK, LoadLine
<1>2. Len(file) \in Nat /\ DOMAIN file = 1 .. Len(file) BY <1>1, LenProperties
<1>3. pos + 1 \in 1 .. Len(file) BY <1>1, <1>2
<1>4. file[pos + 1] \in Line BY <1>1, <1>3, ElementOfSeq
<1> QED BY <1>2, <1>3, <1>4 DEF LoadLine

(* Every step keeps the nodes sound and their labels apart.                *)
LEMMA RegistryKept ==
    ASSUME TypeOK, Registry, FileSound, [Next]_vars
    PROVE  Registry'
<1>1. bll \in Seq(Node) /\ ill \in Seq(Node) /\ block_count \in Nat BY DEF TypeOK
<1>2. CASE UNCHANGED lists
  <2>1. bll' = bll /\ ill' = ill BY <1>2 DEF lists
  <2> QED BY <2>1 DEF Registry
<1>3. CASE PowerOn \/ RegConfigSave \/ SaveDone \/ RegConfigLoad \/ ReloadDone
           \/ UNCHANGED vars
  <2>1. UNCHANGED lists
    BY <1>3 DEF PowerOn, InitConfigLoad, RegConfigSave, SaveDone, RegConfigLoad, ReloadDone,
       vars, lists
  <2> QED BY <2>1, <1>2
<1>4. CASE LoadLine
  <2>1. file[pos + 1] \in Line /\ SoundLine(file[pos + 1]) /\ ConfigParse(file[pos + 1])
    BY <1>4, LineRead DEF FileSound
  <2> QED BY <2>1, <1>1, <1>2, LineKeepsSound DEF ConfigParse
<1>5. CASE BootDone BY <1>5, BootSame, StatusKeepsSound
<1>6. CASE RegConfigLine
  <2>1. PICK line \in ConsoleLines : Configure(line) BY <1>6 DEF RegConfigLine
  <2>2. line \in Line /\ SoundLine(line) BY ConsoleAssumption, ConsoleSound DEF Given
  <2> QED BY <2>1, <2>2, <1>1, LineKeepsSound
<1>7. CASE RegConfigDeleteBID
  <2>2. PICK id :
          \/ ById(bll, id) # 0 /\ bll' = RemoveAt(bll, ById(bll, id)) /\ ill' = ill
          \/ ById(ill, id) # 0 /\ ill' = RemoveAt(ill, ById(ill, id)) /\ bll' = bll
    BY <1>7 DEF RegConfigDeleteBID, DeleteBlockByID
  <2>3. /\ ById(bll, id) \in DOMAIN bll \cup {0}
        /\ ById(ill, id) \in DOMAIN ill \cup {0}
    BY <1>1, ByIdFound
  <2> QED BY <2>2, <2>3, <1>1, DeletionKeepsSound
<1>8. CASE RegConfigDeleteBlockLabel
  <2>2. PICK label \in Label :
          \/ ByLabel(bll, label) # 0 /\ bll' = RemoveAt(bll, ByLabel(bll, label)) /\ ill' = ill
          \/ ByLabel(ill, label) # 0 /\ ill' = RemoveAt(ill, ByLabel(ill, label)) /\ bll' = bll
    BY <1>8 DEF RegConfigDeleteBlockLabel, DeleteBlockByLabel
  <2>3. /\ ByLabel(bll, label) \in DOMAIN bll \cup {0}
        /\ ByLabel(ill, label) \in DOMAIN ill \cup {0}
    BY <1>1, ByLabelFound
  <2> QED BY <2>2, <2>3, <1>1, DeletionKeepsSound
<1>9. CASE RegConfigClear
  BY <1>9, NothingUnsound DEF RegConfigClear, DropBlockList, DropInterfaceList
<1>10. CASE RegAdmin
  <2>1. SameButStatus(ill, ill') BY <1>10, AdminSame DEF SameButStatus
  <2> QED BY <2>1, <1>10, AdminSame, StatusKeepsSound
<1>11. CASE RegAdminInterface
  <2>1. UNCHANGED lists \/ NoMemory BY <1>11 DEF RegAdminInterface, lists
  <2> QED BY <2>1, <1>2, NothingUnsound DEF NoMemory
<1>12. CASE RegIFOneWireAssign BY <1>12, AssignedSound
<1>13. CASE SaveNode
  <2>1. UNCHANGED lists \/ NoMemory BY <1>13 DEF SaveNode, lists
  <2> QED BY <2>1, <1>2, NothingUnsound DEF NoMemory
<1>14. CASE RegSystemReboot BY <1>14, NothingUnsound DEF RegSystemReboot, NoMemory
<1>15. CASE PowerLoss BY <1>15, NothingUnsound DEF PowerLoss, NoMemory
<1> QED BY <1>3, <1>4, <1>5, <1>6, <1>7, <1>8, <1>9, <1>10, <1>11, <1>12, <1>13,
           <1>14, <1>15 DEF Next

(* Outside of a save nothing is taken for unfinished; nothing is in memory *)
(* while the power is off.                                                 *)
LEMMA ModesKept ==
    ASSUME TypeOK, Modes, [Next]_vars
    PROVE  Modes'
<1>1. CASE RegConfigLine \/ RegConfigDeleteBID \/ RegConfigDeleteBlockLabel
           \/ RegConfigClear \/ RegAdmin \/ RegIFOneWireAssign \/ RegAdminInterface
  <2>1. Console /\ (mode' = mode \/ (mode' = "off" /\ NoMemory))
    BY <1>1 DEF RegConfigLine, RegConfigDeleteBID, RegConfigDeleteBlockLabel,
       RegConfigClear, RegAdmin, RegIFOneWireAssign, RegAdminInterface
  <2> QED BY <2>1 DEF Modes, Console, NoMemory
<1>2. CASE ~ (RegConfigLine \/ RegConfigDeleteBID \/ RegConfigDeleteBlockLabel
              \/ RegConfigClear \/ RegAdmin \/ RegIFOneWireAssign \/ RegAdminInterface)
  BY <1>2 DEF Next, vars, Modes, PowerOn, InitConfigLoad, LoadLine, BootDone,
     RegConfigSave, SaveNode, SaveDone, RegConfigLoad, ReloadDone, RegSystemReboot,
     PowerLoss, NoMemory
<1> QED BY <1>1, <1>2
-----------------------------------------------------------------------------
(* The lines that a save writes of a node.                                 *)

LinesOf(s) == {s[q] : q \in DOMAIN s}

(* The lines of two sequences.                                             *)
LEMMA LinesJoined ==
    ASSUME NEW s \in Seq(Line), NEW t \in Seq(Line)
    PROVE  s \o t \in Seq(Line) /\ LinesOf(s \o t) = LinesOf(s) \cup LinesOf(t)
<1> DEFINE u == s \o t
<1>1. /\ u \in Seq(Line) /\ Len(u) = Len(s) + Len(t)
      /\ \A q \in 1 .. Len(s) + Len(t) : u[q] = IF q <= Len(s) THEN s[q] ELSE t[q - Len(s)]
  BY ConcatProperties
<1>2. /\ DOMAIN u = 1 .. Len(s) + Len(t) /\ DOMAIN s = 1 .. Len(s) /\ DOMAIN t = 1 .. Len(t)
      /\ Len(s) \in Nat /\ Len(t) \in Nat
  BY <1>1, LenProperties
<1> HIDE DEF u
<1> DEFINE j == Len(s)  k == Len(t)
<1>3. /\ j \in Nat /\ k \in Nat /\ DOMAIN u = 1 .. j + k /\ DOMAIN s = 1 .. j
      /\ DOMAIN t = 1 .. k
      /\ \A q \in 1 .. j + k : u[q] = IF q <= j THEN s[q] ELSE t[q - j]
  BY <1>1, <1>2
<1> HIDE DEF j, k
<1>4. ASSUME NEW q \in DOMAIN u PROVE u[q] \in LinesOf(s) \cup LinesOf(t)
  <2>1. CASE q <= j
    <3>1. q \in DOMAIN s /\ u[q] = s[q] BY <1>3, <2>1
    <3> QED BY <3>1 DEF LinesOf
  <2>2. CASE ~ (q <= j)
    <3>1. q - j \in DOMAIN t /\ u[q] = t[q - j] BY <1>3, <2>2
    <3> QED BY <3>1 DEF LinesOf
  <2> QED BY <2>1, <2>2
<1>5. ASSUME NEW q \in DOMAIN s PROVE s[q] \in LinesOf(u)
  <2>1. q \in DOMAIN u /\ u[q] = s[q] BY <1>3
  <2> QED BY <2>1 DEF LinesOf
<1>6. ASSUME NEW q \in DOMAIN t PROVE t[q] \in LinesOf(u)
  <2>1. q + j \in DOMAIN u /\ u[q + j] = t[q] BY <1>3
  <2> QED BY <2>1 DEF LinesOf
<1>7. LinesOf(u) = LinesOf(s) \cup LinesOf(t) BY <1>4, <1>5, <1>6 DEF LinesOf
<1> QED BY <1>1, <1>7 DEF u

KeyLine(b, k, g) ==
    [cat |-> b.cat, label |-> b.label, key |-> k, val |-> ValueText(b, k, g)]

If(condition, keys) == IF condition THEN keys ELSE {}

(* The settings of a node that are written.                                *)
PutKeys(b) ==
    CASE b.cat = "FF_INTERFACE" ->
           If(b.type \in {"IF_ONEWIRE_BUS", "IF_DS1820B"}, {"bus_pin"})
           \cup If(b.type = "IF_ONEWIRE_BUS", {"device_count"})
           \cup If(b.type = "IF_DS1820B", {"dallas_address"})
      [] b.cat = "FF_SYSTEM" -> {"temp_scale", "language", "week_start", "start_delay"}
      [] b.cat = "FF_INPUT" ->
           {"interface", "log_rate", "poll_rate", "data_units"}
           \cup If(b.type # "IN_ONEWIRE", {"if_num"})
      [] b.cat = "FF_MONITOR" ->
           {"input1", "act_val", "deact_val"}
           \cup If(b.settings["input2"] # UINT16_INIT, {"input2", "input4"})
           \cup If(b.settings["input3"] # UINT16_INIT, {"input3"})
      [] b.cat = "FF_SCHEDULE" ->
           {"days", "time_start"}
           \cup If(b.settings["time_end"] # UINT16_INIT, {"time_end"})
           \cup If(b.settings["time_duration"] # UINT16_INIT, {"time_duration"})
           \cup If(b.settings["time_repeat"] # UINT16_INIT, {"time_repeat"})
      [] b.cat = "FF_RULE" ->
           {"param1"}
           \cup If(b.settings["param2"] # UINT16_INIT, {"param2"})
           \cup If(b.settings["param3"] # UINT16_INIT, {"param3"})
           \cup If(b.settings["param_not"] # UINT16_INIT, {"param_not"})
      [] b.cat = "FF_CONTROLLER" -> {"rule", "output", "act_cmd", "deact_cmd"}
      [] b.cat = "FF_OUTPUT" -> {"interface", "if_num"}

(* One line, always or under a condition.                                  *)
LEMMA PutLine ==
    ASSUME bll \in Seq(Node), ill \in Seq(Node), NEW b \in Node,
           NEW g \in {NoValue, "garbage"}, NEW key \in Key, NEW c
    PROVE  /\ Put(b, key, g) \in Seq(Line) /\ LinesOf(Put(b, key, g)) = {KeyLine(b, key, g)}
           /\ PutIfSet(b, key, g) \in Seq(Line)
           /\ LinesOf(PutIfSet(b, key, g)) =
                IF b.settings[key] # UINT16_INIT THEN {KeyLine(b, key, g)} ELSE {}
           /\ When(c, Put(b, key, g)) \in Seq(Line)
           /\ LinesOf(When(c, Put(b, key, g))) = IF c THEN {KeyLine(b, key, g)} ELSE {}
<1>1. /\ Put(b, key, g) \in Seq(Line) /\ PutIfSet(b, key, g) \in Seq(Line)
      /\ When(c, Put(b, key, g)) \in Seq(Line)
  BY PutTyped
<1>2. \A line : DOMAIN <<line>> = {1} /\ <<line>>[1] = line OBVIOUS
<1>3. \A line : LinesOf(<<line>>) = {line} BY <1>2 DEF LinesOf
<1>4. LinesOf(<<>>) = {}
  <2>1. DOMAIN <<>> = {} OBVIOUS
  <2> QED BY <2>1 DEF LinesOf
<1>5. Put(b, key, g) = <<KeyLine(b, key, g)>> BY DEF Put, Say, KeyLine
<1>6. LinesOf(Put(b, key, g)) = {KeyLine(b, key, g)} BY <1>3, <1>5
<1> QED BY <1>1, <1>4, <1>6 DEF PutIfSet, When

(* All the settings that are written of a node.                            *)
LEMMA PutLines ==
    ASSUME bll \in Seq(Node), ill \in Seq(Node), NEW b \in Node,
           NEW g \in {NoValue, "garbage"}, NEW rest,
           rest = IF b.cat = "FF_INTERFACE" THEN PutInterface(b, g) ELSE PutBlock(b, g)
    PROVE  rest \in Seq(Line) /\ LinesOf(rest) = {KeyLine(b, k, g) : k \in PutKeys(b)}
<1> DEFINE P(key) == Put(b, key, g)
           Q(key) == PutIfSet(b, key, g)
           W(c, key) == When(c, Put(b, key, g))
           Is(key) == b.settings[key] # UINT16_INIT
           K(key) == KeyLine(b, key, g)
           Ks(keys) == {K(key) : key \in keys}
           O(s, keys) == s \in Seq(Line) /\ LinesOf(s) = Ks(keys)
<1>0. \A key \in Key : Ks({key}) = {K(key)} /\ Ks({}) = {} OBVIOUS
<1>1. \A key \in Key : O(P(key), {key}) /\ O(Q(key), If(Is(key), {key}))
  BY <1>0, PutLine DEF If
<1>2. \A key \in Key : \A c : O(W(c, key), If(c, {key})) BY <1>0, PutLine DEF If
<1>3. ASSUME NEW s, NEW t, NEW ks, NEW kt, O(s, ks), O(t, kt)
      PROVE  O(s \o t, ks \cup kt)
  <2>1. s \o t \in Seq(Line) /\ LinesOf(s \o t) = LinesOf(s) \cup LinesOf(t)
    BY <1>3, LinesJoined
  <2>2. Ks(ks \cup kt) = Ks(ks) \cup Ks(kt) OBVIOUS
  <2> HIDE DEF Ks
  <2> QED BY <2>1, <2>2, <1>3
<1>4. O(rest, PutKeys(b)) <=> rest \in Seq(Line) /\ LinesOf(rest) = {KeyLine(b, k, g) : k \in PutKeys(b)}
  OBVIOUS
<1>5. PutInterface(b, g) = W(b.type \in {"IF_ONEWIRE_BUS", "IF_DS1820B"}, "bus_pin")
                           \o W(b.type = "IF_ONEWIRE_BUS", "device_count")
                           \o W(b.type = "IF_DS1820B", "dallas_address")
  BY DEF PutInterface
<1> DEFINE Sys == P("temp_scale") \o P("language") \o P("week_start") \o P("start_delay")
           Inp == P("interface") \o W(b.type # "IN_ONEWIRE", "if_num")
                  \o P("log_rate") \o P("poll_rate") \o P("data_units")
           Mon == P("input1") \o Q("input2") \o Q("input3") \o W(Is("input2"), "input4")
                  \o P("act_val") \o P("deact_val")
           Sch == P("days") \o P("time_start") \o Q("time_end")
                  \o Q("time_duration") \o Q("time_repeat")
           Rul == P("param1") \o Q("param2") \o Q("param3") \o Q("param_not")
           Con == P("rule") \o P("output") \o P("act_cmd") \o P("deact_cmd")
           Out == P("interface") \o P("if_num")
<1>6. PutBlock(b, g) = CASE b.cat = "FF_SYSTEM" -> Sys [] b.cat = "FF_INPUT" -> Inp
                         [] b.cat = "FF_MONITOR" -> Mon [] b.cat = "FF_SCHEDULE" -> Sch
                         [] b.cat = "FF_RULE" -> Rul [] b.cat = "FF_CONTROLLER" -> Con
                         [] b.cat = "FF_OUTPUT" -> Out
  BY DEF PutBlock
<1>7. b.cat \in Category BY DEF Node
<1> HIDE DEF O, P, Q, W, K, Ks
<1> SUFFICES O(rest, PutKeys(b)) BY <1>4
<1>8. CASE b.cat = "FF_INTERFACE"
  <2> DEFINE pin == W(b.type \in {"IF_ONEWIRE_BUS", "IF_DS1820B"}, "bus_pin")
             count == W(b.type = "IF_ONEWIRE_BUS", "device_count")
             address == W(b.type = "IF_DS1820B", "dallas_address")
             pins == If(b.type \in {"IF_ONEWIRE_BUS", "IF_DS1820B"}, {"bus_pin"})
             counts == If(b.type = "IF_ONEWIRE_BUS", {"device_count"})
             addresses == If(b.type = "IF_DS1820B", {"dallas_address"})
  <2>1. O(pin, pins) /\ O(count, counts) /\ O(address, addresses) BY <1>2, KeysKnown
  <2>2. PutKeys(b) = (pins \cup counts) \cup addresses BY <1>8 DEF PutKeys
  <2>3. rest = (pin \o count) \o address BY <1>5, <1>8
  <2> HIDE DEF pin, count, address, pins, counts, addresses
  <2>4. O((pin \o count) \o address, (pins \cup counts) \cup addresses) BY <2>1, <1>3
  <2> QED BY <2>2, <2>3, <2>4, Zenon
<1>9. CASE b.cat = "FF_SYSTEM"
  <2>1. O(Sys, (({"temp_scale"} \cup {"language"}) \cup {"week_start"}) \cup {"start_delay"})
    BY <1>1, <1>3, KeysKnown
  <2>2. PutKeys(b) = (({"temp_scale"} \cup {"language"}) \cup {"week_start"}) \cup {"start_delay"}
    BY <1>9 DEF PutKeys
  <2>3. rest = Sys BY <1>6, <1>9
  <2> QED BY <2>1, <2>2, <2>3, Zenon
<1>10. CASE b.cat = "FF_INPUT"
  <2> DEFINE keys == ((({"interface"} \cup If(b.type # "IN_ONEWIRE", {"if_num"})) \cup {"log_rate"})
                      \cup {"poll_rate"}) \cup {"data_units"}
  <2>1. O(Inp, keys)
    <3>1. O(P("interface") \o W(b.type # "IN_ONEWIRE", "if_num"),
            {"interface"} \cup If(b.type # "IN_ONEWIRE", {"if_num"}))
      BY <1>1, <1>2, <1>3, KeysKnown
    <3> QED BY <3>1, <1>1, <1>3, KeysKnown
  <2>2. PutKeys(b) = keys BY <1>10 DEF PutKeys
  <2>3. rest = Inp BY <1>6, <1>10
  <2> QED BY <2>1, <2>2, <2>3, Zenon
<1>11. CASE b.cat = "FF_MONITOR"
  <2> DEFINE two == If(Is("input2"), {"input2"})
             three == If(Is("input3"), {"input3"})
             four == If(Is("input2"), {"input4"})
             keys == (((({"input1"} \cup two) \cup three) \cup four) \cup {"act_val"}) \cup {"deact_val"}
  <2>1. O(Mon, keys)
    <3>1. O(Q("input2"), two) /\ O(Q("input3"), three) /\ O(W(Is("input2"), "input4"), four)
      BY <1>1, <1>2, KeysKnown
    <3>2. O(P("input1"), {"input1"}) /\ O(P("act_val"), {"act_val"}) /\ O(P("deact_val"), {"deact_val"})
      BY <1>1, KeysKnown
    <3> HIDE DEF two, three, four
    <3>3. O(P("input1") \o Q("input2") \o Q("input3"), ({"input1"} \cup two) \cup three)
      BY <3>1, <3>2, <1>3
    <3>4. O(P("input1") \o Q("input2") \o Q("input3") \o W(Is("input2"), "input4"),
            (({"input1"} \cup two) \cup three) \cup four)
      BY <3>1, <3>3, <1>3
    <3> QED BY <3>4, <3>2, <1>3
  <2>2. PutKeys(b) = keys BY <1>11 DEF PutKeys, If
  <2>3. rest = Mon BY <1>6, <1>11
  <2> QED BY <2>1, <2>2, <2>3, Zenon
<1>12. CASE b.cat = "FF_SCHEDULE"
  <2> DEFINE end == If(Is("time_end"), {"time_end"})
             dur == If(Is("time_duration"), {"time_duration"})
             rep == If(Is("time_repeat"), {"time_repeat"})
             keys == ((({"days"} \cup {"time_start"}) \cup end) \cup dur) \cup rep
  <2>1. O(Sch, keys)
    <3>1. O(Q("time_end"), end) /\ O(Q("time_duration"), dur) /\ O(Q("time_repeat"), rep)
      BY <1>1, KeysKnown
    <3>2. O(P("days"), {"days"}) /\ O(P("time_start"), {"time_start"}) BY <1>1, KeysKnown
    <3> HIDE DEF end, dur, rep
    <3>3. O(P("days") \o P("time_start") \o Q("time_end"), ({"days"} \cup {"time_start"}) \cup end)
      BY <3>1, <3>2, <1>3
    <3> QED BY <3>3, <3>1, <1>3
  <2>2. PutKeys(b) = keys BY <1>12 DEF PutKeys
  <2>3. rest = Sch BY <1>6, <1>12
  <2> QED BY <2>1, <2>2, <2>3, Zenon
<1>13. CASE b.cat = "FF_RULE"
  <2> DEFINE two == If(Is("param2"), {"param2"})
             three == If(Is("param3"), {"param3"})
             no == If(Is("param_not"), {"param_not"})
             keys == (({"param1"} \cup two) \cup three) \cup no
  <2>1. O(Rul, keys)
    <3>1. O(P("param1"), {"param1"}) /\ O(Q("param2"), two) /\ O(Q("param3"), three)
          /\ O(Q("param_not"), no)
      BY <1>1, KeysKnown
    <3> HIDE DEF two, three, no
    <3> QED BY <3>1, <1>3
  <2>2. PutKeys(b) = keys BY <1>13 DEF PutKeys
  <2>3. rest = Rul BY <1>6, <1>13
  <2> QED BY <2>1, <2>2, <2>3, Zenon
<1>14. CASE b.cat = "FF_CONTROLLER"
  <2>1. O(Con, (({"rule"} \cup {"output"}) \cup {"act_cmd"}) \cup {"deact_cmd"})
    BY <1>1, <1>3, KeysKnown
  <2>2. PutKeys(b) = (({"rule"} \cup {"output"}) \cup {"act_cmd"}) \cup {"deact_cmd"}
    BY <1>14 DEF PutKeys
  <2>3. rest = Con BY <1>6, <1>14
  <2> QED BY <2>1, <2>2, <2>3, Zenon
<1>15. CASE b.cat = "FF_OUTPUT"
  <2>1. O(Out, {"interface"} \cup {"if_num"}) BY <1>1, <1>3, KeysKnown
  <2>2. PutKeys(b) = {"interface"} \cup {"if_num"} BY <1>15 DEF PutKeys
  <2>3. rest = Out BY <1>6, <1>15
  <2> QED BY <2>1, <2>2, <2>3, Zenon
<1> QED BY <1>7, <1>8, <1>9, <1>10, <1>11, <1>12, <1>13, <1>14, <1>15, CategoriesKnown

(* The lines of a node.                                                    *)
TypeText(b, g) == IF b.type = NoType THEN g ELSE b.type
TypeLineOf(b, g) ==
    [cat |-> b.cat, label |-> b.label, key |-> "type", val |-> TypeText(b, g)]
DisableLine(b) ==
    [cat |-> b.cat, label |-> b.label, key |-> "disable", val |-> "True"]

(* The first pass writes the line that registers a node, the second that   *)
(* line and those of its settings (WriteBlock, WriteInterface).            *)
LEMMA NodeWrites ==
    ASSUME bll \in Seq(Node), ill \in Seq(Node), NEW b \in Node,
           NEW g \in {NoValue, "garbage"}
    PROVE  /\ WriteNode(b, TRUE, g) = <<TypeLineOf(b, g)>>
           /\ TypeLineOf(b, g) \in LinesOf(WriteNode(b, FALSE, g))
           /\ LinesOf(WriteNode(b, FALSE, g)) \subseteq
                {TypeLineOf(b, g), DisableLine(b)} \cup {KeyLine(b, k, g) : k \in PutKeys(b)}
           /\ {KeyLine(b, k, g) : k \in PutKeys(b)} \subseteq LinesOf(WriteNode(b, FALSE, g))
<1> DEFINE first == Say(b, "type", IF b.type = NoType THEN g ELSE b.type)
           disabled == When(b.status = "DISABLED_ADMIN", Say(b, "disable", "True"))
           rest == IF b.cat = "FF_INTERFACE" THEN PutInterface(b, g) ELSE PutBlock(b, g)
           D == {DisableLine(b)}
           K == {KeyLine(b, k, g) : k \in PutKeys(b)}
<1>1. first = <<TypeLineOf(b, g)>> BY DEF Say, TypeLineOf, TypeText
<1>2. \A line : DOMAIN <<line>> = {1} /\ <<line>>[1] = line OBVIOUS
<1>3. LinesOf(<<>>) = {} /\ \A line : LinesOf(<<line>>) = {line}
  <2>1. DOMAIN <<>> = {} OBVIOUS
  <2> QED BY <1>2, <2>1 DEF LinesOf
<1>4. first \in Seq(Line)
  <2>1. b.type \in Text /\ g \in Text BY DEF Text, Node
  <2> QED BY <2>1, SaidTyped
<1>5. disabled \in Seq(Line)
  <2>1. "True" \in Text BY DEF Text
  <2> QED BY <2>1, SaidTyped, LinesClosed
<1>6. LinesOf(disabled) \subseteq D
  <2>1. Say(b, "disable", "True") = <<DisableLine(b)>> BY DEF Say, DisableLine
  <2> QED BY <2>1, <1>3 DEF When
<1>7. rest \in Seq(Line) /\ LinesOf(rest) = K BY PutLines
<1>8. /\ WriteNode(b, TRUE, g) = first \o <<>>
      /\ WriteNode(b, FALSE, g) = first \o (disabled \o rest)
  BY DEF WriteNode, When
<1> HIDE DEF first, disabled, rest, D, K
<1>9. first \o <<>> = first BY <1>1
<1>10. LinesOf(first) = {TypeLineOf(b, g)} BY <1>1, <1>3
<1>11. disabled \o rest \in Seq(Line) /\ LinesOf(disabled \o rest) = LinesOf(disabled) \cup K
  BY <1>5, <1>7, LinesJoined
<1>12. LinesOf(first \o (disabled \o rest)) = {TypeLineOf(b, g)} \cup (LinesOf(disabled) \cup K)
  BY <1>4, <1>10, <1>11, LinesJoined
<1> QED BY <1>1, <1>6, <1>8, <1>9, <1>12 DEF D, K

(* The settings written are settings of the node's category and type.      *)
LEMMA PutKeysAreKeys ==
    ASSUME NEW b \in Node
    PROVE  /\ PutKeys(b) \subseteq KeysOf[b.cat] /\ PutKeys(b) \subseteq Key
           /\ b.cat = "FF_INTERFACE" => PutKeys(b) = IFKeys(b.type)
<1>1. b.cat \in Category BY DEF Node
<1>2. b.cat = "FF_INTERFACE" => PutKeys(b) = IFKeys(b.type) BY DEF PutKeys, IFKeys, If
<1>3. CASE b.cat \in {"FF_INTERFACE", "FF_SYSTEM", "FF_INPUT"}
  <2>1. PutKeys(b) \subseteq KeysOf[b.cat] BY <1>3 DEF PutKeys, KeysOf, If
  <2> QED BY <2>1, <1>1, <1>2, NoSettings
<1>4. CASE b.cat \in {"FF_MONITOR", "FF_SCHEDULE"}
  <2>1. PutKeys(b) \subseteq KeysOf[b.cat] BY <1>4 DEF PutKeys, KeysOf, If
  <2> QED BY <2>1, <1>1, <1>2, NoSettings
<1>5. CASE b.cat \in {"FF_RULE", "FF_CONTROLLER", "FF_OUTPUT"}
  <2>1. PutKeys(b) \subseteq KeysOf[b.cat] BY <1>5 DEF PutKeys, KeysOf, If
  <2> QED BY <2>1, <1>1, <1>2, NoSettings
<1> QED BY <1>1, <1>3, <1>4, <1>5, CategoriesKnown
-----------------------------------------------------------------------------
(* A file never gives an interface another type than the operator does.    *)

SavedLine(line) ==
    line.cat = "FF_INTERFACE" /\ line.key = "type"
      => line.val \in GivenTypes(line.label) \cup {"BT_ERROR"}

FileInv ==
    /\ FileSound
    /\ mode = "save" => \A line \in LinesOf(file) : SavedLine(line)

(* No type that can be written is a type of interface when cut short.      *)
LEMMA CutLineSound ==
    ASSUME NEW line \in Line, SavedLine(line), NEW val \in Text,
           <<line.val, val>> \in Shorter
    PROVE  SoundLine([line EXCEPT !.val = val])
<1> DEFINE cut == [line EXCEPT !.val = val]
<1>1. cut.cat = line.cat /\ cut.key = line.key /\ cut.label = line.label /\ cut.val = val
  BY DEF Line
<1> HIDE DEF cut
<1>2. CASE line.cat = "FF_INTERFACE" /\ line.key = "type"
  <2>1. line.val \in GivenTypes(line.label) \cup {"BT_ERROR"} BY <1>2 DEF SavedLine
  <2>2. line.val \in BlockType BY <2>1, CategoriesKnown DEF GivenTypes, BlockType
  <2>3. <<line.val, val>>[1] = line.val /\ <<line.val, val>>[2] = val OBVIOUS
  <2>4. val \notin TypesOf.FF_INTERFACE BY <2>2, <2>3, ShorterAssumption
  <2> QED BY <1>1, <2>4 DEF SoundLine, cut
<1>3. CASE ~ (line.cat = "FF_INTERFACE" /\ line.key = "type")
  BY <1>1, <1>3 DEF SoundLine, cut
<1> QED BY <1>2, <1>3

(* A line that is saved is sound.                                          *)
LEMMA SavedIsSound ==
    ASSUME NEW line, SavedLine(line)
    PROVE  SoundLine(line)
<1>1. "BT_ERROR" \notin TypesOf.FF_INTERFACE BY DEF TypesOf
<1> QED BY <1>1 DEF SoundLine, SavedLine

(* What remains of saved lines.                                            *)
LEMMA RemainsSound ==
    ASSUME NEW lines \in Seq(Line), \A line \in LinesOf(lines) : SavedLine(line),
           NEW r \in Remains(lines), NEW q \in DOMAIN r
    PROVE  SoundLine(r[q])
<1>1. Len(lines) \in Nat /\ DOMAIN lines = 1 .. Len(lines) BY LenProperties
<1>2. \A n \in 1 .. Len(lines) : lines[n] \in Line /\ SavedLine(lines[n])
  BY <1>1, ElementOfSeq DEF LinesOf
<1>3. ASSUME NEW n \in 0 .. Len(lines)
      PROVE  LET s == SubSeq(lines, 1, n)
             IN s \in Seq(Line) /\ Len(s) = n /\ \A i \in 1 .. n : s[i] = lines[i]
  <2>1. \A i \in 1 .. n : lines[i] \in Line BY <1>1, <1>2
  <2>2. n \in Int /\ 1 \in Int BY <1>1
  <2> DEFINE s == SubSeq(lines, 1, n)
  <2>3. /\ s \in Seq(Line) /\ Len(s) = IF 1 <= n THEN (n - 1) + 1 ELSE 0
        /\ \A i \in 1 .. (n - 1) + 1 : s[i] = lines[(1 + i) - 1]
    BY <2>1, <2>2, SubSeqProperties
  <2> HIDE DEF s
  <2>4. Len(s) = n BY <1>1, <2>3
  <2>5. \A i \in 1 .. n : i \in 1 .. (n - 1) + 1 /\ (1 + i) - 1 = i BY <1>1
  <2> QED BY <2>3, <2>4, <2>5 DEF s
<1>4. \/ \E n \in 0 .. Len(lines) : r = SubSeq(lines, 1, n)
      \/ \E p \in (DOMAIN lines) \X Text :
           /\ <<lines[p[1]].val, p[2]>> \in Shorter
           /\ r = Append(SubSeq(lines, 1, p[1] - 1), [lines[p[1]] EXCEPT !.val = p[2]])
  BY DEF Remains
<1>5. CASE \E n \in 0 .. Len(lines) : r = SubSeq(lines, 1, n)
  <2>1. PICK n \in 0 .. Len(lines) : r = SubSeq(lines, 1, n) BY <1>5
  <2>2. r \in Seq(Line) /\ Len(r) = n /\ \A i \in 1 .. n : r[i] = lines[i] BY <2>1, <1>3
  <2>3. q \in 1 .. n BY <2>2, LenProperties
  <2>4. q \in 1 .. Len(lines) BY <2>3, <1>1
  <2> QED BY <2>2, <2>3, <2>4, <1>2, SavedIsSound
<1>6. CASE \E p \in (DOMAIN lines) \X Text :
             /\ <<lines[p[1]].val, p[2]>> \in Shorter
             /\ r = Append(SubSeq(lines, 1, p[1] - 1), [lines[p[1]] EXCEPT !.val = p[2]])
  <2>1. PICK p \in (DOMAIN lines) \X Text :
          /\ <<lines[p[1]].val, p[2]>> \in Shorter
          /\ r = Append(SubSeq(lines, 1, p[1] - 1), [lines[p[1]] EXCEPT !.val = p[2]])
    BY <1>6
  <2> DEFINE n == p[1] - 1  s == SubSeq(lines, 1, n)  val == p[2]
             cut == [lines[p[1]] EXCEPT !.val = val]
  <2>2. p[1] \in 1 .. Len(lines) /\ val \in Text BY <1>1
  <2>3. lines[p[1]] \in Line /\ SavedLine(lines[p[1]]) BY <2>2, <1>2
  <2>4. cut \in Line BY <2>2, <2>3 DEF Line
  <2>5. SoundLine(cut) BY <2>1, <2>2, <2>3, CutLineSound
  <2>6. n \in 0 .. Len(lines) BY <2>2, <1>1
  <2>7. s \in Seq(Line) /\ Len(s) = n /\ \A i \in 1 .. n : s[i] = lines[i] BY <2>6, <1>3
  <2>8. r = Append(s, cut) BY <2>1
  <2> HIDE DEF s, cut, n
  <2>9. /\ Len(r) = n + 1 /\ r[n + 1] = cut /\ \A i \in 1 .. n : r[i] = s[i]
        /\ r \in Seq(Line)
    BY <2>4, <2>7, <2>8, AppendProperties
  <2>10. q \in 1 .. n + 1 BY <2>9, LenProperties
  <2>11. CASE q = n + 1 BY <2>5, <2>9, <2>11
  <2>12. CASE q # n + 1
    <3>1. q \in 1 .. n /\ q \in 1 .. Len(lines) BY <2>6, <2>10, <2>12, <1>1
    <3>2. r[q] = lines[q] BY <3>1, <2>7, <2>9
    <3> QED BY <3>1, <3>2, <1>2, SavedIsSound
  <2> QED BY <2>11, <2>12
<1> QED BY <1>4, <1>5, <1>6

(* A sound node is written soundly.                                        *)
LEMMA WriteSound ==
    ASSUME bll \in Seq(Node), ill \in Seq(Node), NEW b \in Node,
           NEW g \in {NoValue, "garbage"}, NEW reg \in BOOLEAN,
           SoundBlock(b) \/ SoundInterface(b),
           NEW line \in LinesOf(WriteNode(b, reg, g))
    PROVE  SavedLine(line)
<1>1. line \in {TypeLineOf(b, g), DisableLine(b)} \cup {KeyLine(b, k, g) : k \in PutKeys(b)}
  <2>1. \A l : LinesOf(<<l>>) = {l}
    <3>1. \A l : DOMAIN <<l>> = {1} /\ <<l>>[1] = l OBVIOUS
    <3> QED BY <3>1 DEF LinesOf
  <2>2. CASE reg = TRUE
    <3>1. WriteNode(b, TRUE, g) = <<TypeLineOf(b, g)>> BY NodeWrites
    <3>2. LinesOf(WriteNode(b, reg, g)) = {TypeLineOf(b, g)} BY <2>1, <2>2, <3>1
    <3> QED BY <3>2
  <2>3. CASE reg = FALSE
    <3>1. LinesOf(WriteNode(b, FALSE, g)) \subseteq
            {TypeLineOf(b, g), DisableLine(b)} \cup {KeyLine(b, k, g) : k \in PutKeys(b)}
      BY NodeWrites
    <3> QED BY <3>1, <2>3
  <2> QED BY <2>2, <2>3
<1>2. CASE line = TypeLineOf(b, g)
  <2>1. line.cat = b.cat /\ line.label = b.label /\ line.val = TypeText(b, g)
    BY <1>2 DEF TypeLineOf
  <2>2. CASE SoundBlock(b) BY <2>1, <2>2 DEF SoundBlock, SavedLine
  <2>3. CASE SoundInterface(b)
    <3>1. NoType \notin GivenTypes(b.label) \cup {"BT_ERROR"}
      BY DEF GivenTypes, TypesOf, NoType
    <3>2. TypeText(b, g) = b.type BY <2>3, <3>1 DEF SoundInterface, TypeText
    <3> QED BY <2>1, <2>3, <3>2 DEF SoundInterface, SavedLine
  <2> QED BY <2>2, <2>3
<1>3. CASE line = DisableLine(b) BY <1>3 DEF DisableLine, SavedLine
<1>4. CASE line \in {KeyLine(b, k, g) : k \in PutKeys(b)}
  <2>1. PICK k \in PutKeys(b) : line = KeyLine(b, k, g) BY <1>4
  <2>2. k # "type" BY PutKeysAreKeys, NoSettings
  <2> QED BY <2>1, <2>2 DEF KeyLine, SavedLine
<1> QED BY <1>1, <1>2, <1>3, <1>4

(* The node that a save writes next is on one of the lists.                *)
LEMMA NextIs ==
    ASSUME TypeOK, SaveNode
    PROVE  LET l == Len(ill) + Len(bll)
               i == IF pos < l THEN pos + 1 ELSE (pos - l) + 1
           IN /\ Len(Nodes) = l /\ l \in Nat /\ i \in 1 .. l
              /\ pos < 2 * l
              /\ NextNode = IF i <= Len(ill) THEN ill[i] ELSE bll[i - Len(ill)]
              /\ i <= Len(ill) => i \in DOMAIN ill
              /\ i > Len(ill) => i - Len(ill) \in DOMAIN bll
<1> DEFINE all == ill \o bll  n == Len(ill)  m == Len(bll)
           i == IF pos < n + m THEN pos + 1 ELSE (pos - (n + m)) + 1
<1>1. bll \in Seq(Node) /\ ill \in Seq(Node) /\ pos \in Nat BY DEF TypeOK
<1>2. /\ Len(all) = n + m
      /\ \A j \in 1 .. n + m : all[j] = IF j <= n THEN ill[j] ELSE bll[j - n]
  BY <1>1, ConcatProperties
<1>3. /\ n \in Nat /\ m \in Nat /\ DOMAIN ill = 1 .. n /\ DOMAIN bll = 1 .. m
  BY <1>1, LenProperties
<1>4. Nodes = all BY DEF Nodes
<1>5. pos < 2 * Len(all) BY <1>4 DEF SaveNode
<1>6. NextNode = all[IF pos < Len(all) THEN pos + 1 ELSE pos - Len(all) + 1]
  BY <1>4 DEF NextNode
<1> HIDE DEF all, n, m
<1>7. i \in 1 .. n + m BY <1>1, <1>2, <1>3, <1>5
<1>8. NextNode = all[i] BY <1>2, <1>6
<1> HIDE DEF i
<1>9. NextNode = IF i <= n THEN ill[i] ELSE bll[i - n] BY <1>2, <1>7, <1>8
<1>10. i <= n => i \in DOMAIN ill BY <1>3, <1>7
<1>11. i > n => i - n \in DOMAIN bll BY <1>3, <1>7
<1> QED BY <1>2, <1>3, <1>4, <1>5, <1>7, <1>9, <1>10, <1>11 DEF i, n, m

(* So the file is one that a boot can take.                                *)
LEMMA FileInvKept ==
    ASSUME TypeOK, Registry, FileInv, [Next]_vars
    PROVE  FileInv'
<1>1. bll \in Seq(Node) /\ ill \in Seq(Node) /\ file \in Seq(Line) BY DEF TypeOK
<1>2. CASE UNCHANGED file /\ mode' # "save"
  <2>1. file' = file /\ mode' # "save" BY <1>2
  <2> QED BY <2>1 DEF FileInv, FileSound
<1>3. CASE UNCHANGED <<file, mode>>
  <2>1. file' = file /\ mode' = mode BY <1>3
  <2> QED BY <2>1 DEF FileInv, FileSound
<1>4. CASE PowerOn \/ LoadLine \/ BootDone \/ SaveDone \/ RegConfigLoad \/ ReloadDone
           \/ RegSystemReboot \/ UNCHANGED vars
  <2>1. UNCHANGED file /\ (mode' # "save" \/ mode' = mode)
    BY <1>4 DEF PowerOn, InitConfigLoad, LoadLine, BootDone, SaveDone, RegConfigLoad,
       ReloadDone, RegSystemReboot, vars
  <2> QED BY <2>1, <1>2, <1>3
<1>5. CASE RegConfigLine \/ RegConfigDeleteBID \/ RegConfigDeleteBlockLabel
           \/ RegConfigClear \/ RegAdmin \/ RegIFOneWireAssign \/ RegAdminInterface
  <2>1. UNCHANGED file /\ (mode' # "save" \/ mode' = mode)
    BY <1>5 DEF RegConfigLine, RegConfigDeleteBID, RegConfigDeleteBlockLabel, Console,
       RegConfigClear, RegAdmin, RegIFOneWireAssign, RegAdminInterface
  <2> QED BY <2>1, <1>2, <1>3
<1>6. CASE RegConfigSave
  <2>1. file' = <<>> BY <1>6 DEF RegConfigSave
  <2>2. DOMAIN <<>> = {} OBVIOUS
  <2>3. LinesOf(<<>>) = {} BY <2>2 DEF LinesOf
  <2> QED BY <2>1, <2>2, <2>3 DEF FileInv, FileSound
<1>7. CASE SaveNode
  <2>1. PICK g \in {NoValue, "garbage"} :
          LET out == file \o Written(g)
          IN \/ file' = out /\ mode' = mode
             \/ file' \in Remains(out) /\ mode' = "off"
    BY <1>7 DEF SaveNode
  <2> DEFINE reg == pos < Len(Nodes)
             w == WriteNode(NextNode, reg, g)
             out == file \o w
  <2>2. NextNode \in Node BY <1>7, NextNodeThere
  <2>3. SoundBlock(NextNode) \/ SoundInterface(NextNode)
    <3> DEFINE l == Len(ill) + Len(bll)
               i == IF pos < l THEN pos + 1 ELSE (pos - l) + 1
    <3>1. /\ NextNode = IF i <= Len(ill) THEN ill[i] ELSE bll[i - Len(ill)]
          /\ i <= Len(ill) => i \in DOMAIN ill
          /\ i > Len(ill) => i - Len(ill) \in DOMAIN bll
          /\ i \in 1 .. l /\ l \in Nat
      BY <1>7, NextIs
    <3> HIDE DEF i, l
    <3>2. Len(ill) \in Nat BY <1>1, LenProperties
    <3>3. i <= Len(ill) \/ i > Len(ill) BY <3>1, <3>2
    <3>4. CASE i <= Len(ill) BY <3>1, <3>4 DEF Registry
    <3>5. CASE i > Len(ill)
      <4>1. ~ (i <= Len(ill)) BY <3>1, <3>2, <3>5
      <4> QED BY <3>1, <3>5, <4>1 DEF Registry
    <3> QED BY <3>3, <3>4, <3>5
  <2>4. reg \in BOOLEAN OBVIOUS
  <2>5. Written(g) = w BY DEF Written
  <2> HIDE DEF reg
  <2>6. w \in Seq(Line) BY <1>1, <2>2, NodeLines
  <2>7. \A line \in LinesOf(w) : SavedLine(line) BY <1>1, <2>2, <2>3, <2>4, WriteSound
  <2>8. \A line \in LinesOf(file) : SavedLine(line) BY <1>7 DEF FileInv, SaveNode
  <2> HIDE DEF w
  <2>9. out \in Seq(Line) /\ LinesOf(out) = LinesOf(file) \cup LinesOf(w)
    BY <1>1, <2>6, LinesJoined
  <2>10. \/ file' = out /\ mode' = mode
         \/ file' \in Remains(out) /\ mode' = "off"
    BY <2>1, <2>5
  <2> HIDE DEF out
  <2>11. \A line \in LinesOf(out) : SavedLine(line) BY <2>7, <2>8, <2>9
  <2>12. CASE file' = out /\ mode' = mode
    <3>1. \A q \in DOMAIN out : SoundLine(out[q]) BY <2>11, SavedIsSound DEF LinesOf
    <3> QED BY <3>1, <2>11, <2>12 DEF FileInv, FileSound
  <2>13. CASE file' \in Remains(out) /\ mode' = "off"
    BY <2>9, <2>11, <2>13, RemainsSound DEF FileInv, FileSound
  <2> QED BY <2>10, <2>12, <2>13
<1>8. CASE PowerLoss
  <2>1. CASE mode = "save"
    <3>1. file' \in Remains(file) /\ mode' = "off" BY <1>8, <2>1 DEF PowerLoss
    <3>2. \A line \in LinesOf(file) : SavedLine(line) BY <2>1 DEF FileInv
    <3> QED BY <1>1, <3>1, <3>2, RemainsSound DEF FileInv, FileSound
  <2>2. CASE mode # "save"
    <3>1. file' = file /\ mode' = "off" BY <1>8, <2>2 DEF PowerLoss
    <3> QED BY <3>1 DEF FileInv, FileSound
  <2> QED BY <2>1, <2>2
<1> QED BY <1>4, <1>5, <1>6, <1>7, <1>8 DEF Next

(* A file that is there from the start is the operator's.                  *)
LEMMA FileInvFirst == Init => FileInv
<1> SUFFICES ASSUME Init PROVE FileInv OBVIOUS
<1>1. file \in Files /\ mode = "off" BY DEF Init
<1>2. \A q \in DOMAIN file : file[q] \in Given BY <1>1 DEF Given
<1> QED BY <1>1, <1>2, ConsoleSound DEF FileInv, FileSound
-----------------------------------------------------------------------------
(* Faces and nodes are counted through both lists, the interfaces first.   *)

nodes == <<ill, bll>>
At(pair, i) == IF i <= Len(pair[1]) THEN pair[1][i] ELSE pair[2][i - Len(pair[1])]
Size(pair) == Len(pair[1]) + Len(pair[2])
Least(a, b) == IF a <= b THEN a ELSE b

(* The line that registers a face, and the lines that may follow it.       *)
TypeLine(f) == [cat |-> f.cat, label |-> f.label, key |-> "type", val |-> f.type]

Fits(f, line) ==
    /\ line.cat = f.cat /\ line.label = f.label
    /\ \/ line.key = "type" /\ line.val = f.type
       \/ line.key = "disable"
       \/ /\ line.key \in KeysOf[f.cat]
          /\ f.cat = "FF_INTERFACE" => line.key \in IFKeys(f.type)
          /\ line.val = f.settings[line.key]
          /\ line.val = "unset" =>
               line.key \notin RefKeys(f.cat, f.type) \cup {"language", "days"}

(* The settings of a new node, and what they show.                         *)
Fresh(cat) == IF cat = "FF_INTERFACE" THEN NewIFSettings ELSE NewBlockSettings
FreshText(cat, k) == IF Fresh(cat)[k] = SET THEN "set" ELSE "unset"

(* The first p lines set k of f; they register the first p faces; each of  *)
(* the first p faces is set where it differs from a new node; every line   *)
(* is one of a face's.                                                     *)
Told(f, k, lines, p) ==
    \E q \in 1 .. p : /\ lines[q].label = f.label /\ lines[q].key = k
                      /\ lines[q].val # NoValue
Registered(v, lines, p) ==
    Len(lines) >= p /\ \A i \in 1 .. p : lines[i] = TypeLine(At(v, i))
Complete(v, lines, p) ==
    \A i \in 1 .. p : \A k \in KeysOf[At(v, i).cat] :
      \/ Told(At(v, i), k, lines, Len(lines))
      \/ At(v, i).settings[k] = FreshText(At(v, i).cat, k)
AllFit(v, lines) ==
    \A q \in DOMAIN lines :
      lines[q].val = NoValue \/ \E i \in 1 .. Size(v) : Fits(At(v, i), lines[q])

(* A label that a load finds, and takes for the node that bears it: of the *)
(* system blocks, which share an id, for the first.                        *)
Named(v, label) ==
    \/ \E j \in DOMAIN v[1] : v[1][j].label = label
    \/ \E j \in DOMAIN v[2] :
         /\ v[2][j].label = label
         /\ v[2][j].cat = "FF_SYSTEM" =>
              \A m \in DOMAIN v[2] : m < j => v[2][m].cat # "FF_SYSTEM"

(* The configurations that are saved and brought back.                     *)
Keepable(v) ==
    /\ v \in Seq(FaceType) \X Seq(FaceType)
    /\ Storable(v)
    /\ \A i, j \in 1 .. Size(v) : At(v, i).label = At(v, j).label => i = j
    /\ \A i \in 1 .. Size(v) :
         LET f == At(v, i)
         IN /\ DOMAIN f.settings = KeysOf[f.cat]
            /\ f.cat = "FF_INTERFACE" <=> i <= Len(v[1])
            /\ \A k \in KeysOf[f.cat] :
                 IF k \in RefKeys(f.cat, f.type)
                 THEN f.settings[k] # "unset" => Named(v, f.settings[k])
                 ELSE f.settings[k] \in {"set", "unset"}

(* How far a save has come.                                                *)
Saves(v, lines, p) ==
    /\ p <= Size(v) => Len(lines) = p
    /\ Registered(v, lines, Least(p, Size(v)))
    /\ Complete(v, lines, p - Size(v))
    /\ AllFit(v, lines)
SaveInv == mode = "save" /\ Storable(View) => Saves(View, file, pos)

(* What the file holds from then on.                                       *)
Stores(v, lines) ==
    /\ Keepable(v)
    /\ Registered(v, lines, Size(v))
    /\ Complete(v, lines, Size(v))
    /\ AllFit(v, lines)
StoredInv == mode # "save" /\ saved # Torn => Stores(saved, file)

(* How far a boot has come, when p lines have been read.                   *)
Loads(blocks, interfaces, lines, p, b, f) ==
    /\ b.label = f.label /\ b.cat = f.cat /\ b.type = f.type
    /\ \A k \in KeysOf[f.cat] :
         IF Told(f, k, lines, p) THEN Shown(blocks, interfaces, b, k) = f.settings[k]
                                 ELSE b.settings[k] = Fresh(f.cat)[k]

Loaded(v) ==
    LET n == Least(pos, Size(v))
    IN /\ Size(nodes) = n /\ Len(ill) = Least(n, Len(v[1]))
       /\ \A i \in 1 .. n : Loads(bll, ill, file, pos, At(nodes, i), At(v, i))

LoadInv == mode = "load" /\ saved # Torn => Loaded(saved)
-----------------------------------------------------------------------------
(* Faces, and where they are.                                              *)

(* The place i of a pair of sequences is a place of one of them.           *)
LEMMA AtIs ==
    ASSUME NEW S, NEW a \in Seq(S), NEW b \in Seq(S),
           NEW pair, pair[1] = a, pair[2] = b
    PROVE  /\ Size(pair) = Len(a) + Len(b) /\ Size(pair) \in Nat
           /\ Len(a) \in Nat /\ DOMAIN a = 1 .. Len(a)
           /\ Len(b) \in Nat /\ DOMAIN b = 1 .. Len(b)
           /\ \A i \in 1 .. Size(pair) :
                /\ At(pair, i) \in S
                /\ i <= Len(a) => i \in DOMAIN a /\ At(pair, i) = a[i]
                /\ ~ (i <= Len(a)) => i - Len(a) \in DOMAIN b /\ At(pair, i) = b[i - Len(a)]
           /\ \A n \in DOMAIN a : n \in 1 .. Size(pair) /\ n <= Len(a) /\ At(pair, n) = a[n]
           /\ \A n \in DOMAIN b : /\ n + Len(a) \in 1 .. Size(pair)
                                 /\ ~ (n + Len(a) <= Len(a))
                                 /\ At(pair, n + Len(a)) = b[n]
<1> DEFINE l == Len(a)  m == Len(b)
<1>1. /\ l \in Nat /\ DOMAIN a = 1 .. l /\ m \in Nat /\ DOMAIN b = 1 .. m
  BY LenProperties
<1>2. Size(pair) = l + m BY DEF Size
<1>3. \A i : At(pair, i) = IF i <= l THEN a[i] ELSE b[i - l] BY DEF At
<1>4. \A n \in 1 .. l : a[n] \in S BY ElementOfSeq
<1>5. \A n \in 1 .. m : b[n] \in S BY ElementOfSeq
<1> HIDE DEF l, m
<1>6. ASSUME NEW i \in 1 .. l + m
      PROVE  /\ At(pair, i) \in S
             /\ i <= l => i \in DOMAIN a /\ At(pair, i) = a[i]
             /\ ~ (i <= l) => i - l \in DOMAIN b /\ At(pair, i) = b[i - l]
  BY <1>1, <1>3, <1>4, <1>5
<1>7. \A n \in DOMAIN a : n \in 1 .. l + m /\ n <= l /\ At(pair, n) = a[n] BY <1>1, <1>3
<1>8. ASSUME NEW n \in DOMAIN b
      PROVE  n + l \in 1 .. l + m /\ ~ (n + l <= l) /\ At(pair, n + l) = b[n]
  <2>1. (n + l) - l = n /\ ~ (n + l <= l) /\ n + l \in 1 .. l + m BY <1>1
  <2> QED BY <2>1, <1>3
<1>9. l + m \in Nat BY <1>1
<1>10. \A i \in 1 .. Size(pair) :
         /\ At(pair, i) \in S
         /\ i <= l => i \in DOMAIN a /\ At(pair, i) = a[i]
         /\ ~ (i <= l) => i - l \in DOMAIN b /\ At(pair, i) = b[i - l]
  BY <1>2, <1>6
<1>11. \A n \in DOMAIN a : n \in 1 .. Size(pair) /\ n <= l /\ At(pair, n) = a[n]
  BY <1>2, <1>7
<1>12. \A n \in DOMAIN b :
         n + l \in 1 .. Size(pair) /\ ~ (n + l <= l) /\ At(pair, n + l) = b[n]
  BY <1>2, <1>8
<1> QED BY <1>1, <1>2, <1>9, <1>10, <1>11, <1>12, Zenon DEF l, m

(* The place i of a pair is a place of its first sequence or its second.   *)
Side(v, i) ==
    /\ i <= Len(v[1]) => i \in DOMAIN v[1] /\ At(v, i) = v[1][i]
    /\ ~ (i <= Len(v[1])) => i - Len(v[1]) \in DOMAIN v[2] /\ At(v, i) = v[2][i - Len(v[1])]

(* ... as is every place of a pair of sequences of faces.                  *)
LEMMA Sides ==
    ASSUME NEW v \in Seq(FaceType) \X Seq(FaceType), NEW i \in 1 .. Size(v)
    PROVE  Side(v, i)
<1> DEFINE x == v[1]  y == v[2]  l == Len(x)  m == Len(y)
<1>1. x \in Seq(FaceType) /\ y \in Seq(FaceType) OBVIOUS
<1>2. v[1] = x /\ v[2] = y OBVIOUS
<1> HIDE DEF x, y
<1>3. /\ l \in Nat /\ DOMAIN x = 1 .. l /\ m \in Nat /\ DOMAIN y = 1 .. m
  BY <1>1, LenProperties
<1>4. Size(v) = l + m BY <1>2 DEF Size
<1>5. At(v, i) = IF i <= l THEN x[i] ELSE y[i - l] BY <1>2 DEF At
<1> HIDE DEF l, m
<1>6. /\ i <= l => i \in DOMAIN x /\ At(v, i) = x[i]
      /\ ~ (i <= l) => i - l \in DOMAIN y /\ At(v, i) = y[i - l]
  BY <1>3, <1>4, <1>5
<1> QED BY <1>2, <1>6 DEF Side, l

(* How many they are.                                                      *)
LEMMA Sizes ==
    ASSUME NEW v \in Seq(FaceType) \X Seq(FaceType)
    PROVE  /\ Len(v[1]) \in Nat /\ Len(v[2]) \in Nat
           /\ Size(v) = Len(v[1]) + Len(v[2]) /\ Size(v) \in Nat
<1> DEFINE x == v[1]  y == v[2]
<1>1. x \in Seq(FaceType) /\ y \in Seq(FaceType) OBVIOUS
<1>2. Size(v) = Len(x) + Len(y) BY DEF Size
<1> HIDE DEF x, y
<1>3. Len(x) \in Nat /\ Len(y) \in Nat BY <1>1, LenProperties
<1>4. Len(x) + Len(y) \in Nat BY <1>3
<1> QED BY <1>2, <1>3, <1>4 DEF x, y

(* The face of a node.                                                     *)
LEMMA FaceTyped ==
    ASSUME NEW blocks \in Seq(Node), NEW interfaces \in Seq(Node), NEW b \in Node,
           NEW f, f = FaceIn(blocks, interfaces, b)
    PROVE  /\ f \in FaceType
           /\ f.label = b.label /\ f.cat = b.cat /\ f.type = b.type
           /\ DOMAIN f.settings = KeysOf[b.cat]
           /\ \A k \in KeysOf[b.cat] : f.settings[k] = Shown(blocks, interfaces, b, k)
<1>1. /\ f.label = b.label /\ f.cat = b.cat /\ f.type = b.type
      /\ f.settings = [k \in KeysOf[b.cat] |-> Shown(blocks, interfaces, b, k)]
  BY DEF FaceIn
<1>2. b.label \in Label /\ b.cat \in Category /\ b.type \in BlockType BY DEF Node
<1>3. \A k : Shown(blocks, interfaces, b, k) \in FaceText
  <2>1. \A id : GetBlockLabelString(blocks, interfaces, id) \in Label \cup {NoValue}
    BY LabelText
  <2> QED BY <2>1, Zenon DEF Shown, FaceText
<1>4. f.settings \in UNION {[KeysOf[c] -> FaceText] : c \in Category}
  <2>1. f.settings \in [KeysOf[b.cat] -> FaceText] BY <1>1, <1>3
  <2> QED BY <1>2, <2>1
<1>5. f = [label |-> b.label, cat |-> b.cat, type |-> b.type, settings |-> f.settings]
  BY <1>1 DEF FaceIn
<1>6. f \in FaceType BY <1>2, <1>4, <1>5 DEF FaceType
<1> QED BY <1>1, <1>6

(* The faces of a list.                                                    *)
LEMMA FacesTyped ==
    ASSUME NEW blocks \in Seq(Node), NEW interfaces \in Seq(Node), NEW list \in Seq(Node)
    PROVE  /\ FacesOf(blocks, interfaces, list) \in Seq(FaceType)
           /\ Len(FacesOf(blocks, interfaces, list)) = Len(list)
           /\ \A n \in 1 .. Len(list) : FacesOf(blocks, interfaces, list)[n]
                                          = FaceIn(blocks, interfaces, list[n])
<1> DEFINE s == FacesOf(blocks, interfaces, list)
<1>1. Len(list) \in Nat /\ DOMAIN list = 1 .. Len(list) BY LenProperties
<1>2. \A n \in 1 .. Len(list) : FaceIn(blocks, interfaces, list[n]) \in FaceType
  BY ElementOfSeq, FaceTyped
<1>3. s = [n \in 1 .. Len(list) |-> FaceIn(blocks, interfaces, list[n])]
  BY <1>1 DEF FacesOf
<1>4. s \in [1 .. Len(list) -> FaceType] BY <1>2, <1>3
<1>5. s \in Seq(FaceType) BY <1>1, <1>4, SeqDef
<1>6. DOMAIN s = 1 .. Len(list) BY <1>3
<1>7. Len(s) = Len(list)
  <2>1. Len(s) \in Nat /\ DOMAIN s = 1 .. Len(s) BY <1>5, LenProperties
  <2> HIDE DEF s
  <2> QED BY <1>1, <1>6, <2>1
<1> QED BY <1>3, <1>5, <1>7

(* A pair of lists of faces.                                               *)
LEMMA ViewOf ==
    ASSUME NEW blocks \in Seq(Node), NEW interfaces \in Seq(Node), NEW v,
           v = <<FacesOf(blocks, interfaces, interfaces), FacesOf(blocks, interfaces, blocks)>>
    PROVE  /\ v \in Seq(FaceType) \X Seq(FaceType) /\ v \in Seq(Seq(FaceType))
           /\ Len(v[1]) = Len(interfaces) /\ Len(v[2]) = Len(blocks)
           /\ Size(v) = Size(<<interfaces, blocks>>)
           /\ \A i \in 1 .. Size(v) :
                At(v, i) = FaceIn(blocks, interfaces, At(<<interfaces, blocks>>, i))
<1> DEFINE a == FacesOf(blocks, interfaces, interfaces)
           b == FacesOf(blocks, interfaces, blocks)
           pair == <<interfaces, blocks>>
<1>1. /\ a \in Seq(FaceType) /\ Len(a) = Len(interfaces)
      /\ \A n \in 1 .. Len(interfaces) : a[n] = FaceIn(blocks, interfaces, interfaces[n])
  BY FacesTyped
<1>2. /\ b \in Seq(FaceType) /\ Len(b) = Len(blocks)
      /\ \A n \in 1 .. Len(blocks) : b[n] = FaceIn(blocks, interfaces, blocks[n])
  BY FacesTyped
<1>3. v[1] = a /\ v[2] = b /\ v = <<a, b>> OBVIOUS
<1>4. pair[1] = interfaces /\ pair[2] = blocks OBVIOUS
<1> HIDE DEF a, b, pair
<1>5. v \in Seq(FaceType) \X Seq(FaceType) /\ v \in Seq(Seq(FaceType))
  BY <1>1, <1>2, <1>3
<1>6. Len(v[1]) = Len(interfaces) /\ Len(v[2]) = Len(blocks) BY <1>1, <1>2, <1>3
<1>7. Size(v) = Size(pair) BY <1>4, <1>6 DEF Size
<1>8. ASSUME NEW i \in 1 .. Size(v)
      PROVE  At(v, i) = FaceIn(blocks, interfaces, At(pair, i))
  <2>1. i \in 1 .. Size(pair) BY <1>7
  <2>2. /\ i <= Len(interfaces) => i \in DOMAIN interfaces /\ At(pair, i) = interfaces[i]
        /\ ~ (i <= Len(interfaces)) => /\ i - Len(interfaces) \in DOMAIN blocks
                                       /\ At(pair, i) = blocks[i - Len(interfaces)]
    BY <2>1, <1>4, AtIs
  <2>3. At(v, i) = IF i <= Len(interfaces) THEN a[i] ELSE b[i - Len(interfaces)]
    BY <1>3, <1>6 DEF At
  <2>4. DOMAIN interfaces = 1 .. Len(interfaces) /\ DOMAIN blocks = 1 .. Len(blocks)
    BY LenProperties
  <2>5. CASE i <= Len(interfaces) BY <2>2, <2>3, <2>4, <2>5, <1>1
  <2>6. CASE ~ (i <= Len(interfaces)) BY <2>2, <2>3, <2>4, <2>6, <1>2
  <2> QED BY <2>5, <2>6
<1> QED BY <1>5, <1>6, <1>7, <1>8 DEF pair

(* The faces of two lists are those of a view.                             *)
Bears(blocks, interfaces, v) ==
    /\ Len(interfaces) = Len(v[1]) /\ Len(blocks) = Len(v[2])
    /\ \A i \in 1 .. Size(v) :
         FaceIn(blocks, interfaces, At(<<interfaces, blocks>>, i)) = At(v, i)
Faces(blocks, interfaces) ==
    <<FacesOf(blocks, interfaces, interfaces), FacesOf(blocks, interfaces, blocks)>>

(* Faces make up a view.                                                   *)
LEMMA ViewFrom ==
    ASSUME NEW blocks \in Seq(Node), NEW interfaces \in Seq(Node),
           NEW v \in Seq(FaceType) \X Seq(FaceType), Bears(blocks, interfaces, v)
    PROVE  Faces(blocks, interfaces) = v
<1> DEFINE a == FacesOf(blocks, interfaces, interfaces)
           b == FacesOf(blocks, interfaces, blocks)
           x == v[1]  y == v[2]
           pair == <<interfaces, blocks>>
<1>1. /\ a \in Seq(FaceType) /\ Len(a) = Len(interfaces)
      /\ \A n \in 1 .. Len(interfaces) : a[n] = FaceIn(blocks, interfaces, interfaces[n])
  BY FacesTyped
<1>2. /\ b \in Seq(FaceType) /\ Len(b) = Len(blocks)
      /\ \A n \in 1 .. Len(blocks) : b[n] = FaceIn(blocks, interfaces, blocks[n])
  BY FacesTyped
<1>3. pair[1] = interfaces /\ pair[2] = blocks OBVIOUS
<1>4. x \in Seq(FaceType) /\ y \in Seq(FaceType) /\ v = <<x, y>>
  <2>1. PICK p \in Seq(FaceType), q \in Seq(FaceType) : v = <<p, q>> OBVIOUS
  <2>2. x = p /\ y = q BY <2>1
  <2> QED BY <2>1, <2>2, Zenon
<1>5. v[1] = x /\ v[2] = y OBVIOUS
<1>6. /\ Len(interfaces) = Len(x) /\ Len(blocks) = Len(y)
      /\ \A i \in 1 .. Size(v) : FaceIn(blocks, interfaces, At(pair, i)) = At(v, i)
  BY DEF Bears
<1> HIDE DEF a, b, x, y, pair
<1>7. Size(pair) = Size(v) BY <1>3, <1>5, <1>6 DEF Size
<1>8. /\ \A n \in DOMAIN interfaces : At(pair, n) = interfaces[n]
      /\ \A n \in DOMAIN blocks : At(pair, n + Len(interfaces)) = blocks[n]
      /\ DOMAIN interfaces = 1 .. Len(interfaces) /\ DOMAIN blocks = 1 .. Len(blocks)
  BY <1>3, AtIs
<1>9. /\ \A n \in DOMAIN x : n \in 1 .. Size(v) /\ At(v, n) = x[n]
      /\ \A n \in DOMAIN y : n + Len(x) \in 1 .. Size(v) /\ At(v, n + Len(x)) = y[n]
      /\ DOMAIN x = 1 .. Len(x) /\ DOMAIN y = 1 .. Len(y)
  <2>1. x \in Seq(FaceType) /\ y \in Seq(FaceType) BY <1>4
  <2>2. DOMAIN x = 1 .. Len(x) /\ DOMAIN y = 1 .. Len(y) BY <2>1, LenProperties
  <2> DEFINE l == Len(x)  m == Len(y)
  <2>3. /\ l \in Nat /\ DOMAIN x = 1 .. l /\ m \in Nat /\ DOMAIN y = 1 .. m
    BY <2>1, LenProperties
  <2>4. Size(v) = l + m BY <1>5 DEF Size
  <2>5. \A i : At(v, i) = IF i <= l THEN x[i] ELSE y[i - l] BY <1>5 DEF At
  <2> HIDE DEF l, m
  <2>6. ASSUME NEW n \in DOMAIN x PROVE n \in 1 .. Size(v) /\ At(v, n) = x[n]
    <3>1. n <= l /\ n \in 1 .. l + m BY <2>3, <2>6
    <3> QED BY <3>1, <2>4, <2>5
  <2>7. ASSUME NEW n \in DOMAIN y
        PROVE  n + l \in 1 .. Size(v) /\ At(v, n + l) = y[n]
    <3>1. (n + l) - l = n /\ ~ (n + l <= l) /\ n + l \in 1 .. l + m BY <2>3, <2>7
    <3> QED BY <3>1, <2>4, <2>5
  <2> QED BY <2>2, <2>6, <2>7 DEF l
<1>10. \A n \in 1 .. Len(x) : a[n] = x[n] BY <1>1, <1>6, <1>8, <1>9
<1>11. ASSUME NEW n \in 1 .. Len(y) PROVE b[n] = y[n]
  <2> DEFINE i == n + Len(x)
  <2>1. i \in 1 .. Size(v) /\ At(v, i) = y[n] BY <1>9
  <2>2. At(pair, i) = blocks[n] BY <1>6, <1>8
  <2> HIDE DEF i
  <2>3. FaceIn(blocks, interfaces, At(pair, i)) = At(v, i) BY <2>1, <1>6
  <2> QED BY <2>1, <2>2, <2>3, <1>2, <1>6
<1>12. a = x BY <1>1, <1>4, <1>6, <1>10, SeqEqual
<1>13. b = y BY <1>2, <1>4, <1>6, <1>11, SeqEqual
<1> QED BY <1>4, <1>12, <1>13 DEF a, b, Faces

(* What a face is made of.                                                 *)
LEMMA FaceIs ==
    ASSUME NEW blocks, NEW interfaces, NEW b, NEW f \in FaceType,
           DOMAIN f.settings = KeysOf[f.cat],
           b.label = f.label, b.cat = f.cat, b.type = f.type,
           \A k \in KeysOf[f.cat] : Shown(blocks, interfaces, b, k) = f.settings[k]
    PROVE  FaceIn(blocks, interfaces, b) = f
<1> DEFINE K == KeysOf[f.cat]  s == f.settings
           t == [k \in K |-> Shown(blocks, interfaces, b, k)]
<1>1. f = [label |-> f.label, cat |-> f.cat, type |-> f.type, settings |-> s]
  BY DEF FaceType
<1>2. \E c \in Category : s \in [KeysOf[c] -> FaceText] BY DEF FaceType
<1>3. s = [k \in DOMAIN s |-> s[k]] BY <1>2
<1>4. DOMAIN s = K OBVIOUS
<1>5. t = s BY <1>3, <1>4
<1>6. FaceIn(blocks, interfaces, b) = [label |-> b.label, cat |-> b.cat, type |-> b.type, settings |-> t]
  BY DEF FaceIn
<1> HIDE DEF s, t, K
<1> QED BY <1>1, <1>5, <1>6

(* Ids and labels are all that a label is looked up by.                    *)
LEMMA SameLabels ==
    ASSUME NEW blocks \in Seq(Node), NEW interfaces \in Seq(Node),
           NEW blocks2, NEW interfaces2,
           DOMAIN blocks2 = DOMAIN blocks, DOMAIN interfaces2 = DOMAIN interfaces,
           \A n \in DOMAIN blocks :
             blocks2[n].id = blocks[n].id /\ blocks2[n].label = blocks[n].label,
           \A n \in DOMAIN interfaces :
             interfaces2[n].id = interfaces[n].id /\ interfaces2[n].label = interfaces[n].label,
           NEW id
    PROVE  GetBlockLabelString(blocks2, interfaces2, id)
             = GetBlockLabelString(blocks, interfaces, id)
<1>1. {n \in DOMAIN blocks2 : blocks2[n].id = id} = {n \in DOMAIN blocks : blocks[n].id = id}
  OBVIOUS
<1>2. {n \in DOMAIN interfaces2 : interfaces2[n].id = id}
        = {n \in DOMAIN interfaces : interfaces[n].id = id}
  OBVIOUS
<1>3. ById(blocks2, id) = ById(blocks, id) BY <1>1 DEF ById
<1>4. ById(interfaces2, id) = ById(interfaces, id) BY <1>2 DEF ById
<1>5. ById(blocks, id) \in DOMAIN blocks \cup {0} BY ByIdFound
<1>6. ById(interfaces, id) \in DOMAIN interfaces \cup {0} BY ByIdFound
<1> QED BY <1>3, <1>4, <1>5, <1>6 DEF GetBlockLabelString

(* A setting shows what it did, if it and the labels are what they were.   *)
LEMMA SameShown ==
    ASSUME NEW blocks, NEW interfaces, NEW blocks2, NEW interfaces2,
           \A id : GetBlockLabelString(blocks2, interfaces2, id)
                     = GetBlockLabelString(blocks, interfaces, id),
           NEW b, NEW c, NEW k, c.cat = b.cat, c.type = b.type,
           c.settings[k] = b.settings[k]
    PROVE  Shown(blocks2, interfaces2, c, k) = Shown(blocks, interfaces, b, k)
<1> DEFINE value(v) == CASE v = SET -> "set"
                         [] v = NO_DAY -> "no day"
                         [] v = A_DAY -> "24:00:00"
                         [] OTHER -> "garbage"
           S(list, more, x, R) ==
             IF x = UINT16_INIT THEN "unset"
             ELSE IF k \in R THEN GetBlockLabelString(list, more, x) ELSE value(x)
<1>1. Shown(blocks2, interfaces2, c, k) = S(blocks2, interfaces2, c.settings[k], RefKeys(c.cat, c.type))
  BY DEF Shown
<1>2. Shown(blocks, interfaces, b, k) = S(blocks, interfaces, b.settings[k], RefKeys(b.cat, b.type))
  BY DEF Shown
<1>3. RefKeys(c.cat, c.type) = RefKeys(b.cat, b.type) BY Zenon
<1> HIDE DEF value
<1> QED BY <1>1, <1>2, <1>3

(* A list of which only the status of nodes changed shows the same faces.  *)
LEMMA SameFaces ==
    ASSUME TypeOK, SameButStatus(bll, bll'), SameButStatus(ill, ill')
    PROVE  View' = View
<1>1. bll \in Seq(Node) /\ ill \in Seq(Node) BY DEF TypeOK
<1>2. \A id : GetBlockLabelString(bll', ill', id) = GetBlockLabelString(bll, ill, id)
  BY <1>1, SameLabels DEF SameButStatus
<1>3. ASSUME NEW b, NEW c, c.label = b.label, c.cat = b.cat, c.type = b.type,
             c.settings = b.settings
      PROVE  FaceIn(bll', ill', c) = FaceIn(bll, ill, b)
  <2>1. \A k : Shown(bll', ill', c, k) = Shown(bll, ill, b, k) BY <1>2, <1>3, SameShown
  <2> QED BY <1>3, <2>1 DEF FaceIn
<1>4. FacesOf(bll', ill', ill') = FacesOf(bll, ill, ill)
  BY <1>3 DEF FacesOf, SameButStatus
<1>5. FacesOf(bll', ill', bll') = FacesOf(bll, ill, bll)
  BY <1>3 DEF FacesOf, SameButStatus
<1> QED BY <1>4, <1>5, ViewIs
-----------------------------------------------------------------------------
(* What is written of a face that can be stored.                           *)

(* What a setting that is no reference shows.                              *)
Tells(v, s) ==
    /\ v = UINT16_INIT <=> s = "unset"
    /\ v = SET <=> s = "set"
    /\ s \in {"unset", "set", "no day", "24:00:00", "garbage"}

(* ... is its value.                                                       *)
LEMMA PlainShown ==
    ASSUME NEW blocks, NEW interfaces, NEW b, NEW k, k \notin RefKeys(b.cat, b.type)
    PROVE  Tells(b.settings[k], Shown(blocks, interfaces, b, k))
<1> DEFINE v == b.settings[k]
           s == Shown(blocks, interfaces, b, k)
<1> DEFINE value(x) == CASE x = SET -> "set"
                         [] x = NO_DAY -> "no day"
                         [] x = A_DAY -> "24:00:00"
                         [] OTHER -> "garbage"
<1>8. s = IF v = UINT16_INIT THEN "unset" ELSE value(v)
  <2> DEFINE id == GetBlockLabelString(blocks, interfaces, b.settings[k])
  <2>1. Shown(blocks, interfaces, b, k) =
          IF b.settings[k] = UINT16_INIT THEN "unset"
          ELSE IF k \in RefKeys(b.cat, b.type) THEN id ELSE value(b.settings[k])
    BY DEF Shown
  <2> HIDE DEF value, id
  <2> QED BY <2>1
<1>1. s = IF v = UINT16_INIT THEN "unset"
          ELSE CASE v = SET -> "set"
                 [] v = NO_DAY -> "no day"
                 [] v = A_DAY -> "24:00:00"
                 [] OTHER -> "garbage"
  BY <1>8
<1> SUFFICES Tells(v, s) OBVIOUS
<1> HIDE DEF v, s
<1>2. /\ SET # UINT16_INIT /\ NO_DAY # UINT16_INIT /\ A_DAY # UINT16_INIT
      /\ SET # NO_DAY /\ SET # A_DAY /\ NO_DAY # A_DAY
  BY DEF SET, NO_DAY, A_DAY, UINT16_INIT
<1>3. CASE v = UINT16_INIT BY <1>1, <1>2, <1>3 DEF Tells
<1>4. CASE v = SET BY <1>1, <1>2, <1>4 DEF Tells
<1>5. CASE v = NO_DAY BY <1>1, <1>2, <1>5 DEF Tells
<1>6. CASE v = A_DAY BY <1>1, <1>2, <1>6 DEF Tells
<1>7. CASE v \notin {UINT16_INIT, SET, NO_DAY, A_DAY}
  <2>1. s = "garbage" BY <1>1, <1>7
  <2> QED BY <2>1, <1>7 DEF Tells
<1> QED BY <1>3, <1>4, <1>5, <1>6, <1>7

(* What a reference shows.                                                 *)
LEMMA ReferenceShown ==
    ASSUME NEW blocks \in Seq(Node), NEW interfaces \in Seq(Node), NEW b, NEW k,
           k \in RefKeys(b.cat, b.type)
    PROVE  LET s == Shown(blocks, interfaces, b, k)
           IN /\ b.settings[k] = UINT16_INIT <=> s = "unset"
              /\ b.settings[k] # UINT16_INIT =>
                   s = GetBlockLabelString(blocks, interfaces, b.settings[k])
<1> DEFINE v == b.settings[k]  l == GetBlockLabelString(blocks, interfaces, v)
<1>1. l \in Label \cup {NoValue} BY LabelText
<1>2. l # "unset" BY <1>1, LabelAssumption DEF NoValue
<1>3. Shown(blocks, interfaces, b, k) = IF v = UINT16_INIT THEN "unset" ELSE l
  BY DEF Shown
<1> HIDE DEF v, l
<1> QED BY <1>2, <1>3 DEF v, l

(* A reference that is written leads to a node.                            *)
LEMMA ReferenceWritten ==
    ASSUME bll \in Seq(Node), ill \in Seq(Node), NEW b \in Node,
           NEW f, f = FaceIn(bll, ill, b), StorableFace(f),
           NEW k \in PutKeys(b), k \in RefKeys(b.cat, b.type)
    PROVE  f.settings[k] \notin {"unset", NoValue} /\ b.settings[k] # UINT16_INIT
<1>1. /\ f.cat = b.cat /\ f.type = b.type /\ DOMAIN f.settings = KeysOf[b.cat]
      /\ \A x \in KeysOf[b.cat] : f.settings[x] = Shown(bll, ill, b, x)
  BY FaceTyped
<1>2. PutKeys(b) \subseteq KeysOf[b.cat] BY PutKeysAreKeys
<1>3. f.settings[k] # NoValue BY <1>1 DEF StorableFace
<1>4. \A x \in RefKeys(b.cat, b.type) : x \in KeysOf[b.cat] =>
        (b.settings[x] = UINT16_INIT <=> f.settings[x] = "unset")
  BY <1>1, ReferenceShown
<1> SUFFICES b.settings[k] # UINT16_INIT \/ f.settings[k] # "unset" BY <1>2, <1>3, <1>4
<1>5. CASE b.cat = "FF_INPUT"
  <2>1. k = "interface" BY <1>5 DEF RefKeys
  <2> QED BY <2>1, <1>1, <1>5 DEF StorableFace
<1>6. CASE b.cat = "FF_MONITOR"
  <2>1. k \in {"input1", "input2", "input3", "input4"} BY <1>6 DEF RefKeys
  <2>2. CASE k = "input1" BY <1>1, <1>2, <2>2 DEF StorableFace
  <2>3. CASE k \in {"input2", "input3"} BY <1>6, <2>3 DEF PutKeys, If
  <2>4. CASE k = "input4"
    <3>1. b.settings["input2"] # UINT16_INIT BY <1>6, <2>4 DEF PutKeys, If
    <3>2. "input2" \in RefKeys(b.cat, b.type) BY <1>6 DEF RefKeys
    <3>3. "input2" \in KeysOf[b.cat] BY <1>6 DEF KeysOf
    <3>4. f.settings["input2"] # "unset" BY <3>1, <3>2, <3>3, <1>4
    <3> QED BY <3>4, <2>4, <1>1, <1>6 DEF StorableFace
  <2> QED BY <2>1, <2>2, <2>3, <2>4
<1>7. CASE b.cat = "FF_RULE"
  <2>1. k \in {"param1", "param2", "param3", "param_not"} BY <1>7 DEF RefKeys
  <2>2. CASE k = "param1" BY <1>1, <1>2, <2>2 DEF StorableFace
  <2>3. CASE k # "param1" BY <1>7, <2>1, <2>3 DEF PutKeys, If
  <2> QED BY <2>2, <2>3
<1>8. CASE b.cat = "FF_CONTROLLER"
  <2>1. k \in {"rule", "output"} BY <1>8 DEF RefKeys
  <2> QED BY <2>1, <1>1, <1>2 DEF StorableFace
<1>9. CASE b.cat \notin {"FF_INPUT", "FF_MONITOR", "FF_RULE", "FF_CONTROLLER"}
  BY <1>9 DEF RefKeys
<1> QED BY <1>5, <1>6, <1>7, <1>8, <1>9

(* The text of a setting is what it shows; only a schedule without days    *)
(* is written as a line that will be passed over.                          *)
LEMMA TextWritten ==
    ASSUME bll \in Seq(Node), ill \in Seq(Node), NEW b \in Node,
           NEW g \in {NoValue, "garbage"},
           NEW f, f = FaceIn(bll, ill, b), StorableFace(f),
           SoundBlock(b) \/ SoundInterface(b),
           NEW k \in PutKeys(b), NEW val, val = ValueText(b, k, g)
    PROVE  \/ /\ val = f.settings[k] /\ val # NoValue
              /\ val = "unset" => k \notin RefKeys(f.cat, f.type) \cup {"language", "days"}
           \/ val = NoValue /\ k = "days" /\ f.settings[k] = "unset"
<1> DEFINE v == b.settings[k]  R == RefKeys(b.cat, b.type)
<1>1. /\ f.cat = b.cat /\ f.type = b.type /\ DOMAIN f.settings = KeysOf[b.cat]
      /\ \A x \in KeysOf[b.cat] : f.settings[x] = Shown(bll, ill, b, x)
  BY FaceTyped
<1>2. k \in KeysOf[b.cat] /\ b.cat \in Category BY PutKeysAreKeys DEF Node
<1>3. CASE k \in R
  <2>1. f.settings[k] \notin {"unset", NoValue} /\ v # UINT16_INIT
    BY <1>3, ReferenceWritten
  <2>2. f.settings[k] = GetBlockLabelString(bll, ill, v)
    BY <1>1, <1>2, <1>3, <2>1, ReferenceShown
  <2>3. val = f.settings[k] BY <1>3, <2>1, <2>2 DEF ValueText
  <2> QED BY <2>1, <2>3
<1>4. CASE k \notin R
  <2> DEFINE t == f.settings[k]
             D == k = "days"
             N == k = "week_start" \/ (k = "interface" /\ b.cat = "FF_INPUT")
             T == k = "time_start" \/ (k = "if_num" /\ b.cat = "FF_INPUT")
  <2>0. t = Shown(bll, ill, b, k) BY <1>1, <1>2
  <2>1. /\ v = UINT16_INIT <=> t = "unset"
        /\ v = SET <=> t = "set"
        /\ t \in {"unset", "set", "no day", "24:00:00", "garbage"}
    <3>1. Tells(v, t) BY <2>0, <1>4, PlainShown
    <3> QED BY <3>1 DEF Tells
  <2>2. t \in {"unset", "set"} BY <1>1, <1>2, <2>1 DEF StorableFace
  <2>3. t # NoValue BY <2>2 DEF NoValue
  <2>4. val = IF D THEN FlagToDayStr(v)
              ELSE IF N /\ v # SET THEN g
              ELSE IF v # UINT16_INIT \/ T THEN "set" ELSE "unset"
    BY <1>4, Zenon DEF ValueText
  <2>12. SET # UINT16_INIT BY DEF SET, UINT16_INIT
  <2> HIDE DEF v, t, D, N, T
  <2>13. ASSUME v = SET, ~ D PROVE val = t /\ val # NoValue /\ val # "unset"
    <3>1. val = "set" BY <2>4, <2>12, <2>13
    <3> QED BY <3>1, <2>1, <2>3, <2>13
  <2>5. CASE D
    <3>1. val = IF v = SET THEN "set" ELSE NoValue BY <2>4, <2>5 DEF FlagToDayStr
    <3>2. CASE v = SET
      <4>1. val = "set" /\ t = "set" BY <3>1, <3>2, <2>1
      <4> QED BY <4>1, <2>3 DEF t
    <3>3. CASE v # SET
      <4>1. val = NoValue /\ t = "unset" BY <3>1, <3>3, <2>1, <2>2
      <4> QED BY <4>1, <2>5 DEF t, D
    <3> QED BY <3>2, <3>3
  <2>6. CASE v = SET /\ ~ D BY <2>6, <2>13 DEF t
  <2>7. CASE k = "week_start"
    <3>1. b.cat = "FF_SYSTEM" BY <1>2, <2>7, CategoriesKnown DEF KeysOf
    <3>2. v = SET /\ ~ D BY <3>1, <1>1, <2>1, <2>7 DEF StorableFace, t, D
    <3> QED BY <3>2, <2>6
  <2>8. CASE k = "interface" /\ b.cat = "FF_INPUT"
    <3>1. t # "unset" BY <1>1, <2>8 DEF StorableFace, t
    <3>2. v = SET /\ ~ D BY <3>1, <2>1, <2>2, <2>8 DEF D
    <3> QED BY <3>2, <2>6
  <2>9. CASE k = "time_start"
    <3>1. b.cat = "FF_SCHEDULE" BY <1>2, <2>9, CategoriesKnown DEF KeysOf
    <3>2. t = "set" BY <3>1, <1>1, <2>9 DEF StorableFace, t
    <3>3. v = SET /\ ~ D BY <3>2, <2>1, <2>9 DEF D
    <3> QED BY <3>3, <2>6
  <2>10. CASE k = "if_num" /\ b.cat = "FF_INPUT"
    <3>1. b.type # "IN_ONEWIRE" BY <2>10 DEF PutKeys, If
    <3>2. t = "set" BY <3>1, <1>1, <2>10 DEF StorableFace, t
    <3>3. v = SET /\ ~ D BY <3>2, <2>1, <2>10 DEF D
    <3> QED BY <3>3, <2>6
  <2>11. CASE k = "language"
    <3>1. b.cat = "FF_SYSTEM" BY <1>2, <2>11, LanguageParsed
    <3>2. SoundBlock(b) BY <3>1 DEF SoundInterface
    <3>3. v = SET /\ ~ D BY <3>2, <2>11 DEF SoundBlock, v, D
    <3> QED BY <3>3, <2>6
  <2>14. CASE ~ D /\ ~ N /\ ~ T /\ k # "language"
    <3>1. val = IF v # UINT16_INIT THEN "set" ELSE "unset" BY <2>4, <2>14
    <3>2. val = t BY <3>1, <2>1, <2>2
    <3>3. k \notin {"language", "days"} BY <2>14 DEF D
    <3> QED BY <3>2, <3>3, <1>1, <1>4, <2>3 DEF t, R
  <2> QED BY <2>5, <2>7, <2>8, <2>9, <2>10, <2>11, <2>14 DEF N, T
<1> QED BY <1>3, <1>4

(* What the settings of a new node show.                                   *)
LEMMA FreshShown ==
    /\ \A k \in Key : FreshText("FF_INTERFACE", k) = "unset"
    /\ \A cat : \A k \in Key : cat # "FF_INTERFACE" =>
         FreshText(cat, k) = IF k \in PresetKeys THEN "set" ELSE "unset"
    /\ \A cat : \A k \in Key :
         Fresh(cat)[k] = IF FreshText(cat, k) = "set" THEN SET ELSE UINT16_INIT
<1>1. SET # UINT16_INIT BY DEF SET, UINT16_INIT
<1>2. \A k \in Key : Fresh("FF_INTERFACE")[k] = UINT16_INIT BY DEF Fresh, NewIFSettings
<1>3. ASSUME NEW cat, cat # "FF_INTERFACE", NEW k \in Key
      PROVE  Fresh(cat)[k] = IF k \in PresetKeys THEN SET ELSE UINT16_INIT
  BY <1>3 DEF Fresh, NewBlockSettings
<1>4. \A k \in Key : FreshText("FF_INTERFACE", k) = "unset" BY <1>1, <1>2 DEF FreshText
<1>5. \A cat : \A k \in Key : cat # "FF_INTERFACE" =>
        FreshText(cat, k) = IF k \in PresetKeys THEN "set" ELSE "unset"
  BY <1>1, <1>3 DEF FreshText
<1>6. ASSUME NEW cat, NEW k \in Key
      PROVE  Fresh(cat)[k] = IF FreshText(cat, k) = "set" THEN SET ELSE UINT16_INIT
  BY <1>2, <1>3, <1>4, <1>5
<1> QED BY <1>4, <1>5, <1>6

(* A setting that is not written is as a load leaves it.                   *)
LEMMA NotWritten ==
    ASSUME bll \in Seq(Node), ill \in Seq(Node), NEW b \in Node,
           NEW f, f = FaceIn(bll, ill, b), StorableFace(f),
           SoundBlock(b) \/ SoundInterface(b),
           NEW k \in KeysOf[b.cat], k \notin PutKeys(b)
    PROVE  f.settings[k] = FreshText(f.cat, k)
<1>1. /\ f.cat = b.cat /\ f.type = b.type /\ f.label = b.label
      /\ DOMAIN f.settings = KeysOf[b.cat]
      /\ \A x \in KeysOf[b.cat] : f.settings[x] = Shown(bll, ill, b, x)
  BY FaceTyped
<1>2. b.cat \in Category /\ k \in Key
  <2>1. b.cat \in Category BY DEF Node
  <2> QED BY <2>1, NoSettings
<1>3. b.settings[k] = UINT16_INIT => f.settings[k] = "unset" BY <1>1 DEF Shown
<1>4. b.cat # "FF_INTERFACE" /\ k \notin PresetKeys => FreshText(f.cat, k) = "unset"
  BY <1>1, <1>2, FreshShown
<1>5. CASE b.cat = "FF_INTERFACE"
  <2>1. k \notin IFKeys(b.type) BY <1>5, PutKeysAreKeys
  <2>2. SoundInterface(b) BY <1>5 DEF SoundBlock
  <2>3. b.type \in GivenTypes(b.label)
    <3>1. "BT_ERROR" \notin TypesOf["FF_INTERFACE"] BY DEF TypesOf
    <3>2. b.type \in TypesOf["FF_INTERFACE"] BY <1>1, <1>5 DEF StorableFace
    <3> QED BY <3>1, <3>2, <2>2 DEF SoundInterface
  <2>4. b.settings[k] = UINT16_INIT
    <3>1. b.settings[k] # UINT16_INIT => \E t \in GivenTypes(b.label) : k \in IFKeys(t)
      BY <1>2, <2>2 DEF SoundInterface
    <3>2. \A t \in GivenTypes(b.label) : t = b.type BY <2>3, OneType
    <3> QED BY <3>1, <3>2, <2>1
  <2> QED BY <2>4, <1>1, <1>2, <1>3, <1>5, FreshShown
<1>6. CASE b.cat = "FF_SYSTEM" BY <1>6 DEF PutKeys, KeysOf
<1>7. CASE b.cat = "FF_INPUT"
  <2>1. k = "if_num" /\ b.type = "IN_ONEWIRE" BY <1>7 DEF PutKeys, KeysOf, If
  <2>2. f.settings["if_num"] # "set" BY <2>1, <1>1, <1>7 DEF StorableFace
  <2>3. k \notin RefKeys(b.cat, b.type) BY <2>1, <1>7 DEF RefKeys
  <2>4. f.settings[k] \in {"unset", "set", "no day", "24:00:00", "garbage"}
    <3> DEFINE s == Shown(bll, ill, b, k)
    <3>1. f.settings[k] = s BY <1>1
    <3>2. s \in {"unset", "set", "no day", "24:00:00", "garbage"}
      BY <2>3, PlainShown DEF Tells
    <3> QED BY <3>1, <3>2, Zenon
  <2>5. f.settings[k] = "unset" BY <2>1, <2>2, <2>4, <1>1 DEF StorableFace
  <2>6. k \notin PresetKeys BY <2>1 DEF PresetKeys
  <2> QED BY <2>5, <2>6, <1>4, <1>7
<1>8. CASE b.cat = "FF_MONITOR"
  <2>1. k \in {"input2", "input3", "input4"} BY <1>8 DEF PutKeys, KeysOf, If
  <2>2. k \notin PresetKeys BY <2>1 DEF PresetKeys
  <2>3. CASE k \in {"input2", "input3"}
    <3>1. b.settings[k] = UINT16_INIT BY <1>8, <2>3 DEF PutKeys, If
    <3> QED BY <3>1, <2>2, <1>3, <1>4, <1>8
  <2>4. CASE k = "input4"
    <3>1. b.settings["input2"] = UINT16_INIT BY <1>8, <2>4 DEF PutKeys, If
    <3>2. "input2" \in KeysOf[b.cat] BY <1>8 DEF KeysOf
    <3>3. f.settings["input2"] = "unset" BY <3>1, <3>2, <1>1 DEF Shown
    <3>4. f.settings["input4"] = "unset" BY <3>3, <1>1, <1>8 DEF StorableFace
    <3> QED BY <3>4, <2>2, <2>4, <1>4, <1>8
  <2> QED BY <2>1, <2>3, <2>4
<1>9. CASE b.cat = "FF_SCHEDULE"
  <2>1. k \in {"time_end", "time_duration", "time_repeat"} /\ b.settings[k] = UINT16_INIT
    BY <1>9 DEF PutKeys, KeysOf, If
  <2>2. f.settings[k] = "unset" BY <2>1, <1>3
  <2>3. k = "time_end" BY <2>1, <2>2, <1>1, <1>9 DEF StorableFace
  <2>4. k \notin PresetKeys BY <2>3 DEF PresetKeys
  <2> QED BY <2>2, <2>4, <1>4, <1>9
<1>10. CASE b.cat = "FF_RULE"
  <2>1. k \in {"param2", "param3", "param_not"} /\ b.settings[k] = UINT16_INIT
    BY <1>10 DEF PutKeys, KeysOf, If
  <2>2. k \notin PresetKeys BY <2>1 DEF PresetKeys
  <2> QED BY <2>1, <2>2, <1>3, <1>4, <1>10
<1>11. CASE b.cat = "FF_CONTROLLER" BY <1>11 DEF PutKeys, KeysOf
<1>12. CASE b.cat = "FF_OUTPUT" BY <1>12 DEF PutKeys, KeysOf
<1> QED BY <1>2, <1>5, <1>6, <1>7, <1>8, <1>9, <1>10, <1>11, <1>12, CategoriesKnown

(* The lines of a node's settings are those of its face.                   *)
Writes(b, g, f, lines) ==
    /\ WriteNode(b, TRUE, g) = <<TypeLine(f)>>
    /\ TypeLine(f) \in Line /\ Fits(f, TypeLine(f))
    /\ \A line \in lines : line.val = NoValue \/ Fits(f, line)
    /\ \A k \in KeysOf[f.cat] :
         \/ f.settings[k] = FreshText(f.cat, k)
         \/ \E line \in lines :
              line.label = f.label /\ line.key = k /\ line.val # NoValue

(* What is written of a face is what a load needs of it.                   *)
LEMMA FaceWritten ==
    ASSUME bll \in Seq(Node), ill \in Seq(Node), NEW b \in Node,
           NEW g \in {NoValue, "garbage"},
           NEW f, f = FaceIn(bll, ill, b), StorableFace(f),
           SoundBlock(b) \/ SoundInterface(b),
           NEW lines, lines = LinesOf(WriteNode(b, FALSE, g))
    PROVE  Writes(b, g, f, lines)
<1>1. /\ f.cat = b.cat /\ f.type = b.type /\ f.label = b.label
      /\ DOMAIN f.settings = KeysOf[b.cat]
  BY FaceTyped
<1>2. b.cat \in Category /\ b.label \in Label /\ b.type \in BlockType BY DEF Node
<1>3. /\ PutKeys(b) \subseteq KeysOf[b.cat]
      /\ b.cat = "FF_INTERFACE" => PutKeys(b) = IFKeys(b.type)
  BY PutKeysAreKeys
<1>4. TypeLineOf(b, g) = TypeLine(f)
  <2>1. \A c \in Category : NoType \notin TypesOf[c] BY CategoriesKnown DEF TypesOf, NoType
  <2>2. b.type # NoType BY <2>1, <1>1, <1>2 DEF StorableFace
  <2> QED BY <2>2, <1>1 DEF TypeLineOf, TypeText, TypeLine
<1>5. TypeLine(f) \in Line BY <1>1, <1>2 DEF TypeLine, Line, Text
<1>6. Fits(f, TypeLine(f)) BY DEF Fits, TypeLine
<1>7. ASSUME NEW k \in PutKeys(b), NEW val, val = ValueText(b, k, g)
      PROVE  \/ /\ val = f.settings[k] /\ val # NoValue
                /\ val = "unset" => k \notin RefKeys(f.cat, f.type) \cup {"language", "days"}
             \/ val = NoValue /\ k = "days" /\ f.settings[k] = "unset"
  BY <1>7, TextWritten
<1>8. ASSUME NEW k \in PutKeys(b)
      PROVE  LET line == KeyLine(b, k, g) IN line.val = NoValue \/ Fits(f, line)
  <2> DEFINE line == KeyLine(b, k, g)
  <2>1. line.cat = b.cat /\ line.label = b.label /\ line.key = k /\ line.val = ValueText(b, k, g)
    BY DEF KeyLine
  <2> HIDE DEF line
  <2>2. \/ /\ line.val = f.settings[k]
           /\ line.val = "unset" => k \notin RefKeys(f.cat, f.type) \cup {"language", "days"}
        \/ line.val = NoValue
    BY <2>1, <1>7
  <2> QED BY <2>1, <2>2, <1>1, <1>3 DEF Fits, line
<1>9. Fits(f, DisableLine(b)) BY <1>1 DEF Fits, DisableLine
<1>10. /\ WriteNode(b, TRUE, g) = <<TypeLineOf(b, g)>>
       /\ lines \subseteq {TypeLineOf(b, g), DisableLine(b)} \cup {KeyLine(b, k, g) : k \in PutKeys(b)}
       /\ {KeyLine(b, k, g) : k \in PutKeys(b)} \subseteq lines
  BY NodeWrites
<1>11. ASSUME NEW line \in lines PROVE line.val = NoValue \/ Fits(f, line)
  <2>1. CASE line = TypeLineOf(b, g) BY <2>1, <1>4, <1>6
  <2>2. CASE line = DisableLine(b) BY <2>2, <1>9
  <2>3. CASE \E k \in PutKeys(b) : line = KeyLine(b, k, g) BY <2>3, <1>8
  <2> QED BY <2>1, <2>2, <2>3, <1>10
<1>12. ASSUME NEW k \in KeysOf[f.cat]
       PROVE  \/ f.settings[k] = FreshText(f.cat, k)
              \/ \E line \in lines :
                   line.label = f.label /\ line.key = k /\ line.val # NoValue
  <2>1. CASE k \notin PutKeys(b) BY <2>1, <1>1, NotWritten, ZenonT(60)
  <2>2. CASE k \in PutKeys(b)
    <3> DEFINE line == KeyLine(b, k, g)
    <3>1. line \in lines BY <2>2, <1>10
    <3>2. line.label = b.label /\ line.key = k /\ line.val = ValueText(b, k, g) BY DEF KeyLine
    <3> HIDE DEF line
    <3>3. line.val # NoValue \/ (k = "days" /\ f.settings[k] = "unset")
      BY <2>2, <3>2, <1>7
    <3>4. CASE line.val # NoValue BY <3>1, <3>2, <3>4, <1>1
    <3>5. CASE k = "days" /\ f.settings[k] = "unset"
      <4>1. k \in Key /\ k \notin PresetKeys BY <3>5, KeysKnown DEF PresetKeys
      <4> QED BY <4>1, <3>5, FreshShown
    <3> QED BY <3>3, <3>4, <3>5
  <2> QED BY <2>1, <2>2
<1> QED BY <1>4, <1>5, <1>6, <1>10, <1>11, <1>12 DEF Writes
-----------------------------------------------------------------------------
(* A save.                                                                 *)

(* A sequence of lines and what it is made of.                             *)
Joined(s, t, u) ==
    /\ u \in Seq(Line) /\ Len(u) = Len(s) + Len(t)
    /\ Len(s) \in Nat /\ Len(t) \in Nat
    /\ DOMAIN u = 1 .. Len(u) /\ DOMAIN s = 1 .. Len(s)
    /\ \A q \in 1 .. Len(s) : q \in 1 .. Len(u) /\ u[q] = s[q]
    /\ \A line \in LinesOf(t) : \E q \in 1 .. Len(u) : u[q] = line
    /\ \A q \in DOMAIN u :
         (q \in DOMAIN s /\ u[q] = s[q]) \/ u[q] \in LinesOf(t)

(* What a file says it also says when lines are added to it.               *)
LEMMA MoreLines ==
    ASSUME NEW s \in Seq(Line), NEW t \in Seq(Line), NEW u, u = s \o t
    PROVE  Joined(s, t, u)
<1>1. /\ u \in Seq(Line) /\ Len(u) = Len(s) + Len(t)
      /\ \A q \in 1 .. Len(s) + Len(t) : u[q] = IF q <= Len(s) THEN s[q] ELSE t[q - Len(s)]
  BY ConcatProperties
<1>2. /\ DOMAIN u = 1 .. Len(u) /\ DOMAIN s = 1 .. Len(s) /\ DOMAIN t = 1 .. Len(t)
      /\ Len(s) \in Nat /\ Len(t) \in Nat
  BY <1>1, LenProperties
<1> DEFINE j == Len(s)  k == Len(t)
<1>3. /\ j \in Nat /\ k \in Nat /\ Len(u) = j + k /\ DOMAIN u = 1 .. j + k
      /\ DOMAIN s = 1 .. j /\ DOMAIN t = 1 .. k
      /\ \A q \in 1 .. j + k : u[q] = IF q <= j THEN s[q] ELSE t[q - j]
  BY <1>1, <1>2
<1> HIDE DEF j, k
<1>4. \A q \in 1 .. j : q \in 1 .. Len(u) /\ u[q] = s[q] BY <1>3
<1>5. ASSUME NEW line \in LinesOf(t) PROVE \E q \in 1 .. Len(u) : u[q] = line
  <2>1. PICK n \in DOMAIN t : t[n] = line BY DEF LinesOf
  <2>2. n + j \in 1 .. j + k /\ ~ (n + j <= j) /\ (n + j) - j = n BY <1>3, <2>1
  <2>3. u[n + j] = t[n] BY <1>3, <2>2
  <2> QED BY <2>1, <2>2, <2>3, <1>3
<1>6. ASSUME NEW q \in DOMAIN u
      PROVE  (q \in DOMAIN s /\ u[q] = s[q]) \/ u[q] \in LinesOf(t)
  <2>1. CASE q <= j BY <1>3, <2>1
  <2>2. CASE ~ (q <= j)
    <3>1. q - j \in DOMAIN t /\ u[q] = t[q - j] BY <1>3, <2>2
    <3> QED BY <3>1 DEF LinesOf
  <2> QED BY <2>1, <2>2
<1> QED BY <1>1, <1>2, <1>4, <1>5, <1>6 DEF j, Joined

(* ... of the faces registered, and of the settings told.                  *)
LEMMA MoreTold ==
    ASSUME NEW s \in Seq(Line), NEW t \in Seq(Line), NEW u, u = s \o t, NEW v
    PROVE  /\ \A f, k : Told(f, k, s, Len(s)) => Told(f, k, u, Len(u))
           /\ \A p \in Nat : Registered(v, s, p) => Registered(v, u, p)
           /\ \A p : Complete(v, s, p) => Complete(v, u, p)
           /\ /\ AllFit(v, s)
              /\ \A line \in LinesOf(t) :
                   line.val = NoValue \/ \E i \in 1 .. Size(v) : Fits(At(v, i), line)
              => AllFit(v, u)
<1>0. Joined(s, t, u) BY MoreLines
<1>1. /\ Len(u) = Len(s) + Len(t) /\ Len(s) \in Nat /\ Len(t) \in Nat
      /\ \A q \in 1 .. Len(s) : q \in 1 .. Len(u) /\ u[q] = s[q]
      /\ \A q \in DOMAIN u :
           (q \in DOMAIN s /\ u[q] = s[q]) \/ u[q] \in LinesOf(t)
  BY <1>0 DEF Joined
<1>2. \A f, k : Told(f, k, s, Len(s)) => Told(f, k, u, Len(u)) BY <1>1 DEF Told
<1>3. ASSUME NEW p \in Nat, Registered(v, s, p) PROVE Registered(v, u, p)
  <2>1. Len(s) >= p /\ \A i \in 1 .. p : s[i] = TypeLine(At(v, i)) BY <1>3 DEF Registered
  <2>2. Len(u) >= p BY <2>1, <1>1
  <2>3. \A i \in 1 .. p : i \in 1 .. Len(s) BY <2>1, <1>1
  <2>4. \A i \in 1 .. p : u[i] = TypeLine(At(v, i)) BY <2>1, <2>3, <1>1
  <2> QED BY <2>2, <2>4 DEF Registered
<1>4. \A p : Complete(v, s, p) => Complete(v, u, p) BY <1>2 DEF Complete
<1>5. ASSUME AllFit(v, s),
             \A line \in LinesOf(t) :
               line.val = NoValue \/ \E i \in 1 .. Size(v) : Fits(At(v, i), line)
      PROVE  AllFit(v, u)
  BY <1>1, <1>5 DEF AllFit
<1> QED BY <1>2, <1>3, <1>4, <1>5

(* The faces now, and the nodes they are of.                               *)
LEMMA Seen ==
    ASSUME bll \in Seq(Node), ill \in Seq(Node), NEW v, v = View
    PROVE  /\ v \in Seq(FaceType) \X Seq(FaceType) /\ v \in Seq(Seq(FaceType))
           /\ Len(v[1]) = Len(ill) /\ Len(v[2]) = Len(bll)
           /\ Size(v) = Size(nodes) /\ Size(v) = Len(ill) + Len(bll)
           /\ Size(v) \in Nat /\ Len(ill) \in Nat /\ Len(bll) \in Nat
           /\ \A i \in 1 .. Size(v) :
                /\ At(v, i) = FaceIn(bll, ill, At(nodes, i))
                /\ At(nodes, i) \in Node
                /\ i <= Len(ill) => i \in DOMAIN ill /\ At(nodes, i) = ill[i]
                /\ ~ (i <= Len(ill)) =>
                     i - Len(ill) \in DOMAIN bll /\ At(nodes, i) = bll[i - Len(ill)]
<1>1. v = <<FacesOf(bll, ill, ill), FacesOf(bll, ill, bll)>> BY ViewNow, Zenon
<1>2. nodes = <<ill, bll>> /\ nodes[1] = ill /\ nodes[2] = bll BY DEF nodes
<1> HIDE DEF nodes
<1>3. /\ v \in Seq(FaceType) \X Seq(FaceType) /\ v \in Seq(Seq(FaceType))
      /\ Len(v[1]) = Len(ill) /\ Len(v[2]) = Len(bll)
      /\ Size(v) = Size(<<ill, bll>>)
      /\ \A i \in 1 .. Size(v) : At(v, i) = FaceIn(bll, ill, At(<<ill, bll>>, i))
  BY <1>1, ViewOf, Zenon
<1>4. /\ Size(nodes) = Len(ill) + Len(bll) /\ Size(nodes) \in Nat
      /\ Len(ill) \in Nat /\ Len(bll) \in Nat
      /\ \A i \in 1 .. Size(nodes) :
           /\ At(nodes, i) \in Node
           /\ i <= Len(ill) => i \in DOMAIN ill /\ At(nodes, i) = ill[i]
           /\ ~ (i <= Len(ill)) =>
                i - Len(ill) \in DOMAIN bll /\ At(nodes, i) = bll[i - Len(ill)]
  BY <1>2, AtIs
<1>5. /\ Size(v) = Size(nodes)
      /\ \A i \in 1 .. Size(v) : At(v, i) = FaceIn(bll, ill, At(nodes, i))
  BY <1>2, <1>3
<1> QED BY <1>3, <1>4, <1>5

(* ... each of which can be stored, if the view can.                       *)
LEMMA SeenSound ==
    ASSUME bll \in Seq(Node), ill \in Seq(Node), Registry,
           NEW v, v = View, Storable(v), NEW i \in 1 .. Size(v)
    PROVE  /\ StorableFace(At(v, i))
           /\ SoundBlock(At(nodes, i)) \/ SoundInterface(At(nodes, i))
           /\ i <= Len(ill) => SoundInterface(At(nodes, i))
           /\ ~ (i <= Len(ill)) => SoundBlock(At(nodes, i))
<1>1. /\ v \in Seq(FaceType) \X Seq(FaceType)
      /\ Len(v[1]) = Len(ill) /\ Len(v[2]) = Len(bll)
      /\ i <= Len(ill) => i \in DOMAIN ill /\ At(nodes, i) = ill[i]
      /\ ~ (i <= Len(ill)) =>
           i - Len(ill) \in DOMAIN bll /\ At(nodes, i) = bll[i - Len(ill)]
  BY Seen
<1>2. /\ i <= Len(v[1]) => i \in DOMAIN v[1] /\ At(v, i) = v[1][i]
      /\ ~ (i <= Len(v[1])) => i - Len(v[1]) \in DOMAIN v[2] /\ At(v, i) = v[2][i - Len(v[1])]
  BY <1>1, Sides DEF Side
<1>3. StorableFace(At(v, i)) BY <1>2 DEF Storable
<1>4. i <= Len(ill) => SoundInterface(At(nodes, i)) BY <1>1 DEF Registry
<1>5. ~ (i <= Len(ill)) => SoundBlock(At(nodes, i)) BY <1>1 DEF Registry
<1> QED BY <1>3, <1>4, <1>5

(* The next node is the one of the next face.                              *)
LEMMA NextFace ==
    ASSUME TypeOK, SaveNode, NEW v, v = View
    PROVE  LET i == IF pos < Size(v) THEN pos + 1 ELSE (pos - Size(v)) + 1
           IN /\ i \in 1 .. Size(v) /\ NextNode = At(nodes, i)
              /\ pos < 2 * Size(v) /\ Len(Nodes) = Size(v)
<1> DEFINE l == Len(ill) + Len(bll)
           i == IF pos < l THEN pos + 1 ELSE (pos - l) + 1
<1>1. bll \in Seq(Node) /\ ill \in Seq(Node) BY DEF TypeOK
<1>2. /\ Len(Nodes) = l /\ i \in 1 .. l /\ pos < 2 * l
      /\ NextNode = IF i <= Len(ill) THEN ill[i] ELSE bll[i - Len(ill)]
  BY NextIs, Zenon
<1>3. /\ Size(v) = l
      /\ \A n \in 1 .. Size(v) :
           /\ n <= Len(ill) => At(nodes, n) = ill[n]
           /\ ~ (n <= Len(ill)) => At(nodes, n) = bll[n - Len(ill)]
  BY <1>1, Seen
<1> HIDE DEF i, l
<1>4. NextNode = At(nodes, i) BY <1>2, <1>3
<1>5. i = IF pos < Size(v) THEN pos + 1 ELSE (pos - Size(v)) + 1 BY <1>3, Zenon DEF i
<1> QED BY <1>2, <1>3, <1>4, <1>5

(* Writing a node takes a save one node further.                           *)
LEMMA SaveGoesOn ==
    ASSUME TypeOK, Registry, SaveNode, NEW v, v = View, Storable(v), Saves(v, file, pos),
           NEW g \in {NoValue, "garbage"}, NEW out, out = file \o Written(g)
    PROVE  Saves(v, out, pos + 1)
<1> DEFINE l == Size(v)
           i == IF pos < l THEN pos + 1 ELSE (pos - l) + 1
           b == At(nodes, i)
           f == At(v, i)
<1>1. bll \in Seq(Node) /\ ill \in Seq(Node) /\ pos \in Nat /\ file \in Seq(Line)
  BY DEF TypeOK
<1>2. i \in 1 .. l /\ NextNode = b /\ pos < 2 * l /\ Len(Nodes) = l BY NextFace, Zenon
<1>3. l \in Nat BY <1>1, Seen
<1>4. f = FaceIn(bll, ill, b) /\ b \in Node BY <1>1, <1>2, Seen
<1>5. StorableFace(f) /\ (SoundBlock(b) \/ SoundInterface(b)) BY <1>1, <1>2, SeenSound
<1>6. Written(g) = WriteNode(b, pos < l, g) BY <1>2, Zenon DEF Written
<1> HIDE DEF b, f
<1> DEFINE lines == LinesOf(WriteNode(b, FALSE, g))
<1>10. lines = LinesOf(WriteNode(b, FALSE, g)) OBVIOUS
<1> HIDE DEF lines
<1>7. /\ WriteNode(b, TRUE, g) = <<TypeLine(f)>>
      /\ TypeLine(f) \in Line /\ Fits(f, TypeLine(f))
      /\ \A line \in lines : line.val = NoValue \/ Fits(f, line)
      /\ \A k \in KeysOf[f.cat] :
           \/ f.settings[k] = FreshText(f.cat, k)
           \/ \E line \in lines :
                line.label = f.label /\ line.key = k /\ line.val # NoValue
  <2>1. Writes(b, g, f, lines) BY <1>1, <1>4, <1>5, <1>10, FaceWritten
  <2> QED BY <2>1 DEF Writes
<1> HIDE DEF l, i
<1>8. CASE pos < l
  <2> DEFINE t == <<TypeLine(f)>>
  <2>1. i = pos + 1 BY <1>8 DEF i
  <2>2. Written(g) = t
    <3>1. (pos < l) = TRUE BY <1>8
    <3> QED BY <3>1, <1>6, <1>7, Zenon
  <2>3. t \in Seq(Line) /\ LinesOf(t) = {TypeLine(f)} /\ Len(t) = 1 /\ t[1] = TypeLine(f)
    <3>1. DOMAIN t = {1} /\ t[1] = TypeLine(f) /\ Len(t) = 1 OBVIOUS
    <3>2. t \in Seq(Line) BY <1>7
    <3> HIDE DEF t
    <3> QED BY <3>1, <3>2 DEF LinesOf
  <2>4. out = file \o t BY <2>2
  <2> HIDE DEF t
  <2>5. Joined(file, t, out) BY <1>1, <2>3, <2>4, MoreLines
  <2>6. Len(file) = pos /\ Registered(v, file, pos) /\ AllFit(v, file)
    BY <1>1, <1>3, <1>8 DEF Saves, Least, l
  <2>7. Len(out) = pos + 1 BY <2>3, <2>5, <2>6 DEF Joined
  <2>8. Registered(v, out, pos) /\ AllFit(v, out)
    <3>1. \A p \in Nat : Registered(v, file, p) => Registered(v, out, p)
      BY <1>1, <2>3, <2>4, MoreTold
    <3>2. /\ AllFit(v, file)
          /\ \A line \in LinesOf(t) :
               line.val = NoValue \/ \E n \in 1 .. Size(v) : Fits(At(v, n), line)
          => AllFit(v, out)
      BY <1>1, <2>3, <2>4, MoreTold
    <3>3. \A line \in LinesOf(t) : \E n \in 1 .. Size(v) : Fits(At(v, n), line)
      BY <1>2, <1>7, <2>3 DEF f, l
    <3> QED BY <3>1, <3>2, <3>3, <1>1, <2>6
  <2>9. out[pos + 1] = TypeLine(f)
    <3>1. \E q \in 1 .. Len(out) : out[q] = TypeLine(f) BY <2>3, <2>5 DEF Joined
    <3>2. out[pos + 1] = t[(pos + 1) - Len(file)]
      BY <1>1, <2>3, <2>4, <2>6, ConcatProperties
    <3>3. (pos + 1) - Len(file) = 1 BY <1>1, <2>6
    <3> QED BY <3>2, <3>3, <2>3
  <2>10. Registered(v, out, pos + 1)
    <3>1. \A n \in 1 .. pos : out[n] = TypeLine(At(v, n)) BY <2>8 DEF Registered
    <3>2. out[pos + 1] = TypeLine(At(v, pos + 1)) BY <2>1, <2>9 DEF f
    <3>3. Len(out) >= pos + 1 BY <1>1, <2>7
    <3>4. \A n \in 1 .. pos + 1 : n \in 1 .. pos \/ n = pos + 1 BY <1>1
    <3> QED BY <3>1, <3>2, <3>3, <3>4 DEF Registered
  <2>11. Least(pos + 1, l) = pos + 1 BY <1>1, <1>3, <1>8 DEF Least
  <2>12. Complete(v, out, (pos + 1) - l)
    <3>1. 1 .. (pos + 1) - l = {} BY <1>1, <1>3, <1>8
    <3> QED BY <3>1 DEF Complete
  <2> QED BY <2>7, <2>8, <2>10, <2>11, <2>12 DEF Saves, l
<1>9. CASE ~ (pos < l)
  <2> DEFINE t == WriteNode(b, FALSE, g)  p == pos - l
  <2>1. i = p + 1 /\ p \in Nat BY <1>1, <1>3, <1>9 DEF i
  <2>2. Written(g) = t
    <3>1. (pos < l) = FALSE BY <1>9
    <3> QED BY <3>1, <1>6, Zenon
  <2>3. t \in Seq(Line) BY <1>1, <1>4, NodeLines
  <2>4. out = file \o t BY <2>2
  <2>5. lines = LinesOf(t) BY DEF lines
  <2> HIDE DEF t
  <2>6. Joined(file, t, out) BY <1>1, <2>3, <2>4, MoreLines
  <2>7. Registered(v, file, l) /\ AllFit(v, file) /\ Complete(v, file, p)
    <3>1. Least(pos, l) = l BY <1>1, <1>3, <1>9 DEF Least
    <3> QED BY <3>1 DEF Saves, l
  <2>8. Registered(v, out, l) /\ Complete(v, out, p)
    <3>1. /\ \A n \in Nat : Registered(v, file, n) => Registered(v, out, n)
          /\ \A n : Complete(v, file, n) => Complete(v, out, n)
      BY <1>1, <2>3, <2>4, MoreTold
    <3> QED BY <3>1, <1>3, <2>7
  <2>9. AllFit(v, out)
    <3>1. /\ AllFit(v, file)
          /\ \A line \in LinesOf(t) :
               line.val = NoValue \/ \E n \in 1 .. Size(v) : Fits(At(v, n), line)
          => AllFit(v, out)
      BY <1>1, <2>3, <2>4, MoreTold
    <3>2. \A line \in LinesOf(t) :
            line.val = NoValue \/ \E n \in 1 .. Size(v) : Fits(At(v, n), line)
      BY <1>2, <1>7, <2>5 DEF f, l
    <3> QED BY <3>1, <3>2, <2>7
  <2>10. ASSUME NEW k \in KeysOf[f.cat]
         PROVE  Told(f, k, out, Len(out)) \/ f.settings[k] = FreshText(f.cat, k)
    <3>1. \/ f.settings[k] = FreshText(f.cat, k)
          \/ \E line \in lines :
               line.label = f.label /\ line.key = k /\ line.val # NoValue
      BY <1>7
    <3>2. \A line \in lines : \E q \in 1 .. Len(out) : out[q] = line
      BY <2>5, <2>6 DEF Joined
    <3> QED BY <3>1, <3>2 DEF Told
  <2>11. Complete(v, out, (pos + 1) - l)
    <3>1. (pos + 1) - l = p + 1 BY <1>1, <1>3
    <3>2. \A n \in 1 .. p + 1 : n \in 1 .. p \/ n = i BY <2>1
    <3> HIDE DEF p
    <3>3. ASSUME NEW n \in 1 .. p + 1, NEW k \in KeysOf[At(v, n).cat]
          PROVE  \/ Told(At(v, n), k, out, Len(out))
                 \/ At(v, n).settings[k] = FreshText(At(v, n).cat, k)
      <4>1. CASE n \in 1 .. p BY <4>1, <2>8 DEF Complete
      <4>2. CASE n = i BY <4>2, <2>10 DEF f
      <4> QED BY <4>1, <4>2, <3>2
    <3> QED BY <3>1, <3>3 DEF Complete
  <2>12. Least(pos + 1, l) = l /\ ~ (pos + 1 <= l)
    BY <1>1, <1>3, <1>9 DEF Least
  <2> QED BY <2>8, <2>9, <2>11, <2>12 DEF Saves, l
<1> QED BY <1>8, <1>9

(* Lists that stay as they are show the same.                              *)
LEMMA ViewStays ==
    ASSUME bll' = bll, ill' = ill
    PROVE  View' = View
<1>1. View' = <<FacesOf(bll', ill', ill'), FacesOf(bll', ill', bll')>> BY ViewIs, Zenon
<1>2. View = <<FacesOf(bll, ill, ill), FacesOf(bll, ill, bll)>> BY ViewIs, Zenon
<1> QED BY <1>1, <1>2

(* So a save comes as far as it says.                                      *)
LEMMA SaveInvKept ==
    ASSUME TypeOK, Registry, Modes, SaveInv, [Next]_vars
    PROVE  SaveInv'
<1>1. bll \in Seq(Node) /\ ill \in Seq(Node) /\ pos \in Nat BY DEF TypeOK
<1>2. CASE mode' # "save" BY <1>2 DEF SaveInv
<1>3. CASE UNCHANGED vars
  <2>1. bll' = bll /\ ill' = ill /\ file' = file /\ mode' = mode /\ pos' = pos
    BY <1>3 DEF vars
  <2>2. View' = View BY <2>1, ViewStays
  <2> QED BY <2>1, <2>2 DEF SaveInv
<1>4. CASE RegConfigSave
  <2>1. bll' = bll /\ ill' = ill /\ file' = <<>> /\ pos' = 0
    BY <1>4 DEF RegConfigSave, lists, Modes
  <2>2. View' = View BY <2>1, ViewStays
  <2>3. \A v : Size(v) \in Nat => Saves(v, <<>>, 0)
    <3> SUFFICES ASSUME NEW v, Size(v) \in Nat PROVE Saves(v, <<>>, 0) OBVIOUS
    <3> DEFINE l == Size(v)  e == <<>>
    <3>1. l \in Nat /\ Len(e) = 0 /\ DOMAIN e = {} OBVIOUS
    <3> HIDE DEF l, e
    <3>2. Least(0, l) = 0 BY <3>1 DEF Least
    <3>3. 1 .. 0 = {} /\ 1 .. 0 - l = {} BY <3>1
    <3>4. Registered(v, e, 0) BY <3>1, <3>3 DEF Registered
    <3>5. Complete(v, e, 0 - l) BY <3>3 DEF Complete
    <3>6. AllFit(v, e) BY <3>1 DEF AllFit
    <3>7. Saves(v, e, 0) BY <3>1, <3>2, <3>4, <3>5, <3>6 DEF Saves, l
    <3> QED BY <3>7 DEF e
  <2>4. Size(View) \in Nat
    <3> DEFINE v == View
    <3>1. v = View OBVIOUS
    <3> HIDE DEF v
    <3>2. Size(v) \in Nat BY <1>1, <3>1, Seen
    <3> QED BY <3>1, <3>2
  <2> QED BY <2>1, <2>2, <2>3, <2>4 DEF SaveInv
<1>5. CASE SaveNode /\ mode' = "save"
  <2>1. PICK g \in {NoValue, "garbage"} :
          /\ file' = file \o Written(g) /\ pos' = pos + 1 /\ bll' = bll /\ ill' = ill
    BY <1>5 DEF SaveNode, lists
  <2>2. View' = View BY <2>1, ViewStays
  <2>3. mode = "save" BY <1>5 DEF SaveNode
  <2>4. ASSUME NEW v, v = View, Storable(v)
        PROVE  Saves(v, file', pos')
    <3> DEFINE out == file \o Written(g)
    <3>1. Saves(v, file, pos) BY <2>3, <2>4 DEF SaveInv
    <3>2. out = file \o Written(g) OBVIOUS
    <3> HIDE DEF out
    <3>3. Saves(v, out, pos + 1) BY <1>5, <2>4, <3>1, <3>2, SaveGoesOn
    <3> QED BY <2>1, <3>2, <3>3
  <2> QED BY <2>2, <2>4 DEF SaveInv
<1>6. CASE RegConfigLine \/ RegConfigDeleteBID \/ RegConfigDeleteBlockLabel
           \/ RegConfigClear \/ RegAdmin \/ RegAdminInterface \/ RegIFOneWireAssign
  <2>1. mode' \in {"run", "off"}
    BY <1>6 DEF RegConfigLine, RegConfigDeleteBID, RegConfigDeleteBlockLabel,
       RegConfigClear, RegAdmin, RegAdminInterface, RegIFOneWireAssign, Console
  <2> QED BY <2>1, <1>2
<1>7. CASE PowerOn \/ LoadLine \/ BootDone \/ SaveDone \/ RegConfigLoad \/ ReloadDone
           \/ RegSystemReboot \/ PowerLoss
  <2>1. mode' # "save"
    BY <1>7 DEF PowerOn, LoadLine, BootDone, SaveDone, RegConfigLoad, ReloadDone,
       RegSystemReboot, PowerLoss, InitConfigLoad
  <2> QED BY <2>1, <1>2
<1> QED BY <1>2, <1>3, <1>4, <1>5, <1>6, <1>7 DEF Next
-----------------------------------------------------------------------------
(* What is saved can be loaded.                                            *)

(* The look-up by id finds the first of the nodes that bear it.            *)
LEMMA ByIdFirst ==
    ASSUME NEW list \in Seq(Node), NEW id, NEW n \in DOMAIN list, list[n].id = id
    PROVE  /\ ById(list, id) \in DOMAIN list /\ list[ById(list, id)].id = id
           /\ ById(list, id) <= n
<1> DEFINE S == {m \in DOMAIN list : list[m].id = id}
           R == {ss \in Nat \X Nat : ss[1] < ss[2]}
<1>1. DOMAIN list \subseteq Nat \ {0} BY LenProperties
<1>2. S \subseteq Nat /\ n \in S BY <1>1
<1>3. IsWellFoundedOn(R, Nat) BY NatOrder
<1> HIDE DEF R
<1>4. PICK x \in S : \A y \in S : ~ (<<y, x>> \in R) BY <1>2, <1>3, WFMin, Zenon
<1>5. ASSUME NEW y \in S PROVE x <= y
  <2>1. <<y, x>> \in Nat \X Nat /\ x \in Nat /\ y \in Nat BY <1>2
  <2>2. ~ (<<y, x>> \in R) BY <1>4
  <2>3. ~ (y < x) BY <2>1, <2>2 DEF R
  <2> QED BY <2>1, <2>3
<1>6. S # {} BY <1>2
<1>7. First(S) \in S /\ \A m \in S : First(S) <= m BY <1>5, <1>6 DEF First
<1>8. ById(list, id) = First(S) BY DEF ById
<1> QED BY <1>2, <1>7, <1>8

(* The label that an id has is one that a load takes for the same node.    *)
LEMMA LabelNamed ==
    ASSUME bll \in Seq(Node), ill \in Seq(Node), Registry, NEW v, v = View, NEW id,
           NEW label, label = GetBlockLabelString(bll, ill, id), label # NoValue
    PROVE  Named(v, label)
<1> DEFINE p == ById(bll, id)  q == ById(ill, id)
<1>1. /\ v \in Seq(FaceType) \X Seq(FaceType) /\ Size(v) \in Nat
      /\ Len(v[1]) = Len(ill) /\ Len(v[2]) = Len(bll)
  BY Seen
<1>2. v[1] = FacesOf(bll, ill, ill) /\ v[2] = FacesOf(bll, ill, bll)
  BY ViewNow
<1>3. /\ DOMAIN v[1] = DOMAIN ill /\ DOMAIN v[2] = DOMAIN bll
      /\ \A n \in DOMAIN ill : v[1][n] = FaceIn(bll, ill, ill[n])
      /\ \A n \in DOMAIN bll : v[2][n] = FaceIn(bll, ill, bll[n])
  BY <1>2 DEF FacesOf
<1>4. \A b : FaceIn(bll, ill, b).label = b.label /\ FaceIn(bll, ill, b).cat = b.cat
  BY DEF FaceIn
<1>5. p \in DOMAIN bll \cup {0} /\ q \in DOMAIN ill \cup {0} BY ByIdFound
<1>6. label = IF p # 0 THEN bll[p].label ELSE IF q # 0 THEN ill[q].label ELSE NoValue
  BY DEF GetBlockLabelString
<1> HIDE DEF q
<1>7. CASE p # 0
  <2>1. p \in DOMAIN bll /\ v[2][p].label = label /\ v[2][p].cat = bll[p].cat
    BY <1>3, <1>4, <1>5, <1>6, <1>7
  <2>2. ASSUME bll[p].cat = "FF_SYSTEM", NEW m \in DOMAIN bll, m < p
        PROVE  bll[m].cat # "FF_SYSTEM"
    <3>1. bll[p].id = id BY <2>1, ByIdFound
    <3>2. id = SSS BY <2>1, <2>2, <3>1 DEF Registry, SoundBlock
    <3>3. SUFFICES ASSUME bll[m].cat = "FF_SYSTEM" PROVE FALSE OBVIOUS
    <3>4. bll[m].id = id BY <3>2, <3>3 DEF Registry, SoundBlock
    <3>5. p <= m BY <3>4, ByIdFirst
    <3>6. m \in Nat /\ p \in Nat
      <4>1. DOMAIN bll \subseteq Nat BY LenProperties
      <4> QED BY <4>1, <2>1
    <3> QED BY <2>2, <3>5, <3>6
  <2> HIDE DEF p
  <2>3. v[2][p].cat = "FF_SYSTEM" =>
          \A m \in DOMAIN v[2] : m < p => v[2][m].cat # "FF_SYSTEM"
    BY <2>1, <2>2, <1>3, <1>4
  <2> QED BY <2>1, <2>3, <1>3 DEF Named
<1>8. CASE p = 0
  <2>1. q # 0 /\ q \in DOMAIN ill /\ ill[q].label = label BY <1>5, <1>6, <1>8
  <2>2. q \in DOMAIN v[1] /\ v[1][q].label = label BY <2>1, <1>3, <1>4
  <2> QED BY <2>2 DEF Named
<1> QED BY <1>7, <1>8

(* A view that can be stored can be kept.                                  *)
LEMMA SeenKeepable ==
    ASSUME bll \in Seq(Node), ill \in Seq(Node), Registry, NEW v, v = View, Storable(v)
    PROVE  Keepable(v)
<1>1. /\ v \in Seq(FaceType) \X Seq(FaceType)
      /\ Len(v[1]) = Len(ill) /\ Len(v[2]) = Len(bll)
      /\ Len(ill) \in Nat /\ Len(bll) \in Nat /\ Size(v) = Len(ill) + Len(bll)
      /\ \A i \in 1 .. Size(v) :
           /\ At(v, i) = FaceIn(bll, ill, At(nodes, i))
           /\ At(nodes, i) \in Node
           /\ i <= Len(ill) => i \in DOMAIN ill /\ At(nodes, i) = ill[i]
           /\ ~ (i <= Len(ill)) =>
                i - Len(ill) \in DOMAIN bll /\ At(nodes, i) = bll[i - Len(ill)]
  BY Seen
<1>2. ASSUME NEW i \in 1 .. Size(v)
      PROVE  /\ i <= Len(v[1]) => i \in DOMAIN v[1] /\ At(v, i) = v[1][i]
             /\ ~ (i <= Len(v[1])) =>
                  i - Len(v[1]) \in DOMAIN v[2] /\ At(v, i) = v[2][i - Len(v[1])]
  BY <1>1, <1>2, Sides DEF Side
<1>3. \A i \in 1 .. Size(v) : At(v, i).label = At(nodes, i).label
  <2>1. \A b : FaceIn(bll, ill, b).label = b.label BY DEF FaceIn
  <2> QED BY <2>1, <1>1
<1> DEFINE l == Len(ill)  m == Len(bll)
<1>4. ASSUME NEW i \in 1 .. Size(v), NEW j \in 1 .. Size(v), At(v, i).label = At(v, j).label
      PROVE  i = j
  <2>1. i \in 1 .. l + m /\ j \in 1 .. l + m /\ l \in Nat /\ m \in Nat BY <1>1
  <2>2. /\ i <= l => i \in DOMAIN ill /\ At(nodes, i) = ill[i]
        /\ ~ (i <= l) => i - l \in DOMAIN bll /\ At(nodes, i) = bll[i - l]
    BY <1>1
  <2>3. /\ j <= l => j \in DOMAIN ill /\ At(nodes, j) = ill[j]
        /\ ~ (j <= l) => j - l \in DOMAIN bll /\ At(nodes, j) = bll[j - l]
    BY <1>1
  <2>4. At(nodes, i).label = At(nodes, j).label BY <1>3, <1>4
  <2>5. \A x \in DOMAIN v[1], y \in DOMAIN v[2] : v[1][x].label # v[2][y].label
    BY DEF Storable
  <2>6. ~ (i <= l /\ ~ (j <= l)) /\ ~ (j <= l /\ ~ (i <= l))
    <3>1. /\ i <= l => i \in DOMAIN v[1] /\ At(v, i) = v[1][i]
          /\ ~ (i <= l) => i - l \in DOMAIN v[2] /\ At(v, i) = v[2][i - l]
      BY <1>1, <1>2
    <3>2. /\ j <= l => j \in DOMAIN v[1] /\ At(v, j) = v[1][j]
          /\ ~ (j <= l) => j - l \in DOMAIN v[2] /\ At(v, j) = v[2][j - l]
      BY <1>1, <1>2
    <3> HIDE DEF l
    <3> QED BY <3>1, <3>2, <2>5, <1>4
  <2> HIDE DEF l, m
  <2>7. CASE i <= l /\ j <= l BY <2>2, <2>3, <2>4, <2>7 DEF Registry, LabelsApart
  <2>8. CASE ~ (i <= l) /\ ~ (j <= l)
    <3>1. i - l = j - l BY <2>2, <2>3, <2>4, <2>8 DEF Registry, LabelsApart
    <3> QED BY <3>1, <2>1
  <2> QED BY <2>6, <2>7, <2>8
<1>5. ASSUME NEW i \in 1 .. Size(v), NEW f, f = At(v, i)
      PROVE  /\ DOMAIN f.settings = KeysOf[f.cat]
             /\ f.cat = "FF_INTERFACE" <=> i <= Len(v[1])
             /\ \A k \in KeysOf[f.cat] :
                  IF k \in RefKeys(f.cat, f.type)
                  THEN f.settings[k] # "unset" => Named(v, f.settings[k])
                  ELSE f.settings[k] \in {"set", "unset"}
  <2> DEFINE b == At(nodes, i)
  <2>1. f = FaceIn(bll, ill, b) /\ b \in Node BY <1>1, <1>5
  <2>2. /\ StorableFace(f)
        /\ i <= Len(ill) => SoundInterface(b)
        /\ ~ (i <= Len(ill)) => SoundBlock(b)
    BY <1>5, SeenSound
  <2> HIDE DEF b
  <2>3. /\ f.label = b.label /\ f.cat = b.cat /\ f.type = b.type
        /\ DOMAIN f.settings = KeysOf[b.cat]
        /\ \A k \in KeysOf[b.cat] : f.settings[k] = Shown(bll, ill, b, k)
    BY <2>1, FaceTyped
  <2>4. f.cat = "FF_INTERFACE" <=> i <= Len(v[1])
    BY <1>1, <2>2, <2>3 DEF SoundInterface, SoundBlock
  <2>5. ASSUME NEW k \in KeysOf[f.cat], k \in RefKeys(f.cat, f.type), f.settings[k] # "unset"
        PROVE  Named(v, f.settings[k])
    <3> DEFINE label == GetBlockLabelString(bll, ill, b.settings[k])
    <3>1. k \in RefKeys(b.cat, b.type) /\ f.settings[k] = Shown(bll, ill, b, k)
      BY <2>3, <2>5
    <3>2. f.settings[k] = label BY <2>5, <3>1, ReferenceShown
    <3>3. f.settings[k] # NoValue BY <2>2, <2>5 DEF StorableFace
    <3>4. label = GetBlockLabelString(bll, ill, b.settings[k]) OBVIOUS
    <3> HIDE DEF label
    <3>5. Named(v, label) BY <3>2, <3>3, <3>4, LabelNamed
    <3> QED BY <3>2, <3>5
  <2>6. ASSUME NEW k \in KeysOf[f.cat], k \notin RefKeys(f.cat, f.type)
        PROVE  f.settings[k] \in {"set", "unset"}
    <3> DEFINE s == Shown(bll, ill, b, k)
    <3>1. k \notin RefKeys(b.cat, b.type) /\ f.settings[k] = s BY <2>3, <2>6
    <3>2. s \in {"unset", "set", "no day", "24:00:00", "garbage"}
      BY <3>1, PlainShown DEF Tells
    <3> HIDE DEF s
    <3>3. k \in DOMAIN f.settings BY <2>3, <2>6
    <3>4. s \notin {"no day", "24:00:00", "garbage"} BY <2>2, <3>1, <3>3 DEF StorableFace
    <3> QED BY <3>1, <3>2, <3>4
  <2> QED BY <2>3, <2>4, <2>5, <2>6
<1>6. \A i \in 1 .. Size(v) :
        LET f == At(v, i)
        IN /\ DOMAIN f.settings = KeysOf[f.cat]
           /\ f.cat = "FF_INTERFACE" <=> i <= Len(v[1])
           /\ \A k \in KeysOf[f.cat] :
                IF k \in RefKeys(f.cat, f.type)
                THEN f.settings[k] # "unset" => Named(v, f.settings[k])
                ELSE f.settings[k] \in {"set", "unset"}
  BY <1>5, Zenon
<1> QED BY <1>1, <1>4, <1>6, Zenon DEF Keepable

(* So the file of a completed save holds what was saved, until the next.   *)
LEMMA StoredInvKept ==
    ASSUME TypeOK, Registry, Modes, SaveInv, StoredInv, [Next]_vars
    PROVE  StoredInv'
<1>1. bll \in Seq(Node) /\ ill \in Seq(Node) BY DEF TypeOK
<1>2. CASE saved' = saved /\ file' = file /\ (mode' # "save" => mode # "save")
  BY <1>2 DEF StoredInv
<1>3. CASE saved' = saved /\ mode = "save" BY <1>3 DEF StoredInv, Modes
<1>4. CASE RegConfigSave BY <1>4 DEF RegConfigSave, StoredInv
<1>5. CASE SaveDone
  <2>1. mode = "save" /\ pos = 2 * Len(Nodes) /\ file' = file BY <1>5 DEF SaveDone
  <2>2. saved' = (IF Storable(View) THEN View ELSE Torn) BY <1>5 DEF SaveDone
  <2>3. ASSUME NEW v, v = View, Storable(v) PROVE Stores(v, file)
    <3> DEFINE l == Size(v)
    <3>1. Saves(v, file, pos) BY <2>1, <2>3 DEF SaveInv
    <3>2. l \in Nat /\ l = Len(ill) + Len(bll) BY <1>1, <2>3, Seen
    <3>3. Len(Nodes) = l BY <1>1, <3>2, ConcatProperties DEF Nodes
    <3> HIDE DEF l
    <3>4. Least(pos, l) = l /\ pos - l = l BY <2>1, <3>2, <3>3 DEF Least
    <3>5. Registered(v, file, l) /\ Complete(v, file, l) /\ AllFit(v, file)
      BY <3>1, <3>4 DEF Saves, l
    <3>6. Keepable(v) BY <1>1, <2>3, SeenKeepable
    <3> QED BY <3>5, <3>6 DEF Stores, l
  <2>4. saved' # Torn => Stores(saved', file) BY <2>2, <2>3
  <2> QED BY <2>1, <2>4 DEF StoredInv
<1>6. CASE RegConfigLine \/ RegConfigDeleteBID \/ RegConfigDeleteBlockLabel
           \/ RegConfigClear \/ RegAdmin \/ RegAdminInterface \/ RegIFOneWireAssign
  <2>1. saved' = saved /\ file' = file /\ mode = "run"
    BY <1>6 DEF RegConfigLine, RegConfigDeleteBID, RegConfigDeleteBlockLabel,
       RegConfigClear, RegAdmin, RegAdminInterface, RegIFOneWireAssign, Console
  <2> QED BY <2>1, <1>2
<1>7. CASE PowerOn \/ LoadLine \/ BootDone \/ RegConfigLoad \/ ReloadDone
           \/ RegSystemReboot \/ UNCHANGED vars
  <2>1. saved' = saved /\ file' = file /\ (mode' # "save" => mode # "save")
    BY <1>7 DEF PowerOn, LoadLine, BootDone, RegConfigLoad, ReloadDone,
       RegSystemReboot, InitConfigLoad, vars
  <2> QED BY <2>1, <1>2
<1>8. CASE SaveNode
  <2>1. saved' = saved /\ mode = "save" BY <1>8 DEF SaveNode
  <2> QED BY <2>1, <1>3
<1>9. CASE PowerLoss
  <2>1. saved' = saved /\ (mode # "save" => file' = file) BY <1>9 DEF PowerLoss
  <2> QED BY <2>1, <1>2, <1>3
<1> QED BY <1>4, <1>5, <1>6, <1>7, <1>8, <1>9 DEF Next
-----------------------------------------------------------------------------
(* A load.                                                                 *)

(* The lists are those of the faces, as to what a type line tells.         *)
Like(b, f) == b.label = f.label /\ b.cat = f.cat /\ b.type = f.type

Matches(v) ==
    /\ Len(ill) = Len(v[1]) /\ Len(bll) = Len(v[2])
    /\ \A i \in 1 .. Size(v) : Like(At(nodes, i), At(v, i))

(* ... node by node.                                                       *)
LEMMA MatchesEach ==
    ASSUME bll \in Seq(Node), ill \in Seq(Node),
           NEW v \in Seq(FaceType) \X Seq(FaceType), Matches(v)
    PROVE  /\ DOMAIN v[1] = DOMAIN ill /\ DOMAIN v[2] = DOMAIN bll
           /\ Size(v) = Size(nodes) /\ Size(nodes) \in Nat
           /\ \A n \in DOMAIN ill : Like(ill[n], v[1][n])
           /\ \A n \in DOMAIN bll : Like(bll[n], v[2][n])
<1> DEFINE x == v[1]  y == v[2]  l == Len(ill)
<1>1. x \in Seq(FaceType) /\ y \in Seq(FaceType) OBVIOUS
<1>2. nodes[1] = ill /\ nodes[2] = bll BY DEF nodes
<1>3. /\ Len(ill) = Len(x) /\ Len(bll) = Len(y)
      /\ \A i \in 1 .. Size(v) : Like(At(nodes, i), At(v, i))
  BY DEF Matches
<1>4. v[1] = x /\ v[2] = y OBVIOUS
<1> HIDE DEF x, y, nodes
<1>5. /\ Size(nodes) = Len(ill) + Len(bll) /\ Size(nodes) \in Nat
      /\ DOMAIN ill = 1 .. Len(ill) /\ DOMAIN bll = 1 .. Len(bll)
      /\ \A n \in DOMAIN ill : At(nodes, n) = ill[n]
      /\ \A n \in DOMAIN bll : At(nodes, n + Len(ill)) = bll[n]
  BY <1>2, AtIs
<1>6. /\ Size(v) = Len(x) + Len(y)
      /\ DOMAIN x = 1 .. Len(x) /\ DOMAIN y = 1 .. Len(y)
      /\ \A n \in DOMAIN x : n \in 1 .. Size(v) /\ At(v, n) = x[n]
      /\ \A n \in DOMAIN y : n + Len(x) \in 1 .. Size(v) /\ At(v, n + Len(x)) = y[n]
  BY <1>1, <1>4, AtIs
<1>7. DOMAIN x = DOMAIN ill /\ DOMAIN y = DOMAIN bll BY <1>3, <1>5, <1>6
<1>8. Size(v) = Size(nodes) BY <1>3, <1>5, <1>6
<1>9. \A n \in DOMAIN ill : Like(ill[n], x[n]) BY <1>3, <1>5, <1>6, <1>7
<1>10. ASSUME NEW n \in DOMAIN bll PROVE Like(bll[n], y[n])
  <2> DEFINE i == n + l
  <2>1. i \in 1 .. Size(v) /\ At(v, i) = y[n] BY <1>3, <1>6, <1>7
  <2>2. At(nodes, i) = bll[n] BY <1>5
  <2> HIDE DEF i
  <2> QED BY <2>1, <2>2, <1>3
<1> QED BY <1>4, <1>5, <1>7, <1>8, <1>9, <1>10

(* Ids do not look like the value that stands for none.                    *)
LEMMA IdsKnown ==
    ASSUME block_count \in 0 .. MaxNodes, NEW list, IdsOf(list, block_count),
           NEW n \in DOMAIN list
    PROVE  list[n].id # UINT16_INIT
<1>1. list[n].id = SSS \/ list[n].id \in BLOCK_ID_BASE .. BLOCK_ID_BASE + block_count - 1
  BY DEF IdsOf, Handed
<1> QED BY <1>1, BoundsAssumption DEF SSS, UINT16_INIT, BLOCK_ID_BASE

(* A label that names a node is parsed to the id that shows as the label.  *)
LEMMA NameFound ==
    ASSUME bll \in Seq(Node), ill \in Seq(Node), block_count \in 0 .. MaxNodes,
           Registry, IdsApart,
           NEW v \in Seq(FaceType) \X Seq(FaceType), Storable(v), Matches(v),
           NEW label, Named(v, label), NEW id, id = GetBlockIDByLabel(bll, ill, label)
    PROVE  id # UINT16_INIT /\ GetBlockLabelString(bll, ill, id) = label
<1> DEFINE p == ByLabel(bll, label)  q == ByLabel(ill, label)
<1>1. /\ DOMAIN v[1] = DOMAIN ill /\ DOMAIN v[2] = DOMAIN bll
      /\ \A n \in DOMAIN ill : Like(ill[n], v[1][n])
      /\ \A n \in DOMAIN bll : Like(bll[n], v[2][n])
  BY MatchesEach
<1>2. /\ p \in DOMAIN bll \cup {0}
      /\ p # 0 => bll[p].label = label
      /\ p = 0 => \A n \in DOMAIN bll : bll[n].label # label
  BY ByLabelFound
<1>3. /\ q \in DOMAIN ill \cup {0}
      /\ q # 0 => ill[q].label = label
      /\ q = 0 => \A n \in DOMAIN ill : ill[n].label # label
  BY ByLabelFound
<1>4. id = IF p # 0 THEN bll[p].id ELSE IF q # 0 THEN ill[q].id ELSE M_FF_ERROR
  BY DEF GetBlockIDByLabel
<1> HIDE DEF p, q
<1>5. CASE \E j \in DOMAIN v[1] : v[1][j].label = label
  <2>1. PICK j \in DOMAIN v[1] : v[1][j].label = label BY <1>5
  <2>2. j \in DOMAIN ill /\ ill[j].label = label BY <2>1, <1>1 DEF Like
  <2>3. p = 0
    <3>1. \A n \in DOMAIN v[2] : v[1][j].label # v[2][n].label BY <2>1 DEF Storable
    <3>2. \A n \in DOMAIN bll : bll[n].label # label BY <3>1, <2>1, <1>1 DEF Like
    <3> QED BY <3>2, <1>2
  <2>4. q \in DOMAIN ill /\ q # 0 /\ ill[q].label = label /\ id = ill[q].id
    BY <2>2, <2>3, <1>3, <1>4
  <2>5. id # SSS BY <2>4 DEF Registry, SoundInterface
  <2>6. id # UINT16_INIT BY <2>4, IdsKnown DEF IdsApart
  <2>7. GetBlockLabelString(bll, ill, id) = ill[q].label BY <2>4, <2>5, LabelOf
  <2> QED BY <2>4, <2>6, <2>7
<1>6. CASE \E j \in DOMAIN v[2] :
             /\ v[2][j].label = label
             /\ v[2][j].cat = "FF_SYSTEM" =>
                  \A m \in DOMAIN v[2] : m < j => v[2][m].cat # "FF_SYSTEM"
  <2>1. PICK j \in DOMAIN v[2] :
          /\ v[2][j].label = label
          /\ v[2][j].cat = "FF_SYSTEM" =>
               \A m \in DOMAIN v[2] : m < j => v[2][m].cat # "FF_SYSTEM"
    BY <1>6
  <2>2. j \in DOMAIN bll /\ bll[j].label = label BY <2>1, <1>1 DEF Like
  <2>3. p \in DOMAIN bll /\ p # 0 /\ bll[p].label = label /\ id = bll[p].id
    BY <2>2, <1>2, <1>4
  <2>4. p = j BY <2>2, <2>3 DEF Registry, LabelsApart
  <2>5. id # UINT16_INIT BY <2>3, IdsKnown DEF IdsApart
  <2>6. CASE id # SSS
    <3>1. GetBlockLabelString(bll, ill, id) = bll[p].label BY <2>3, <2>6, LabelOf
    <3> QED BY <3>1, <2>3, <2>5
  <2>7. CASE id = SSS
    <3> DEFINE x == ById(bll, id)
    <3>1. x \in DOMAIN bll /\ bll[x].id = id /\ x <= p BY <2>3, ByIdFirst
    <3>2. GetBlockLabelString(bll, ill, id) = IF x # 0 THEN bll[x].label
            ELSE IF ById(ill, id) # 0 THEN ill[ById(ill, id)].label ELSE NoValue
      BY DEF GetBlockLabelString
    <3> HIDE DEF x
    <3>3. bll[x].cat = "FF_SYSTEM" /\ bll[j].cat = "FF_SYSTEM"
      BY <3>1, <2>2, <2>3, <2>4, <2>7 DEF Registry, SoundBlock
    <3>4. v[2][x].cat = "FF_SYSTEM" /\ v[2][j].cat = "FF_SYSTEM"
      BY <3>1, <3>3, <2>2, <1>1 DEF Like
    <3>5. ~ (x < j) BY <3>1, <3>4, <2>1, <1>1
    <3>6. x \in Nat \ {0} /\ j \in Nat \ {0}
      <4>1. DOMAIN bll \subseteq Nat \ {0} BY LenProperties
      <4> QED BY <4>1, <3>1, <2>2
    <3>7. x = j BY <3>1, <3>5, <3>6, <2>4
    <3> QED BY <3>2, <3>6, <3>7, <2>2, <2>5
  <2> QED BY <2>6, <2>7
<1> QED BY <1>5, <1>6 DEF Named

(* A text that is no reference is parsed to what shows as the text.        *)
LEMMA PlainParsed ==
    ASSUME NEW k \in Key, NEW val \in {"set", "unset"},
           val = "unset" => k \notin {"language", "days"}
    PROVE  Parsed(k, val) = IF val = "set" THEN SET ELSE UINT16_INIT
<1>1. CASE k \in NameKeys
  <2>1. Parsed(k, val) = StringArrayIndex(k, val) BY <1>1 DEF Parsed, NameKeys, TimeKeys
  <2> QED BY <2>1 DEF StringArrayIndex
<1>2. CASE k \in TimeKeys
  <2>1. Parsed(k, val) = StringToTimeValue(val) BY <1>2 DEF Parsed, NameKeys, TimeKeys
  <2> QED BY <2>1 DEF StringToTimeValue
<1>3. CASE k = "days"
  <2>1. Parsed(k, val) = DayStrToFlag(val) BY <1>3 DEF Parsed, NameKeys, TimeKeys
  <2> QED BY <2>1, <1>3 DEF DayStrToFlag
<1>4. CASE k = "dallas_address"
  <2>1. Parsed(k, val) = DallasAddressStringToArray(val)
    BY <1>4 DEF Parsed, NameKeys, TimeKeys
  <2> QED BY <2>1 DEF DallasAddressStringToArray
<1>5. CASE k \notin NameKeys \cup TimeKeys \cup {"days", "dallas_address"}
  <2>1. Parsed(k, val) = Number(k, val) BY <1>5 DEF Parsed
  <2> QED BY <2>1 DEF Number
<1> QED BY <1>1, <1>2, <1>3, <1>4, <1>5

(* One node of either list is changed.                                     *)
LEMMA OneNodeSet ==
    ASSUME bll \in Seq(Node), ill \in Seq(Node),
           NEW j \in 1 .. Size(nodes), NEW c \in Node,
           \/ j <= Len(ill) /\ ill' = [ill EXCEPT ![j] = c] /\ bll' = bll
           \/ /\ ~ (j <= Len(ill)) /\ ill' = ill
              /\ bll' = [bll EXCEPT ![j - Len(ill)] = c]
    PROVE  /\ bll' \in Seq(Node) /\ ill' \in Seq(Node)
           /\ Len(ill') = Len(ill) /\ Len(bll') = Len(bll) /\ Size(nodes') = Size(nodes)
           /\ \A i \in 1 .. Size(nodes) : At(nodes', i) = IF i = j THEN c ELSE At(nodes, i)
<1> DEFINE l == Len(ill)  x == nodes  y == nodes'
<1>1. x[1] = ill /\ x[2] = bll /\ y[1] = ill' /\ y[2] = bll' BY DEF nodes
<1>2. x = nodes /\ y = nodes' OBVIOUS
<1> HIDE DEF x, y
<1>3. /\ Size(x) = Len(ill) + Len(bll)
      /\ Len(ill) \in Nat /\ DOMAIN ill = 1 .. Len(ill)
      /\ Len(bll) \in Nat /\ DOMAIN bll = 1 .. Len(bll)
      /\ \A i \in 1 .. Size(x) :
           /\ i <= Len(ill) => i \in DOMAIN ill /\ At(x, i) = ill[i]
           /\ ~ (i <= Len(ill)) => i - Len(ill) \in DOMAIN bll /\ At(x, i) = bll[i - Len(ill)]
  BY <1>1, AtIs
<1>4. j \in 1 .. Size(x) BY <1>2
<1>5. ASSUME bll' \in Seq(Node), ill' \in Seq(Node), Len(ill') = l, Len(bll') = Len(bll)
      PROVE  /\ Size(y) = Size(x)
             /\ \A i \in 1 .. Size(x) :
                  /\ i <= l => i \in DOMAIN ill' /\ At(y, i) = ill'[i]
                  /\ ~ (i <= l) => i - l \in DOMAIN bll' /\ At(y, i) = bll'[i - l]
  <2> DEFINE p == ill'  q == bll'
  <2>0. p \in Seq(Node) /\ q \in Seq(Node) /\ y[1] = p /\ y[2] = q BY <1>1, <1>5
  <2> HIDE DEF p, q
  <2>1. /\ Size(y) = Len(p) + Len(q)
        /\ \A i \in 1 .. Size(y) :
             /\ i <= Len(p) => i \in DOMAIN p /\ At(y, i) = p[i]
             /\ ~ (i <= Len(p)) => i - Len(p) \in DOMAIN q /\ At(y, i) = q[i - Len(p)]
    BY <2>0, AtIs
  <2>2. Len(p) = l /\ Len(q) = Len(bll) BY <1>5 DEF p, q
  <2> QED BY <2>1, <2>2, <1>3 DEF p, q
<1> HIDE DEF l
<1>6. CASE j <= l /\ ill' = [ill EXCEPT ![j] = c] /\ bll' = bll
  <2>1. j \in DOMAIN ill BY <1>3, <1>4, <1>6 DEF l
  <2> DEFINE new == [ill EXCEPT ![j] = c]
  <2>2. /\ new \in Seq(Node) /\ Len(new) = Len(ill)
        /\ \A m \in DOMAIN ill : new[m] = IF m = j THEN c ELSE ill[m]
    BY <2>1, SetOne
  <2>3. ill' = new BY <1>6
  <2> HIDE DEF new
  <2>4. ill' \in Seq(Node) /\ Len(ill') = l /\ bll' \in Seq(Node) /\ Len(bll') = Len(bll)
    BY <2>2, <2>3, <1>6 DEF l
  <2>5. ASSUME NEW i \in 1 .. Size(x) PROVE At(y, i) = IF i = j THEN c ELSE At(x, i)
    <3>1. CASE i <= l
      <4>1. At(y, i) = ill'[i] /\ At(x, i) = ill[i] /\ i \in DOMAIN ill
        BY <2>4, <3>1, <1>3, <1>5 DEF l
      <4> QED BY <4>1, <2>2, <2>3
    <3>2. CASE ~ (i <= l)
      <4>1. At(y, i) = bll'[i - l] /\ At(x, i) = bll[i - l] BY <2>4, <3>2, <1>3, <1>5 DEF l
      <4>2. i # j BY <3>2, <1>6
      <4> QED BY <4>1, <4>2, <1>6
    <3> QED BY <3>1, <3>2
  <2>6. Size(y) = Size(x) BY <2>4, <1>5
  <2> QED BY <2>4, <2>5, <2>6, <1>2 DEF l
<1>7. CASE ~ (j <= l) /\ ill' = ill /\ bll' = [bll EXCEPT ![j - l] = c]
  <2> DEFINE p == j - l
  <2>1. p \in DOMAIN bll BY <1>3, <1>4, <1>7 DEF l
  <2> HIDE DEF p
  <2> DEFINE new == [bll EXCEPT ![p] = c]
  <2>2. /\ new \in Seq(Node) /\ Len(new) = Len(bll)
        /\ \A m \in DOMAIN bll : new[m] = IF m = p THEN c ELSE bll[m]
    BY <2>1, SetOne
  <2>3. bll' = new BY <1>7 DEF p
  <2> HIDE DEF new
  <2>4. ill' \in Seq(Node) /\ Len(ill') = l /\ bll' \in Seq(Node) /\ Len(bll') = Len(bll)
    BY <2>2, <2>3, <1>7 DEF l
  <2>5. ASSUME NEW i \in 1 .. Size(x) PROVE At(y, i) = IF i = j THEN c ELSE At(x, i)
    <3>1. CASE i <= l
      <4>1. At(y, i) = ill'[i] /\ At(x, i) = ill[i]
        BY <2>4, <3>1, <1>3, <1>5 DEF l
      <4>2. i # j BY <3>1, <1>7
      <4> QED BY <4>1, <4>2, <1>7
    <3>2. CASE ~ (i <= l)
      <4>1. At(y, i) = bll'[i - l] /\ At(x, i) = bll[i - l] /\ i - l \in DOMAIN bll
        BY <2>4, <3>2, <1>3, <1>5 DEF l
      <4>2. i - l = p <=> i = j BY <1>3, <1>4 DEF p, l
      <4> QED BY <4>1, <4>2, <2>2, <2>3
    <3> QED BY <3>1, <3>2
  <2>6. Size(y) = Size(x) BY <2>4, <1>5
  <2> QED BY <2>4, <2>5, <2>6, <1>2 DEF l
<1> QED BY <1>6, <1>7 DEF l

(* A line that fits a face sets the node of that face.                     *)
LEMMA LineSets ==
    ASSUME bll \in Seq(Node), ill \in Seq(Node), block_count \in 0 .. MaxNodes, Registry,
           NEW v \in Seq(FaceType) \X Seq(FaceType), Matches(v), Keepable(v),
           NEW line \in Line, Configure(line),
           NEW j \in 1 .. Size(v), Fits(At(v, j), line),
           NEW c, c = Configured(At(nodes, j), bll, line)
    PROVE  /\ j \in 1 .. Size(nodes) /\ At(nodes, j) \in Node
           /\ \/ j <= Len(ill) /\ ill' = [ill EXCEPT ![j] = c] /\ bll' = bll
              \/ /\ ~ (j <= Len(ill)) /\ ill' = ill
                 /\ bll' = [bll EXCEPT ![j - Len(ill)] = c]
<1> DEFINE f == At(v, j)  b == At(nodes, j)
<1>1. Size(v) = Size(nodes) BY MatchesEach
<1>2. /\ b \in Node
      /\ j <= Len(ill) => j \in DOMAIN ill /\ b = ill[j]
      /\ ~ (j <= Len(ill)) => j - Len(ill) \in DOMAIN bll /\ b = bll[j - Len(ill)]
  <2>1. nodes[1] = ill /\ nodes[2] = bll /\ j \in 1 .. Size(nodes) BY <1>1 DEF nodes
  <2> QED BY <2>1, AtIs
<1>3. Like(b, f) BY DEF Matches
<1>4. f.cat = "FF_INTERFACE" <=> j <= Len(ill)
  <2>1. f.cat = "FF_INTERFACE" <=> j <= Len(v[1]) BY Zenon DEF Keepable
  <2> QED BY <2>1 DEF Matches
<1>5. c = Configured(b, bll, line) OBVIOUS
<1>6. Fits(f, line) OBVIOUS
<1> HIDE DEF f, b
<1>7. line.cat = b.cat /\ line.label = b.label /\ b.cat = f.cat /\ b.type = f.type
  BY <1>3, <1>6 DEF Like, Fits
<1>8. CASE j <= Len(ill)
  <2>1. ConfigureInterface(line) BY <1>4, <1>7, <1>8 DEF Configure
  <2>2. j \in DOMAIN ill /\ b = ill[j] BY <1>2, <1>8
  <2>3. PICK n \in DOMAIN ill :
          /\ ill[n].label = line.label
          /\ ill' = [ill EXCEPT ![n] = ConfigureIFSetting(ill[n], line)]
    BY <2>1, <2>2, <1>7, InterfaceLineDoes, ZenonT(60)
  <2>4. n = j BY <2>2, <2>3, <1>7 DEF Registry, LabelsApart
  <2>5. bll' = bll BY <2>1, InterfaceLineDoes
  <2>6. line.key \in {"type", "disable"} \/ line.key \in IFKeys(b.type)
    BY <1>4, <1>6, <1>7, <1>8 DEF Fits
  <2>7. ConfigureIFSetting(b, line) = c
    BY <2>6, <1>5, Zenon DEF ConfigureIFSetting, ConfigureIFSpecificSetting
  <2>8. ill' = [ill EXCEPT ![j] = c] BY <2>2, <2>3, <2>4, <2>7
  <2> QED BY <2>5, <2>8, <1>1, <1>2, <1>8 DEF b
<1>9. CASE ~ (j <= Len(ill))
  <2>1. ConfigureBlock(line) /\ line.cat # "FF_INTERFACE" BY <1>4, <1>7, <1>9 DEF Configure
  <2> DEFINE p == j - Len(ill)
  <2>2. p \in DOMAIN bll /\ b = bll[p] BY <1>2, <1>9
  <2> HIDE DEF p
  <2>3. block_count \in Nat OBVIOUS
  <2>4. PICK n \in DOMAIN bll :
          /\ bll[n].label = line.label
          /\ bll' = [bll EXCEPT ![n] = Configured(bll[n], bll, line)]
    BY <2>1, <2>2, <2>3, <1>7, BlockLineDoes
  <2>5. n = p BY <2>2, <2>4, <1>7 DEF Registry, LabelsApart
  <2>6. ill' = ill BY <2>1, <2>3, BlockLineDoes
  <2>7. bll' = [bll EXCEPT ![p] = c] BY <2>2, <2>4, <2>5, <1>5
  <2> QED BY <2>6, <2>7, <1>1, <1>2, <1>9 DEF b, p
<1> QED BY <1>8, <1>9

(* ... and the labels stay where they are.                                 *)
LEMMA LabelsStay ==
    ASSUME bll \in Seq(Node), ill \in Seq(Node),
           NEW j \in 1 .. Size(nodes), NEW c \in Node,
           \/ j <= Len(ill) /\ ill' = [ill EXCEPT ![j] = c] /\ bll' = bll
           \/ /\ ~ (j <= Len(ill)) /\ ill' = ill
              /\ bll' = [bll EXCEPT ![j - Len(ill)] = c],
           c.id = At(nodes, j).id, c.label = At(nodes, j).label, NEW id
    PROVE  GetBlockLabelString(bll', ill', id) = GetBlockLabelString(bll, ill, id)
<1> DEFINE b == At(nodes, j)  p == j - Len(ill)
<1>1. /\ j <= Len(ill) => j \in DOMAIN ill /\ b = ill[j]
      /\ ~ (j <= Len(ill)) => p \in DOMAIN bll /\ b = bll[p]
  <2>1. nodes[1] = ill /\ nodes[2] = bll BY DEF nodes
  <2> QED BY <2>1, AtIs
<1>2. c.id = b.id /\ c.label = b.label OBVIOUS
<1> HIDE DEF b, nodes
<1>3. CASE j <= Len(ill) /\ ill' = [ill EXCEPT ![j] = c] /\ bll' = bll
  <2> DEFINE new == [ill EXCEPT ![j] = c]
  <2>1. j \in DOMAIN ill /\ b = ill[j] BY <1>1, <1>3
  <2>2. DOMAIN new = DOMAIN ill /\ \A m \in DOMAIN ill : new[m] = IF m = j THEN c ELSE ill[m]
    BY <2>1, SetOne
  <2>3. ill' = new BY <1>3
  <2> HIDE DEF new
  <2>4. \A n \in DOMAIN ill : new[n].id = ill[n].id /\ new[n].label = ill[n].label
    BY <1>2, <2>1, <2>2
  <2>5. GetBlockLabelString(bll, new, id) = GetBlockLabelString(bll, ill, id)
    BY <2>2, <2>4, SameLabels
  <2> QED BY <2>3, <2>5, <1>3
<1>4. CASE ~ (j <= Len(ill)) /\ ill' = ill /\ bll' = [bll EXCEPT ![p] = c]
  <2>1. p \in DOMAIN bll /\ b = bll[p] BY <1>1, <1>4
  <2> HIDE DEF p
  <2> DEFINE new == [bll EXCEPT ![p] = c]
  <2>2. DOMAIN new = DOMAIN bll /\ \A m \in DOMAIN bll : new[m] = IF m = p THEN c ELSE bll[m]
    BY <2>1, SetOne
  <2>3. bll' = new BY <1>4
  <2> HIDE DEF new
  <2>4. \A n \in DOMAIN bll : new[n].id = bll[n].id /\ new[n].label = bll[n].label
    BY <1>2, <2>1, <2>2
  <2>5. GetBlockLabelString(new, ill, id) = GetBlockLabelString(bll, ill, id)
    BY <2>2, <2>4, SameLabels
  <2> QED BY <2>3, <2>5, <1>4
<1> QED BY <1>3, <1>4 DEF p

(* A setting that a line tells shows what the line says.                   *)
LEMMA SettingTold ==
    ASSUME bll \in Seq(Node), ill \in Seq(Node), block_count \in 0 .. MaxNodes,
           Registry, IdsApart,
           NEW v \in Seq(FaceType) \X Seq(FaceType), Matches(v), Keepable(v),
           NEW j \in 1 .. Size(v), NEW line \in Line, Fits(At(v, j), line),
           NEW k \in KeysOf[At(v, j).cat], k = line.key,
           NEW b \in Node, Like(b, At(v, j)), NEW c, c = Configured(b, bll, line)
    PROVE  Shown(bll, ill, c, k) = At(v, j).settings[k]
<1> DEFINE f == At(v, j)
<1>1. /\ c.cat = b.cat
      /\ c.type = IF line.key = "type"
                  THEN BlockTypeStringArrayIndex(b.cat, line.val) ELSE b.type
      /\ line.key \in RefKeys(b.cat, b.type) =>
           c.settings[line.key] = GetBlockIDByLabel(bll, ill, line.val)
      /\ line.key \in KeysOf[b.cat] \ RefKeys(b.cat, b.type) =>
           c.settings[line.key] = Parsed(line.key, line.val)
  BY ConfiguredDoes
<1>2. /\ Storable(v) /\ v \in Seq(FaceType) \X Seq(FaceType)
      /\ IF k \in RefKeys(f.cat, f.type)
         THEN f.settings[k] # "unset" => Named(v, f.settings[k])
         ELSE f.settings[k] \in {"set", "unset"}
  BY Zenon DEF Keepable
<1>3. Fits(f, line) /\ Like(b, f) OBVIOUS
<1> HIDE DEF f
<1>4. b.cat = f.cat /\ b.type = f.type BY <1>3 DEF Like
<1>5. b.cat \in Category /\ k \in Key /\ k # "type" /\ k # "disable"
  <2>1. b.cat \in Category BY DEF Node
  <2> QED BY <2>1, <1>4, NoSettings DEF f
<1>6. /\ line.val = f.settings[k]
      /\ line.val = "unset" => k \notin RefKeys(f.cat, f.type) \cup {"language", "days"}
  BY <1>3, <1>5 DEF Fits
<1>7. c.type = b.type BY <1>1, <1>5
<1> DEFINE val == f.settings[k]
<1>8. CASE k \in RefKeys(f.cat, f.type)
  <2> DEFINE id == GetBlockIDByLabel(bll, ill, val)
  <2>1. c.settings[k] = id BY <1>1, <1>4, <1>6, <1>8
  <2>2. val # "unset" /\ Named(v, val) BY <1>2, <1>6, <1>8
  <2>3. id # UINT16_INIT /\ GetBlockLabelString(bll, ill, id) = val
    BY <1>2, <2>2, NameFound
  <2>4. k \in RefKeys(c.cat, c.type) BY <1>1, <1>4, <1>7, <1>8
  <2> HIDE DEF id, val
  <2>5. c.settings[k] # UINT16_INIT =>
          Shown(bll, ill, c, k) = GetBlockLabelString(bll, ill, c.settings[k])
    BY <2>4, ReferenceShown
  <2> QED BY <2>1, <2>3, <2>5 DEF val, f
<1>9. CASE k \notin RefKeys(f.cat, f.type)
  <2>1. c.settings[k] = Parsed(k, val) BY <1>1, <1>4, <1>6, <1>9 DEF f
  <2>2. val \in {"set", "unset"} BY <1>2, <1>9
  <2>3. val = "unset" => k \notin {"language", "days"} BY <1>6
  <2> HIDE DEF val
  <2>4. Parsed(k, val) = IF val = "set" THEN SET ELSE UINT16_INIT
    BY <1>5, <2>2, <2>3, PlainParsed
  <2>5. k \notin RefKeys(c.cat, c.type) BY <1>1, <1>4, <1>7, <1>9
  <2> DEFINE s == Shown(bll, ill, c, k)  x == c.settings[k]
  <2>7. x = IF val = "set" THEN SET ELSE UINT16_INIT BY <2>1, <2>4
  <2>9. x = c.settings[k] /\ s = Shown(bll, ill, c, k) OBVIOUS
  <2> HIDE DEF s, x
  <2>6. (x = UINT16_INIT <=> s = "unset") /\ (x = SET <=> s = "set")
    <3>1. Tells(x, s) BY <2>5, <2>9, PlainShown, Zenon
    <3> QED BY <3>1 DEF Tells
  <2>8. s = val BY <2>2, <2>6, <2>7
  <2> QED BY <2>8 DEF s, val, f
<1> QED BY <1>8, <1>9

(* What a line that sets the face at j does to the nodes.                  *)
LineTold(v, j, line) ==
    /\ bll' \in Seq(Node) /\ ill' \in Seq(Node) /\ Size(nodes') = Size(nodes)
    /\ Matches(v)'
    /\ \A id : GetBlockLabelString(bll', ill', id) = GetBlockLabelString(bll, ill, id)
    /\ \A i \in 1 .. Size(v) : \A k \in KeysOf[At(v, i).cat] :
         IF i = j /\ k = line.key
         THEN Shown(bll', ill', At(nodes', i), k) = At(v, i).settings[k]
         ELSE At(nodes', i).settings[k] = At(nodes, i).settings[k]

(* A line that fits a face does to the lists what the face says, and       *)
(* nothing else.                                                           *)
LEMMA LineTells ==
    ASSUME bll \in Seq(Node), ill \in Seq(Node), block_count \in 0 .. MaxNodes,
           Registry, IdsApart,
           NEW v \in Seq(FaceType) \X Seq(FaceType), Matches(v), Keepable(v),
           NEW line \in Line, Configure(line),
           NEW j \in 1 .. Size(v), Fits(At(v, j), line)
    PROVE  LineTold(v, j, line)
<1> DEFINE f == At(v, j)  b == At(nodes, j)  c == Configured(b, bll, line)
<1>0. c = Configured(At(nodes, j), bll, line) OBVIOUS
<1> HIDE DEF c
<1>1. /\ j \in 1 .. Size(nodes) /\ b \in Node
      /\ \/ j <= Len(ill) /\ ill' = [ill EXCEPT ![j] = c] /\ bll' = bll
         \/ /\ ~ (j <= Len(ill)) /\ ill' = ill
            /\ bll' = [bll EXCEPT ![j - Len(ill)] = c]
  BY <1>0, LineSets
<1>2. /\ c \in Node /\ c.id = b.id /\ c.label = b.label /\ c.cat = b.cat
      /\ \A k \in Key : k # line.key => c.settings[k] = b.settings[k]
      /\ c.type = IF line.key = "type"
                  THEN BlockTypeStringArrayIndex(b.cat, line.val) ELSE b.type
  <2>1. c = Configured(b, bll, line) /\ b \in Node BY <1>0, <1>1
  <2> HIDE DEF b
  <2> QED BY <2>1, ConfiguredDoes
<1>3. /\ bll' \in Seq(Node) /\ ill' \in Seq(Node)
      /\ Len(ill') = Len(ill) /\ Len(bll') = Len(bll) /\ Size(nodes') = Size(nodes)
      /\ \A i \in 1 .. Size(nodes) : At(nodes', i) = IF i = j THEN c ELSE At(nodes, i)
  BY <1>1, <1>2, OneNodeSet
<1>4. \A id : GetBlockLabelString(bll', ill', id) = GetBlockLabelString(bll, ill, id)
  BY <1>1, <1>2, LabelsStay
<1>5. Size(v) = Size(nodes) BY MatchesEach
<1>6. \A i \in 1 .. Size(v) : Like(At(nodes, i), At(v, i)) BY DEF Matches
<1>7. c.type = b.type
  <2>1. CASE line.key = "type"
    <3>1. Like(b, f) /\ Fits(f, line) BY <1>6
    <3> HIDE DEF b, f
    <3>2. b.cat \in Category /\ b.cat = f.cat /\ b.type = f.type
      BY <1>1, <3>1 DEF Like, Node
    <3>3. line.val = f.type BY <2>1, <3>1, <3>2, NoSettings DEF Fits
    <3>4. f.type \in TypesOf[f.cat]
      <4>1. \/ j \in DOMAIN v[1] /\ f = v[1][j]
            \/ j - Len(v[1]) \in DOMAIN v[2] /\ f = v[2][j - Len(v[1])]
        BY Sides DEF Side, f
      <4>2. StorableFace(f) BY <4>1 DEF Keepable, Storable
      <4> QED BY <4>2 DEF StorableFace
    <3> QED BY <1>2, <2>1, <3>2, <3>3, <3>4 DEF BlockTypeStringArrayIndex, b
  <2> QED BY <2>1, <1>2
<1>8. ASSUME NEW i \in 1 .. Size(v) PROVE Like(At(nodes', i), At(v, i))
  <2>1. CASE i = j
    <3>1. At(nodes', i) = c BY <2>1, <1>3, <1>5
    <3>2. Like(b, f) BY <1>6
    <3> QED BY <2>1, <3>1, <3>2, <1>2, <1>7 DEF Like
  <2>2. CASE i # j
    <3>1. At(nodes', i) = At(nodes, i) BY <2>2, <1>3, <1>5
    <3> QED BY <3>1, <1>6
  <2> QED BY <2>1, <2>2
<1>9. Matches(v)' BY <1>3, <1>8 DEF Matches
<1>10. ASSUME NEW i \in 1 .. Size(v), NEW k \in KeysOf[At(v, i).cat]
       PROVE  IF i = j /\ k = line.key
              THEN Shown(bll', ill', At(nodes', i), k) = At(v, i).settings[k]
              ELSE At(nodes', i).settings[k] = At(nodes, i).settings[k]
  <2>1. CASE i # j
    <3>1. At(nodes', i) = At(nodes, i) BY <2>1, <1>3, <1>5
    <3> QED BY <3>1, <2>1
  <2>2. CASE i = j /\ k # line.key
    <3>1. At(nodes', i) = c BY <2>2, <1>3, <1>5
    <3>2. k \in Key
      <4>1. Like(b, f) BY <1>6
      <4>2. f.cat \in Category BY <4>1, <1>1 DEF Like, Node
      <4> QED BY <4>2, <2>2, NoSettings
    <3> QED BY <2>2, <3>1, <3>2, <1>2
  <2>3. CASE i = j /\ k = line.key
    <3>1. At(nodes', i) = c BY <2>3, <1>3, <1>5
    <3>2. Like(b, f) BY <1>6
    <3>3. k \in KeysOf[f.cat] BY <2>3
    <3>4. Shown(bll, ill, c, k) = f.settings[k]
      BY <1>0, <1>1, <2>3, <3>2, <3>3, SettingTold
    <3>5. Shown(bll', ill', c, k) = Shown(bll, ill, c, k) BY <1>4, SameShown
    <3> QED BY <2>3, <3>1, <3>4, <3>5
  <2> QED BY <2>1, <2>2, <2>3
<1> QED BY <1>3, <1>4, <1>9, <1>10 DEF LineTold

(* A face of what is kept.                                                 *)
LEMMA KeptFace ==
    ASSUME NEW v, Keepable(v), NEW i \in 1 .. Size(v), NEW f, f = At(v, i)
    PROVE  /\ f \in FaceType /\ f.cat \in Category /\ f.label \in Label
           /\ f.type \in TypesOf[f.cat] /\ f.type # NoValue /\ TypeLine(f).val = f.type
           /\ DOMAIN f.settings = KeysOf[f.cat]
           /\ f.cat = "FF_INTERFACE" <=> i <= Len(v[1])
           /\ Len(v[1]) \in Nat /\ Len(v[2]) \in Nat /\ Size(v) = Len(v[1]) + Len(v[2])
           /\ \A j \in 1 .. Size(v) : At(v, j).label = f.label => i = j
<1> DEFINE x == v[1]  y == v[2]
<1>1. /\ v \in Seq(FaceType) \X Seq(FaceType) /\ Storable(v)
      /\ \A j \in 1 .. Size(v) : At(v, j).label = f.label => i = j
      /\ DOMAIN f.settings = KeysOf[f.cat]
      /\ f.cat = "FF_INTERFACE" <=> i <= Len(x)
  BY Zenon DEF Keepable
<1>2. x \in Seq(FaceType) /\ y \in Seq(FaceType) /\ v[1] = x /\ v[2] = y BY <1>1
<1> HIDE DEF x, y
<1>3. /\ Size(v) = Len(x) + Len(y) /\ Len(x) \in Nat /\ Len(y) \in Nat
      /\ f \in FaceType
      /\ i <= Len(x) => i \in DOMAIN x /\ f = x[i]
      /\ ~ (i <= Len(x)) => i - Len(x) \in DOMAIN y /\ f = y[i - Len(x)]
  BY <1>2, AtIs
<1>4. StorableFace(f)
  <2>1. CASE i <= Len(x) BY <2>1, <1>1, <1>2, <1>3 DEF Storable
  <2>2. CASE ~ (i <= Len(x))
    <3>1. i - Len(x) \in DOMAIN v[2] /\ f = v[2][i - Len(x)] BY <2>2, <1>2, <1>3
    <3> QED BY <3>1, <1>1 DEF Storable
  <2> QED BY <2>1, <2>2
<1>5. f.cat \in Category /\ f.label \in Label BY <1>3 DEF FaceType
<1>6. f.type \in TypesOf[f.cat] BY <1>4 DEF StorableFace
<1>7. \A c \in Category : NoValue \notin TypesOf[c] BY CategoriesKnown DEF TypesOf, NoValue
<1>8. f.type # NoValue BY <1>5, <1>6, <1>7
<1>9. TypeLine(f).val = f.type BY DEF TypeLine
<1> QED BY <1>1, <1>2, <1>3, <1>5, <1>6, <1>8, <1>9 DEF x, y

(* Nothing is told while faces are registered.                             *)
LEMMA NotToldYet ==
    ASSUME NEW v, NEW n \in Nat, Registered(v, file, n), NEW p \in Nat, p <= n,
           NEW f, NEW k \in Key
    PROVE  ~ Told(f, k, file, p)
<1>1. ASSUME NEW q \in 1 .. n PROVE file[q].key = "type"
  <2>1. file[q] = TypeLine(At(v, q)) BY DEF Registered
  <2>2. TypeLine(At(v, q)).key = "type" BY DEF TypeLine
  <2> QED BY <2>1, <2>2
<1>2. k # "type" BY NoSettings
<1>3. \A q \in 1 .. p : q \in 1 .. n OBVIOUS
<1> QED BY <1>1, <1>2, <1>3 DEF Told

(* A node is added to the end of the lists.                                *)
LEMMA OneNodeAdded ==
    ASSUME bll \in Seq(Node), ill \in Seq(Node), NEW c \in Node,
           \/ ill' = Append(ill, c) /\ bll' = bll /\ Len(bll) = 0
           \/ bll' = Append(bll, c) /\ ill' = ill
    PROVE  /\ Size(nodes') = Size(nodes) + 1 /\ Size(nodes) \in Nat
           /\ At(nodes', Size(nodes) + 1) = c
           /\ \A i \in 1 .. Size(nodes) : At(nodes', i) = At(nodes, i)
<1> DEFINE x == nodes  y == nodes'
<1>1. x[1] = ill /\ x[2] = bll /\ y[1] = ill' /\ y[2] = bll' BY DEF nodes
<1>2. x = nodes /\ y = nodes' OBVIOUS
<1> HIDE DEF x, y
<1> DEFINE l == Len(ill)  m == Len(bll)
<1>3. /\ Size(x) = l + m /\ l \in Nat /\ DOMAIN ill = 1 .. l
      /\ m \in Nat /\ DOMAIN bll = 1 .. m
  BY <1>1, AtIs
<1>4. \A i : At(x, i) = IF i <= l THEN ill[i] ELSE bll[i - l] BY <1>1 DEF At
<1>5. \A i : At(y, i) = IF i <= Len(ill') THEN ill'[i] ELSE bll'[i - Len(ill')]
  BY <1>1 DEF At
<1>6. Size(y) = Len(ill') + Len(bll') BY <1>1 DEF Size
<1> HIDE DEF l, m
<1>7. CASE ill' = Append(ill, c) /\ bll' = bll /\ m = 0
  <2> DEFINE new == Append(ill, c)
  <2>1. /\ Len(new) = l + 1 /\ new[l + 1] = c
        /\ \A i \in 1 .. l : new[i] = ill[i]
    BY AddOne DEF l
  <2>2. ill' = new BY <1>7
  <2> HIDE DEF new
  <2>3. Size(y) = Size(x) + 1 /\ Size(x) = l
    BY <2>1, <2>2, <1>3, <1>6, <1>7 DEF m
  <2>4. At(y, l + 1) = c BY <2>1, <2>2, <1>3, <1>5
  <2>5. ASSUME NEW i \in 1 .. l PROVE At(y, i) = At(x, i)
    <3>1. i <= l /\ i <= l + 1 BY <1>3
    <3>2. At(x, i) = ill[i] BY <3>1, <1>4
    <3>3. At(y, i) = new[i] BY <3>1, <2>1, <2>2, <1>5
    <3> QED BY <3>2, <3>3, <2>1
  <2> QED BY <2>3, <2>4, <2>5, <1>2, <1>3
<1>8. CASE bll' = Append(bll, c) /\ ill' = ill
  <2> DEFINE new == Append(bll, c)
  <2>1. /\ Len(new) = m + 1 /\ new[m + 1] = c
        /\ \A i \in 1 .. m : new[i] = bll[i]
    BY AddOne DEF m
  <2>2. bll' = new BY <1>8
  <2> HIDE DEF new
  <2>3. Size(y) = Size(x) + 1 /\ Size(x) + 1 = (l + m) + 1
    BY <2>1, <2>2, <1>3, <1>6, <1>8 DEF l
  <2>4. At(y, (l + m) + 1) = c
    <3>1. ~ ((l + m) + 1 <= l) /\ ((l + m) + 1) - l = m + 1 BY <1>3
    <3> QED BY <3>1, <2>1, <2>2, <1>5, <1>8 DEF l
  <2>5. ASSUME NEW i \in 1 .. l + m PROVE At(y, i) = At(x, i)
    <3>1. CASE i <= l BY <3>1, <1>4, <1>5, <1>8 DEF l
    <3>2. CASE ~ (i <= l)
      <4>1. i - l \in 1 .. m BY <3>2, <1>3
      <4> QED BY <4>1, <3>2, <2>1, <2>2, <1>4, <1>5, <1>8 DEF l
    <3> QED BY <3>1, <3>2
  <2> QED BY <2>3, <2>4, <2>5, <1>2, <1>3
<1> QED BY <1>7, <1>8 DEF m

(* A face is registered: a new node is like it, and has no settings yet.   *)
LEMMA FaceRegistered ==
    ASSUME bll \in Seq(Node), ill \in Seq(Node), pos \in Nat,
           NEW v, Keepable(v), Registered(v, file, Size(v)), Loaded(v), pos < Size(v),
           NEW f, f = At(v, pos + 1), NEW c \in Node, Like(c, f),
           \A k \in KeysOf[f.cat] : c.settings[k] = Fresh(f.cat)[k],
           \/ ill' = Append(ill, c) /\ bll' = bll /\ Len(bll) = 0
           \/ bll' = Append(bll, c) /\ ill' = ill,
           Len(ill') = Least(pos + 1, Len(v[1])), pos' = pos + 1, file' = file
    PROVE  Loaded(v)'
<1>1. pos + 1 \in 1 .. Size(v) /\ Size(v) \in Nat
  <2>1. v \in Seq(FaceType) \X Seq(FaceType) BY DEF Keepable
  <2>2. Size(v) \in Nat BY <2>1, Sizes
  <2> QED BY <2>2
<1>2. Least(pos, Size(v)) = pos /\ Least(pos + 1, Size(v)) = pos + 1 BY <1>1 DEF Least
<1>3. /\ Size(nodes) = pos
      /\ \A i \in 1 .. pos : Loads(bll, ill, file, pos, At(nodes, i), At(v, i))
  BY <1>2 DEF Loaded
<1>4. /\ Size(nodes') = Size(nodes) + 1 /\ At(nodes', Size(nodes) + 1) = c
      /\ \A i \in 1 .. Size(nodes) : At(nodes', i) = At(nodes, i)
  BY OneNodeAdded
<1>5. ASSUME NEW i \in 1 .. Size(v), NEW k \in KeysOf[At(v, i).cat]
      PROVE  ~ Told(At(v, i), k, file, pos) /\ ~ Told(At(v, i), k, file, pos + 1)
  <2>1. At(v, i).cat \in Category BY KeptFace
  <2>2. k \in Key BY <2>1, NoSettings
  <2> QED BY <2>2, <1>1, NotToldYet
<1>6. ASSUME NEW i \in 1 .. pos + 1
      PROVE  Loads(bll', ill', file', pos', At(nodes', i), At(v, i))
  <2>1. i \in 1 .. Size(v) BY <1>1
  <2>2. CASE i \in 1 .. pos
    <3>1. At(nodes', i) = At(nodes, i) BY <2>2, <1>3, <1>4
    <3>2. Loads(bll, ill, file, pos, At(nodes, i), At(v, i)) BY <2>2, <1>3
    <3>3. \A k \in KeysOf[At(v, i).cat] :
            ~ Told(At(v, i), k, file, pos) /\ ~ Told(At(v, i), k, file, pos + 1)
      BY <2>1, <1>5
    <3> QED BY <3>1, <3>2, <3>3 DEF Loads
  <2>3. CASE i = pos + 1
    <3>1. At(nodes', i) = c BY <2>3, <1>3, <1>4
    <3>2. \A k \in KeysOf[At(v, i).cat] : ~ Told(At(v, i), k, file, pos + 1)
      BY <2>1, <1>5
    <3> QED BY <2>3, <3>1, <3>2 DEF Loads, Like
  <2> QED BY <2>2, <2>3, <1>1
<1>7. Least(pos', Size(v)) = pos + 1 BY <1>2
<1>8. Size(nodes') = pos + 1 BY <1>3, <1>4
<1> QED BY <1>6, <1>7, <1>8 DEF Loaded

(* Node c is b but for its type.                                           *)
Typed(b, c, val) ==
    /\ c \in Node /\ c.label = b.label /\ c.cat = b.cat
    /\ c.type = BlockTypeStringArrayIndex(b.cat, val)
    /\ c.settings = b.settings

(* A line that gives a node its type changes nothing else.                 *)
LEMMA TypeSet ==
    ASSUME ill \in Seq(Node), NEW blocks \in Seq(Node), NEW b \in Node,
           NEW line \in Line, line.key = "type"
    PROVE  Typed(b, Configured(b, blocks, line), line.val)
<1> DEFINE c == Configured(b, blocks, line)
<1>1. c = Configured(b, blocks, line) OBVIOUS
<1> HIDE DEF c
<1>2. /\ c \in Node /\ c.id = b.id /\ c.label = b.label /\ c.cat = b.cat
      /\ c.type = IF line.key = "type"
                  THEN BlockTypeStringArrayIndex(b.cat, line.val) ELSE b.type
      /\ line.key \notin RefKeys(b.cat, b.type) \cup KeysOf[b.cat] =>
           c.settings = b.settings
  BY <1>1, ConfiguredDoes
<1>3. b.cat \in Category BY DEF Node
<1>4. "type" \notin RefKeys(b.cat, b.type) \cup KeysOf[b.cat]
  BY <1>3, NoSettings, RefKeysAreKeys
<1> QED BY <1>1, <1>2, <1>4 DEF Typed

(* A line of the first part of the file registers a face.                  *)
LEMMA LoadRegisters ==
    ASSUME TypeOK, Registry, FileSound, LoadLine,
           NEW v, Keepable(v), Registered(v, file, Size(v)), Loaded(v), pos < Size(v)
    PROVE  Loaded(v)'
<1> DEFINE f == At(v, pos + 1)  line == file[pos + 1]
<1>1. /\ bll \in Seq(Node) /\ ill \in Seq(Node) /\ pos \in Nat /\ block_count \in Nat
  BY DEF TypeOK
<1>2. pos' = pos + 1 /\ file' = file BY DEF LoadLine
<1>3. Size(v) \in Nat
  <2>1. v \in Seq(FaceType) \X Seq(FaceType) BY DEF Keepable
  <2> QED BY <2>1, Sizes
<1>4. pos + 1 \in 1 .. Size(v) BY <1>1, <1>3
<1>5. /\ f \in FaceType /\ f.cat \in Category /\ f.label \in Label
      /\ f.type \in TypesOf[f.cat] /\ f.type # NoValue
      /\ f.cat = "FF_INTERFACE" <=> pos + 1 <= Len(v[1])
      /\ Len(v[1]) \in Nat /\ Len(v[2]) \in Nat /\ Size(v) = Len(v[1]) + Len(v[2])
      /\ \A j \in 1 .. Size(v) : At(v, j).label = f.label => pos + 1 = j
  <2>1. f = At(v, pos + 1) OBVIOUS
  <2> HIDE DEF f
  <2>2. /\ f \in FaceType /\ f.cat \in Category /\ f.label \in Label
        /\ f.type \in TypesOf[f.cat] /\ f.type # NoValue
        /\ f.cat = "FF_INTERFACE" <=> pos + 1 <= Len(v[1])
        /\ Len(v[1]) \in Nat /\ Len(v[2]) \in Nat /\ Size(v) = Len(v[1]) + Len(v[2])
    BY <1>4, <2>1, KeptFace, ZenonT(60)
  <2>3. \A j \in 1 .. Size(v) : At(v, j).label = f.label => pos + 1 = j
    BY <1>4, <2>1, KeptFace, ZenonT(60)
  <2> QED BY <2>2, <2>3
<1>6. line \in Line /\ SoundLine(line) /\ ConfigParse(line) BY LineRead DEF FileSound
<1>7. line = TypeLine(f) BY <1>4 DEF Registered
<1>8. /\ line.cat = f.cat /\ line.label = f.label /\ line.key = "type" /\ line.val = f.type
  BY <1>7 DEF TypeLine
<1>9. Configure(line) BY <1>5, <1>6, <1>8 DEF ConfigParse
<1>10. /\ Size(nodes) = pos /\ Len(ill) = Least(pos, Len(v[1]))
       /\ \A i \in 1 .. pos : Loads(bll, ill, file, pos, At(nodes, i), At(v, i))
  <2>1. Least(pos, Size(v)) = pos BY <1>1, <1>3 DEF Least
  <2> QED BY <2>1 DEF Loaded
<1>11. /\ Size(nodes) = Len(ill) + Len(bll) /\ Len(ill) \in Nat /\ Len(bll) \in Nat
       /\ \A n \in DOMAIN ill : n \in 1 .. Size(nodes) /\ At(nodes, n) = ill[n]
       /\ \A n \in DOMAIN bll : n + Len(ill) \in 1 .. Size(nodes) /\ At(nodes, n + Len(ill)) = bll[n]
  <2>1. nodes[1] = ill /\ nodes[2] = bll BY DEF nodes
  <2> HIDE DEF nodes
  <2> QED BY <2>1, <1>1, AtIs
<1> HIDE DEF f, line
<1>12. \A i \in 1 .. pos : At(nodes, i).label # f.label
  <2> SUFFICES ASSUME NEW i \in 1 .. pos, At(nodes, i).label = f.label PROVE FALSE OBVIOUS
  <2>1. At(v, i).label = f.label BY <1>10 DEF Loads
  <2>2. i \in 1 .. Size(v) /\ i # pos + 1 BY <1>1, <1>3, <1>4
  <2> QED BY <2>1, <2>2, <1>5
<1>13. \A n \in DOMAIN ill : ill[n].label # line.label BY <1>8, <1>10, <1>11, <1>12
<1>14. \A n \in DOMAIN bll : bll[n].label # line.label BY <1>8, <1>10, <1>11, <1>12
<1>15. CASE f.cat = "FF_INTERFACE"
  <2> DEFINE c == NewInterfaceNode(line.val, line.label)
  <2>1. ConfigureInterface(line) BY <1>8, <1>9, <1>15 DEF Configure
  <2>2. line.val \in TypesOf.FF_INTERFACE BY <1>5, <1>8, <1>15
  <2>3. ill' = Append(ill, c) /\ bll' = bll BY <1>1, <1>8, <1>13, <2>1, <2>2, InterfaceLineDoes
  <2>4. line.val \in GivenTypes(line.label) BY <1>6, <1>8, <1>15, <2>2 DEF SoundLine
  <2>5. /\ c \in Node /\ c.label = line.label /\ c.type = line.val
        /\ c.settings = NewIFSettings /\ c.cat = "FF_INTERFACE"
    <3>1. line.label \in Label BY <1>5, <1>8
    <3> QED BY <3>1, <2>4, <1>1, NewInterfaceSound
  <2> HIDE DEF c
  <2>6. Len(ill) = pos /\ Len(bll) = 0 /\ Least(pos + 1, Len(v[1])) = pos + 1
    BY <1>1, <1>5, <1>10, <1>11, <1>15 DEF Least
  <2>7. Len(ill') = pos + 1
    <3> DEFINE new == Append(ill, c)
    <3>1. Len(new) = Len(ill) + 1 BY <1>1, <2>5, AddOne
    <3>2. ill' = new BY <2>3
    <3> HIDE DEF new
    <3> QED BY <3>1, <3>2, <2>6
  <2>8. Like(c, f) BY <2>5, <1>8, <1>15 DEF Like
  <2>9. \A k \in KeysOf[f.cat] : c.settings[k] = Fresh(f.cat)[k]
    BY <2>5, <1>15 DEF Fresh
  <2> QED BY <1>1, <1>2, <2>3, <2>5, <2>6, <2>7, <2>8, <2>9, FaceRegistered DEF f
<1>16. CASE f.cat # "FF_INTERFACE"
  <2> DEFINE b == NewBlockNode(line.cat, line.label)
             blocks == Append(bll, b)
             c == Configured(b, blocks, line)
  <2>1. ConfigureBlock(line) /\ line.cat # "FF_INTERFACE" BY <1>8, <1>9, <1>16 DEF Configure
  <2>2. ill' = ill /\ bll' = Append(bll, c)
    BY <1>1, <1>6, <1>14, <2>1, BlockLineDoes
  <2>3. b \in Node /\ b.label = line.label /\ b.cat = line.cat /\ b.settings = NewBlockSettings
    <3>1. line.label \in Label /\ line.cat \in Category BY <1>5, <1>8
    <3> QED BY <3>1, <2>1, <1>1, NewBlockSound
  <2> HIDE DEF b
  <2>4. blocks \in Seq(Node) BY <2>3, <1>1
  <2> HIDE DEF blocks
  <2>5. c = Configured(b, blocks, line) OBVIOUS
  <2> HIDE DEF c
  <2>6. /\ c \in Node /\ c.label = b.label /\ c.cat = b.cat
        /\ c.type = BlockTypeStringArrayIndex(b.cat, line.val)
        /\ c.settings = b.settings
    <3>1. line \in Line /\ line.key = "type" BY <1>6, <1>8
    <3>2. Typed(b, Configured(b, blocks, line), line.val)
      BY <1>1, <2>3, <2>4, <3>1, TypeSet
    <3> QED BY <2>5, <3>2 DEF Typed
  <2>7. c.type = f.type BY <2>3, <2>6, <1>5, <1>8 DEF BlockTypeStringArrayIndex
  <2>8. c.settings = NewBlockSettings BY <2>3, <2>6
  <2>9. Like(c, f) BY <2>3, <2>6, <2>7, <1>8 DEF Like
  <2>10. \A k \in KeysOf[f.cat] : c.settings[k] = Fresh(f.cat)[k]
    BY <2>8, <1>16 DEF Fresh
  <2>11. Len(ill') = Least(pos + 1, Len(v[1]))
    BY <2>2, <1>1, <1>5, <1>10, <1>16 DEF Least
  <2> QED BY <1>1, <1>2, <2>2, <2>6, <2>9, <2>10, <2>11, FaceRegistered DEF f
<1> QED BY <1>15, <1>16

(* A line after those changes what it tells, and nothing else.             *)
LEMMA LoadTells ==
    ASSUME TypeOK, Registry, IdsApart, LoadLine,
           NEW v, Keepable(v), AllFit(v, file), Loaded(v), ~ (pos < Size(v))
    PROVE  Loaded(v)'
<1>1. /\ bll \in Seq(Node) /\ ill \in Seq(Node) /\ pos \in Nat
      /\ block_count \in 0 .. MaxNodes
  BY DEF TypeOK
<1>2. pos' = pos + 1 /\ file' = file BY DEF LoadLine
<1>3. /\ v \in Seq(FaceType) \X Seq(FaceType)
      /\ Len(v[1]) \in Nat /\ Len(v[2]) \in Nat /\ Size(v) = Len(v[1]) + Len(v[2])
  <2>1. v \in Seq(FaceType) \X Seq(FaceType) BY DEF Keepable
  <2> QED BY <2>1, Sizes
<1>4. /\ Least(pos, Size(v)) = Size(v) /\ Least(pos + 1, Size(v)) = Size(v)
      /\ Least(Size(v), Len(v[1])) = Len(v[1])
  <2> DEFINE n == Size(v)  m == Len(v[1])  o == Len(v[2])
  <2>1. n = m + o /\ m \in Nat /\ o \in Nat /\ ~ (pos < n) BY <1>3
  <2> HIDE DEF n, m, o
  <2>2. Least(pos, n) = n /\ Least(pos + 1, n) = n /\ Least(n, m) = m
    BY <2>1, <1>1 DEF Least
  <2> QED BY <2>2 DEF n, m
<1>5. /\ Size(nodes) = Size(v) /\ Len(ill) = Len(v[1])
      /\ \A i \in 1 .. Size(v) : Loads(bll, ill, file, pos, At(nodes, i), At(v, i))
  BY <1>4 DEF Loaded
<1>6. Matches(v)
  <2>1. Size(nodes) = Len(ill) + Len(bll) /\ Len(bll) \in Nat
    <3>1. nodes[1] = ill /\ nodes[2] = bll BY DEF nodes
    <3> HIDE DEF nodes
    <3> QED BY <3>1, <1>1, AtIs
  <2>2. Len(bll) = Len(v[2]) BY <2>1, <1>3, <1>5
  <2>3. \A i \in 1 .. Size(v) : Like(At(nodes, i), At(v, i)) BY <1>5 DEF Loads, Like
  <2> QED BY <2>2, <2>3, <1>5 DEF Matches
<1>7. PICK line : line = file[pos + 1] OBVIOUS
<1>8. line \in Line /\ pos + 1 \in DOMAIN file /\ ConfigParse(line) BY <1>7, LineRead
<1>9. ASSUME NEW f, NEW k
      PROVE  Told(f, k, file, pos + 1) <=>
               \/ Told(f, k, file, pos)
               \/ line.label = f.label /\ line.key = k /\ line.val # NoValue
  <2>1. 1 .. pos + 1 = (1 .. pos) \cup {pos + 1} BY <1>1
  <2> QED BY <2>1, <1>7 DEF Told
<1>10. CASE line.val = NoValue
  <2>1. bll' = bll /\ ill' = ill BY <1>8, <1>10 DEF ConfigParse, lists
  <2>2. nodes' = nodes BY <2>1 DEF nodes
  <2>3. ASSUME NEW i \in 1 .. Size(v)
        PROVE  Loads(bll', ill', file', pos', At(nodes', i), At(v, i))
    <3>1. Loads(bll, ill, file, pos, At(nodes, i), At(v, i)) BY <1>5
    <3>2. \A k : Told(At(v, i), k, file, pos + 1) <=> Told(At(v, i), k, file, pos)
      BY <1>9, <1>10
    <3> QED BY <3>1, <3>2, <2>1, <2>2, <1>2 DEF Loads
  <2> QED BY <2>1, <2>2, <2>3, <1>2, <1>4, <1>5 DEF Loaded
<1>11. CASE line.val # NoValue
  <2>1. Configure(line) BY <1>8, <1>11 DEF ConfigParse
  <2>2. PICK j \in 1 .. Size(v) : Fits(At(v, j), line) BY <1>7, <1>8, <1>11 DEF AllFit
  <2>3. LineTold(v, j, line) BY <1>1, <1>3, <1>6, <1>8, <2>1, <2>2, LineTells
  <2>4. /\ Len(ill') = Len(v[1]) /\ Size(nodes') = Size(v)
        /\ \A i \in 1 .. Size(v) : Like(At(nodes', i), At(v, i))
    BY <2>3, <1>5 DEF LineTold, Matches
  <2>5. ASSUME NEW i \in 1 .. Size(v)
        PROVE  Loads(bll', ill', file', pos', At(nodes', i), At(v, i))
    <3> DEFINE f == At(v, i)  b == At(nodes, i)  c == At(nodes', i)
    <3>1. Loads(bll, ill, file, pos, b, f) /\ Like(b, f) /\ Like(c, f)
      BY <1>5, <1>6, <2>4 DEF Matches
    <3>2. ASSUME NEW k \in KeysOf[f.cat]
          PROVE  IF Told(f, k, file, pos + 1)
                 THEN Shown(bll', ill', c, k) = f.settings[k]
                 ELSE c.settings[k] = Fresh(f.cat)[k]
      <4>1. IF i = j /\ k = line.key
            THEN Shown(bll', ill', c, k) = f.settings[k]
            ELSE c.settings[k] = b.settings[k]
        BY <2>3 DEF LineTold
      <4>2. CASE i = j /\ k = line.key
        <5>1. line.label = f.label BY <2>2, <4>2 DEF Fits
        <5>2. Told(f, k, file, pos + 1) BY <5>1, <4>2, <1>9, <1>11
        <5> QED BY <4>1, <4>2, <5>2
      <4>3. CASE ~ (i = j /\ k = line.key)
        <5>1. line.label = At(v, j).label BY <2>2 DEF Fits
        <5>2. line.label = f.label => i = j BY <5>1 DEF Keepable
        <5>3. Told(f, k, file, pos + 1) <=> Told(f, k, file, pos)
          BY <5>2, <4>3, <1>9
        <5>4. c.settings[k] = b.settings[k] BY <4>1, <4>3
        <5>5. c.cat = b.cat /\ c.type = b.type BY <3>1 DEF Like
        <5>6. \A id : GetBlockLabelString(bll', ill', id) = GetBlockLabelString(bll, ill, id)
          BY <2>3 DEF LineTold
        <5> HIDE DEF f, b, c
        <5>7. Shown(bll', ill', c, k) = Shown(bll, ill, b, k)
          BY <5>4, <5>5, <5>6, SameShown
        <5>8. IF Told(f, k, file, pos) THEN Shown(bll, ill, b, k) = f.settings[k]
                                       ELSE b.settings[k] = Fresh(f.cat)[k]
          BY <3>1 DEF Loads
        <5> QED BY <5>3, <5>4, <5>7, <5>8
      <4> QED BY <4>2, <4>3
    <3> HIDE DEF f, b, c
    <3>3. Loads(bll', ill', file', pos', c, f) BY <3>1, <3>2, <1>2 DEF Loads, Like
    <3> QED BY <3>3 DEF c, f
  <2> QED BY <2>4, <2>5, <1>2, <1>4 DEF Loaded
<1> QED BY <1>10, <1>11

(* A boot brings back what the file holds.                                 *)
LEMMA LoadInvKept ==
    ASSUME TypeOK, Registry, IdsApart, FileSound, Modes, StoredInv, LoadInv, [Next]_vars
    PROVE  LoadInv'
<1>1. ASSUME NEW v, v = saved, v # Torn, mode' = "load"
      PROVE  saved' = saved /\ Loaded(v)'
  <2>1. mode # "save" \/ SaveNode \/ SaveDone \/ PowerLoss
    BY <1>1 DEF Next, vars, PowerOn, InitConfigLoad, LoadLine, BootDone, Console,
       RegConfigLine, RegConfigDeleteBID, RegConfigDeleteBlockLabel, RegConfigClear, RegAdmin,
       RegAdminInterface, RegIFOneWireAssign, RegConfigSave, RegConfigLoad, ReloadDone,
       RegSystemReboot
  <2>2. mode # "save" BY <2>1, <1>1 DEF SaveNode, SaveDone, PowerLoss
  <2>3. Stores(v, file) BY <2>2, <1>1 DEF StoredInv
  <2>4. Keepable(v) /\ Registered(v, file, Size(v)) /\ AllFit(v, file)
    BY <2>3 DEF Stores
  <2>5. Size(v) \in Nat /\ Len(v[1]) \in Nat
    <3>1. v \in Seq(FaceType) \X Seq(FaceType) BY <2>4 DEF Keepable
    <3> QED BY <3>1, Sizes
  <2>6. CASE PowerOn
    <3>1. /\ bll' = <<>> /\ ill' = <<>> /\ pos' = 0 /\ saved' = saved
      BY <2>6 DEF PowerOn, InitConfigLoad, lists, Modes
    <3>2. Least(0, Size(v)) = 0 /\ Least(0, Len(v[1])) = 0 BY <2>5 DEF Least
    <3>3. Len(ill') = 0 /\ Size(nodes') = 0 BY <3>1 DEF nodes, Size
    <3>4. 1 .. 0 = {} OBVIOUS
    <3> QED BY <3>1, <3>2, <3>3, <3>4 DEF Loaded
  <2>7. CASE LoadLine
    <3>1. mode = "load" /\ saved' = saved BY <2>7, <1>1 DEF LoadLine
    <3>2. Loaded(v) BY <3>1, <1>1 DEF LoadInv
    <3>3. CASE pos < Size(v) BY <3>1, <3>2, <3>3, <2>4, <2>7, LoadRegisters
    <3>4. CASE ~ (pos < Size(v)) BY <3>1, <3>2, <3>4, <2>4, <2>7, LoadTells
    <3> QED BY <3>3, <3>4
  <2>8. CASE UNCHANGED vars
    <3>1. /\ mode = "load" /\ saved' = saved /\ bll' = bll /\ ill' = ill
          /\ file' = file /\ pos' = pos
      BY <2>8, <1>1 DEF vars
    <3>2. Loaded(v) BY <3>1, <1>1 DEF LoadInv
    <3>3. nodes' = nodes BY <3>1 DEF nodes
    <3> QED BY <3>1, <3>2, <3>3 DEF Loaded
  <2>9. PowerOn \/ LoadLine \/ UNCHANGED vars
    BY <2>2, <1>1 DEF Next, BootDone, Console, InitConfigLoad,
       RegConfigLine, RegConfigDeleteBID, RegConfigDeleteBlockLabel, RegConfigClear, RegAdmin,
       RegAdminInterface, RegIFOneWireAssign, RegConfigSave, SaveNode, SaveDone,
       RegConfigLoad, ReloadDone, RegSystemReboot, PowerLoss
  <2> QED BY <2>6, <2>7, <2>8, <2>9
<1>2. mode' = "load" => saved' = saved
  BY DEF Next, vars, PowerOn, InitConfigLoad, LoadLine, BootDone, Console,
     RegConfigLine, RegConfigDeleteBID, RegConfigDeleteBlockLabel, RegConfigClear, RegAdmin,
     RegAdminInterface, RegIFOneWireAssign, RegConfigSave, SaveNode, SaveDone,
     RegConfigLoad, ReloadDone, RegSystemReboot, PowerLoss
<1>3. PICK v : v = saved OBVIOUS
<1> QED BY <1>1, <1>2, <1>3 DEF LoadInv, Loaded

(* ... all of it, when the last line has been read.                        *)
LEMMA BootShows ==
    ASSUME TypeOK, BootDone, StoredInv, LoadInv, NEW v, v = saved, v # Torn
    PROVE  View' = v
<1>1. bll \in Seq(Node) /\ ill \in Seq(Node) BY DEF TypeOK
<1>2. mode = "load" /\ pos = Len(file) BY DEF BootDone
<1>3. Stores(v, file) /\ Loaded(v) BY <1>2 DEF StoredInv, LoadInv
<1>4. /\ Keepable(v) /\ Len(file) >= Size(v) /\ Complete(v, file, Size(v))
      /\ v \in Seq(FaceType) \X Seq(FaceType)
  BY <1>3 DEF Stores, Registered, Keepable
<1>5. Len(v[1]) \in Nat /\ Len(v[2]) \in Nat /\ Size(v) = Len(v[1]) + Len(v[2])
  BY <1>4, Sizes
<1>6. Least(pos, Size(v)) = Size(v) /\ Least(Size(v), Len(v[1])) = Len(v[1])
  <2> DEFINE n == Size(v)  m == Len(v[1])  o == Len(v[2])
  <2>1. n = m + o /\ m \in Nat /\ o \in Nat BY <1>5
  <2>2. pos >= n /\ pos \in Nat BY <1>2, <1>4 DEF TypeOK
  <2> HIDE DEF n, m, o
  <2>3. Least(pos, n) = n /\ Least(n, m) = m BY <2>1, <2>2 DEF Least
  <2> QED BY <2>3 DEF n, m
<1>7. /\ Size(nodes) = Size(v) /\ Len(ill) = Len(v[1])
      /\ \A i \in 1 .. Size(v) : Loads(bll, ill, file, pos, At(nodes, i), At(v, i))
  BY <1>3, <1>6 DEF Loaded
<1>8. Len(bll) = Len(v[2])
  <2>1. nodes[1] = ill /\ nodes[2] = bll BY DEF nodes
  <2> HIDE DEF nodes
  <2>2. Size(nodes) = Len(ill) + Len(bll) /\ Len(bll) \in Nat BY <2>1, <1>1, AtIs
  <2> QED BY <2>2, <1>5, <1>7
<1>9. ASSUME NEW i \in 1 .. Size(v) PROVE FaceIn(bll, ill, At(nodes, i)) = At(v, i)
  <2> DEFINE f == At(v, i)  b == At(nodes, i)
  <2>1. f \in FaceType /\ f.cat \in Category /\ DOMAIN f.settings = KeysOf[f.cat]
    BY <1>4, <1>9, KeptFace, ZenonT(60)
  <2>2. Loads(bll, ill, file, pos, b, f) BY <1>7
  <2>3. \A k \in KeysOf[f.cat] : Told(f, k, file, pos) \/ f.settings[k] = FreshText(f.cat, k)
    BY <1>2, <1>4 DEF Complete
  <2> HIDE DEF f, b
  <2>4. ASSUME NEW k \in KeysOf[f.cat] PROVE Shown(bll, ill, b, k) = f.settings[k]
    <3>1. CASE Told(f, k, file, pos) BY <3>1, <2>2 DEF Loads
    <3>2. CASE ~ Told(f, k, file, pos)
      <4>1. b.settings[k] = Fresh(f.cat)[k] /\ f.settings[k] = FreshText(f.cat, k)
        BY <3>2, <2>2, <2>3 DEF Loads
      <4>2. k \in Key BY <2>1, NoSettings
      <4>3. b.cat = f.cat BY <2>2 DEF Loads
      <4>4. CASE FreshText(f.cat, k) = "unset"
        <5>1. b.settings[k] = UINT16_INIT BY <4>1, <4>2, <4>4, FreshShown
        <5> QED BY <5>1, <4>1, <4>4 DEF Shown
      <4>5. CASE FreshText(f.cat, k) = "set"
        <5>1. b.settings[k] = SET BY <4>1, <4>2, <4>5, FreshShown
        <5>2. k \in PresetKeys BY <4>2, <4>5, FreshShown
        <5>3. k \notin RefKeys(b.cat, b.type) BY <5>2 DEF PresetKeys, RefKeys
        <5>4. Tells(b.settings[k], Shown(bll, ill, b, k)) BY <5>3, PlainShown
        <5> QED BY <5>1, <5>4, <4>1, <4>5 DEF Tells
      <4>6. FreshText(f.cat, k) \in {"set", "unset"} BY DEF FreshText
      <4> QED BY <4>4, <4>5, <4>6
    <3> QED BY <3>1, <3>2
  <2>5. b.label = f.label /\ b.cat = f.cat /\ b.type = f.type BY <2>2 DEF Loads
  <2>6. FaceIn(bll, ill, b) = f BY <2>1, <2>4, <2>5, FaceIs
  <2> QED BY <2>6 DEF f, b
<1>10. View = v
  <2>1. nodes = <<ill, bll>> BY DEF nodes
  <2> HIDE DEF nodes
  <2>2. Bears(bll, ill, v) BY <2>1, <1>7, <1>8, <1>9 DEF Bears
  <2>3. Faces(bll, ill) = v BY <2>2, <1>1, <1>4, ViewFrom
  <2> QED BY <2>3, ViewIs DEF Faces
<1>11. View' = View BY BootSame, SameFaces
<1> QED BY <1>10, <1>11

(* A line of what is kept changes nothing of it, when it is already there. *)
LEMMA ReloadStays ==
    ASSUME TypeOK, Registry, IdsApart, StoredInv, [Next]_vars,
           mode = "reload", mode' = "reload", NEW v, v = View, v = saved
    PROVE  View' = v
<1>1. bll \in Seq(Node) /\ ill \in Seq(Node) /\ block_count \in 0 .. MaxNodes BY DEF TypeOK
<1>2. LoadLine \/ UNCHANGED vars
  BY DEF Next, PowerOn, BootDone, Console, InitConfigLoad,
     RegConfigLine, RegConfigDeleteBID, RegConfigDeleteBlockLabel, RegConfigClear, RegAdmin,
     RegAdminInterface, RegIFOneWireAssign, RegConfigSave, SaveNode, SaveDone,
     RegConfigLoad, ReloadDone, RegSystemReboot, PowerLoss
<1>3. CASE UNCHANGED vars
  <2>1. bll' = bll /\ ill' = ill BY <1>3 DEF vars
  <2> QED BY <2>1, ViewStays
<1>4. CASE LoadLine
  <2>1. /\ v \in Seq(FaceType) \X Seq(FaceType) /\ v \in Seq(Seq(FaceType))
        /\ Len(v[1]) = Len(ill) /\ Len(v[2]) = Len(bll) /\ Size(v) = Size(nodes)
    BY <1>1, Seen
  <2>2. v # Torn BY <2>1, StoreAssumption
  <2>3. Keepable(v) /\ AllFit(v, file) BY <2>2 DEF StoredInv, Stores
  <2>4. \A i \in 1 .. Size(v) : At(v, i) = FaceIn(bll, ill, At(nodes, i)) BY <1>1, Seen
  <2>5. \A i \in 1 .. Size(v) : Like(At(nodes, i), At(v, i)) BY <2>4 DEF FaceIn, Like
  <2>6. Matches(v) BY <2>1, <2>5 DEF Matches
  <2>7. PICK line : line = file[pos + 1] OBVIOUS
  <2>8. line \in Line /\ pos + 1 \in DOMAIN file /\ ConfigParse(line)
    BY <1>4, <2>7, LineRead
  <2>9. CASE line.val = NoValue
    <3>1. bll' = bll /\ ill' = ill BY <2>8, <2>9 DEF ConfigParse, lists
    <3> QED BY <3>1, ViewStays
  <2>10. CASE line.val # NoValue
    <3>1. Configure(line) BY <2>8, <2>10 DEF ConfigParse
    <3>2. PICK j \in 1 .. Size(v) : Fits(At(v, j), line) BY <2>3, <2>7, <2>8, <2>10 DEF AllFit
    <3>3. LineTold(v, j, line) BY <1>1, <2>1, <2>3, <2>6, <2>8, <3>1, <3>2, LineTells
    <3>4. ASSUME NEW i \in 1 .. Size(v) PROVE FaceIn(bll', ill', At(nodes', i)) = At(v, i)
      <4> DEFINE f == At(v, i)  b == At(nodes, i)  c == At(nodes', i)
      <4>1. f \in FaceType /\ DOMAIN f.settings = KeysOf[f.cat] BY <2>3, <3>4, KeptFace, ZenonT(60)
      <4>2. Like(b, f) /\ Like(c, f) BY <2>5, <3>3 DEF LineTold, Matches
      <4>3. f = FaceIn(bll, ill, b) BY <2>4
      <4>4. \A k \in KeysOf[f.cat] :
              IF i = j /\ k = line.key THEN Shown(bll', ill', c, k) = f.settings[k]
                                       ELSE c.settings[k] = b.settings[k]
        BY <3>3 DEF LineTold
      <4>5. \A id : GetBlockLabelString(bll', ill', id) = GetBlockLabelString(bll, ill, id)
        BY <3>3 DEF LineTold
      <4> HIDE DEF f, b, c
      <4>6. ASSUME NEW k \in KeysOf[f.cat] PROVE Shown(bll', ill', c, k) = f.settings[k]
        <5>1. CASE i = j /\ k = line.key BY <5>1, <4>4
        <5>2. CASE ~ (i = j /\ k = line.key)
          <6>1. c.settings[k] = b.settings[k] /\ c.cat = b.cat /\ c.type = b.type
            BY <5>2, <4>2, <4>4 DEF Like
          <6>2. Shown(bll', ill', c, k) = Shown(bll, ill, b, k) BY <6>1, <4>5, SameShown
          <6>3. b.cat = f.cat BY <4>2 DEF Like
          <6>4. f.settings[k] = Shown(bll, ill, b, k) BY <6>3, <4>3 DEF FaceIn
          <6> QED BY <6>2, <6>4
        <5> QED BY <5>1, <5>2
      <4>7. FaceIn(bll', ill', c) = f BY <4>1, <4>2, <4>6, FaceIs DEF Like
      <4> QED BY <4>7 DEF f, c
    <3>5. bll' \in Seq(Node) /\ ill' \in Seq(Node) BY <3>3 DEF LineTold
    <3>6. Len(ill') = Len(v[1]) /\ Len(bll') = Len(v[2]) BY <3>3 DEF LineTold, Matches
    <3>7. nodes' = <<ill', bll'>> BY DEF nodes
    <3> DEFINE x == ill'  y == bll'  pair == nodes'
    <3>8. /\ x \in Seq(Node) /\ y \in Seq(Node) /\ Len(x) = Len(v[1]) /\ Len(y) = Len(v[2])
          /\ pair = <<x, y>>
          /\ \A i \in 1 .. Size(v) : FaceIn(y, x, At(pair, i)) = At(v, i)
      BY <3>4, <3>5, <3>6, <3>7
    <3>9. View' = <<FacesOf(y, x, x), FacesOf(y, x, y)>> BY ViewIs
    <3> HIDE DEF x, y, pair
    <3>10. Bears(y, x, v) BY <3>8 DEF Bears
    <3>11. Faces(y, x) = v BY <2>1, <3>8, <3>10, ViewFrom
    <3> QED BY <3>9, <3>11 DEF Faces
  <2> QED BY <2>9, <2>10
<1> QED BY <1>2, <1>3, <1>4
-----------------------------------------------------------------------------
(* A completed save is what the next boot runs.                            *)

(* The invariant: the registry and the file are sound, and so is what a    *)
(* save, a completed save and a boot have done so far.                     *)
StoreInv ==
    /\ IdsApart /\ Registry /\ FileInv /\ Modes
    /\ SaveInv /\ StoredInv /\ LoadInv

(* It is kept by every step.                                               *)
LEMMA StoreInvKept ==
    ASSUME TypeOK, StoreInv, [Next]_vars
    PROVE  StoreInv'
<1>1. IdsApart /\ Registry /\ FileInv /\ FileSound /\ Modes
  BY DEF StoreInv, FileInv
<1>2. SaveInv /\ StoredInv /\ LoadInv BY DEF StoreInv
<1>3. IdsApart' BY <1>1, IdsStayApart
<1>4. Registry' BY <1>1, RegistryKept
<1>5. FileInv' BY <1>1, FileInvKept
<1>6. Modes' BY <1>1, ModesKept
<1>7. SaveInv' BY <1>1, <1>2, SaveInvKept
<1>8. StoredInv' BY <1>1, <1>2, StoredInvKept
<1>9. LoadInv' BY <1>1, <1>2, LoadInvKept
<1> QED BY <1>3, <1>4, <1>5, <1>6, <1>7, <1>8, <1>9 DEF StoreInv

(* ... and holds before the power comes on.                                *)
LEMMA StoreInvFirst == Init => StoreInv
<1> SUFFICES ASSUME Init PROVE StoreInv OBVIOUS
<1>1. bll = <<>> /\ ill = <<>> /\ mode = "off" /\ pos = 0 /\ saved = Torn BY DEF Init
<1>2. DOMAIN <<>> = {} OBVIOUS
<1>3. IdsApart BY <1>1, <1>2 DEF IdsApart, IdsOf, Apart
<1>4. Registry BY <1>1, <1>2 DEF Registry, LabelsApart
<1>5. FileInv BY FileInvFirst
<1>6. Modes BY <1>1 DEF Modes
<1>7. SaveInv /\ StoredInv /\ LoadInv BY <1>1 DEF SaveInv, StoredInv, LoadInv
<1> QED BY <1>3, <1>4, <1>5, <1>6, <1>7 DEF StoreInv

(* The configuration in memory, as ConfigStore sees it.                    *)
Running == IF mode \in {"run", "save", "reload"} THEN View ELSE Down

(* The operator's changes, a save begun or completed, a stop, a boot and   *)
(* the steps that ConfigStore does not see.                                *)
StoreSteps ==
    \/ Running # Down /\ Running' # Down /\ saved' = saved
    \/ Running # Down /\ Running' = Running /\ saved' = Torn
    \/ /\ Running # Down /\ Running' = Running
       /\ saved' = IF Storable(Running) THEN Running ELSE Torn
    \/ Running' = Down /\ saved' = saved
    \/ /\ Running = Down /\ Running' # Down /\ saved' = saved
       /\ saved # Torn => Running' = saved
    \/ Running' = Running /\ saved' = saved

(* They are ConfigStore's.                                                 *)
LEMMA StoreStepsAre ==
    ASSUME StoreSteps
    PROVE  [Store!Next]_(Store!vars)
<1>1. CASE Running # Down /\ Running' # Down /\ saved' = saved
  BY <1>1 DEF Running, Store!Next, Store!Edit
<1>2. CASE Running # Down /\ Running' = Running /\ saved' = Torn
  BY <1>2 DEF Running, Store!Next, Store!StartSave
<1>3. CASE /\ Running # Down /\ Running' = Running
           /\ saved' = IF Storable(Running) THEN Running ELSE Torn
  BY <1>3 DEF Running, Store!Next, Store!FinishSave
<1>4. CASE Running' = Down /\ saved' = saved
  BY <1>4 DEF Running, Store!Next, Store!Stop
<1>5. CASE /\ Running = Down /\ Running' # Down /\ saved' = saved
           /\ saved # Torn => Running' = saved
  BY <1>5 DEF Running, Store!Next, Store!Boot
<1>6. CASE Running' = Running /\ saved' = saved
  BY <1>6 DEF Running, Store!vars
<1> QED BY <1>1, <1>2, <1>3, <1>4, <1>5, <1>6 DEF StoreSteps

(* A view is a configuration.                                              *)
LEMMA ViewIsOne ==
    ASSUME TypeOK, TypeOK'
    PROVE  View # Down /\ View # Torn /\ View' # Down /\ View' # Torn
<1>1. View \in Seq(Seq(FaceType))
  <2>1. bll \in Seq(Node) /\ ill \in Seq(Node) BY DEF TypeOK
  <2> QED BY <2>1, ViewIs, ViewOf
<1>2. View' \in Seq(Seq(FaceType))
  <2> DEFINE x == ill'  y == bll'
  <2>1. x \in Seq(Node) /\ y \in Seq(Node) BY DEF TypeOK
  <2>2. View' = <<FacesOf(y, x, x), FacesOf(y, x, y)>> BY ViewIs
  <2> HIDE DEF x, y
  <2> QED BY <2>1, <2>2, ViewOf
<1> QED BY <1>1, <1>2, StoreAssumption

(* What each step is.                                                      *)
LEMMA StoreStep ==
    ASSUME TypeOK, TypeOK', StoreInv, [Next]_vars
    PROVE  StoreSteps
<1>1. View # Down /\ View' # Down BY ViewIsOne
<1>2. ASSUME bll' = bll, ill' = ill PROVE View' = View BY <1>2, ViewStays
<1>3. CASE PowerOn
  <2>1. mode = "off" /\ mode' = "load" /\ saved' = saved BY <1>3 DEF PowerOn, InitConfigLoad
  <2> QED BY <2>1 DEF StoreSteps, Running
<1>4. CASE LoadLine
  <2>1. mode \in {"load", "reload"} /\ mode' = mode /\ saved' = saved BY <1>4 DEF LoadLine
  <2> QED BY <2>1, <1>1 DEF StoreSteps, Running
<1>5. CASE BootDone
  <2>1. mode = "load" /\ mode' = "run" /\ saved' = saved BY <1>5 DEF BootDone
  <2>2. PICK v : v = saved OBVIOUS
  <2>3. v # Torn => View' = v BY <1>5, <2>2, BootShows DEF StoreInv
  <2> QED BY <2>1, <2>2, <2>3, <1>1 DEF StoreSteps, Running
<1>6. CASE RegConfigLine \/ RegConfigDeleteBID \/ RegConfigDeleteBlockLabel
           \/ RegConfigClear \/ RegAdmin \/ RegIFOneWireAssign
  <2>1. mode = "run" /\ mode' = "run" /\ saved' = saved
    BY <1>6 DEF RegConfigLine, RegConfigDeleteBID, RegConfigDeleteBlockLabel,
       RegConfigClear, RegAdmin, RegIFOneWireAssign, Console
  <2> QED BY <2>1, <1>1 DEF StoreSteps, Running
<1>7. CASE RegAdminInterface
  <2>1. mode = "run" /\ (mode' = mode \/ mode' = "off") /\ saved' = saved
    BY <1>7 DEF RegAdminInterface, Console
  <2> QED BY <2>1, <1>1 DEF StoreSteps, Running
<1>8. CASE RegConfigSave
  <2>1. mode = "run" /\ mode' = "save" /\ saved' = Torn /\ bll' = bll /\ ill' = ill
    BY <1>8 DEF RegConfigSave, lists
  <2> QED BY <2>1, <1>1, <1>2 DEF StoreSteps, Running
<1>9. CASE SaveNode
  <2>1. /\ mode = "save" /\ saved' = saved
        /\ ((mode' = mode /\ bll' = bll /\ ill' = ill) \/ mode' = "off")
    BY <1>9 DEF SaveNode, lists
  <2> QED BY <2>1, <1>1, <1>2 DEF StoreSteps, Running
<1>10. CASE SaveDone
  <2>1. /\ mode = "save" /\ mode' = "run" /\ bll' = bll /\ ill' = ill
        /\ saved' = IF Storable(View) THEN View ELSE Torn
    BY <1>10 DEF SaveDone, lists
  <2> QED BY <2>1, <1>1, <1>2 DEF StoreSteps, Running
<1>11. CASE RegConfigLoad \/ ReloadDone
  <2>1. /\ mode \in {"run", "reload"} /\ mode' \in {"run", "reload"}
        /\ bll' = bll /\ ill' = ill /\ saved' = saved
    BY <1>11 DEF RegConfigLoad, InitConfigLoad, ReloadDone, lists
  <2> QED BY <2>1, <1>1, <1>2 DEF StoreSteps, Running
<1>12. CASE RegSystemReboot \/ PowerLoss
  <2>1. mode' = "off" /\ saved' = saved BY <1>12 DEF RegSystemReboot, PowerLoss
  <2> QED BY <2>1, <1>1 DEF StoreSteps, Running
<1>13. CASE UNCHANGED vars
  <2>1. mode' = mode /\ bll' = bll /\ ill' = ill /\ saved' = saved BY <1>13 DEF vars
  <2> QED BY <2>1, <1>2 DEF StoreSteps, Running
<1> QED BY <1>3, <1>4, <1>5, <1>6, <1>7, <1>8, <1>9, <1>10, <1>11, <1>12, <1>13
        DEF Next

(* A configuration whose save has completed is the one that runs after the *)
(* next boot, whatever is entered at the console and whenever the power    *)
(* fails: the configuration implements ConfigStore (InitConfigSave,        *)
(* InitConfigLoad and the boot).                                           *)
THEOREM InitConfigStores == Spec => StoreSpec
<1>1. Init => StoreInv BY StoreInvFirst
<1>2. TypeOK /\ StoreInv /\ [Next]_vars => StoreInv' BY StoreInvKept
<1>3. Init => Store!Init BY DEF Init, Store!Init
<1>4. TypeOK /\ TypeOK' /\ StoreInv /\ [Next]_vars => [Store!Next]_(Store!vars)
  BY StoreStep, StoreStepsAre
<1> QED BY <1>1, <1>2, <1>3, <1>4, InitConfigTypeCorrect, PTL
        DEF Spec, StoreSpec, Store!Spec

(* Loading a configuration over the one that was just saved leaves every   *)
(* block and interface as it is, line by line (InitConfigLoad from the     *)
(* console).                                                               *)
THEOREM InitConfigReloads == Spec => ReloadKeepsSaved
<1>1. Init => StoreInv BY StoreInvFirst
<1>2. TypeOK /\ StoreInv /\ [Next]_vars => StoreInv' BY StoreInvKept
<1>3. TypeOK /\ StoreInv /\ [Next]_vars =>
        [mode = "reload" /\ mode' = "reload" /\ View = saved => View' = saved]_vars
  <2> SUFFICES ASSUME TypeOK, StoreInv, [Next]_vars,
                      mode = "reload", mode' = "reload", View = saved
               PROVE  View' = saved
    OBVIOUS
  <2>1. PICK v : v = saved OBVIOUS
  <2>2. View' = v BY <2>1, ReloadStays DEF StoreInv
  <2> QED BY <2>1, <2>2
<1> QED BY <1>1, <1>2, <1>3, InitConfigTypeCorrect, PTL DEF Spec, ReloadKeepsSaved
=============================================================================
