------------------------------ MODULE JsonText ------------------------------
(***************************************************************************)
(* The JSON text that servers and clients exchange: CJsonFormatter and its *)
(* CJsonStreamObject and CJsonStreamArray write it, CJsonParser and        *)
(* CJsonParserAtl read it back item by item, and both ends use them for    *)
(* the meta data of a variable (CVarRef::CMeta, CAbkClientMeta).           *)
(*                                                                         *)
(* A text is a sequence of lexemes: the punctuation, the quote, the        *)
(* characters of strings one by one, and bare words as a whole, since the  *)
(* parser never looks into one.  Behind its end the text reads "eos", the  *)
(* terminating zero.                                                       *)
(***************************************************************************)
EXTENDS Integers, Sequences, FiniteSets, SequencesExt

CONSTANTS
    MemberNames, \* names of members that a reader asks for
    Inputs,     \* bound: for each call of a writer, what it may be given: a
                \* name and a value <<type, value>>
    Metas,      \* meta data of variables
    MaxDepth    \* bound: arrays and objects open at a time

\* The lexeme that a string begins and ends with.
Quote == "\""

\* The numbers of meta data, and the names of their members.
Numbers == {"0", "1", "2", "3", "5", "100"}
MetaWords == {"Metadata", "Name", "DispName", "RangeMin", "RangeMax", "Factor",
              "Offset", "Thresholds", "Text", "Value", "TextFallback"}

\* Characters and bare words; those of meta data are named for the provers,
\* which do not know that a string in quotes is one of STRING.
Words == STRING \cup Numbers \cup MetaWords

\* Strings do not hold the zero that ends a text; a whole date is a lexeme of
\* its own.
Strings == Seq(Words \ {"eos", "date"})

\* What a number looks like; 5.5 stands for those with a fraction.
Whole == Words \ {"eos", "white", Quote, "{", "[", ",", "]", "}", "true",
                   "false", "null", "nan", "inf", "5.5"}
Values == ({"cstr", "str"} \X Strings) \cup ({"date"} \X {"date"})
          \cup ({"bool"} \X {"true", "false"}) \cup ({"int"} \X Whole)
          \cup ({"double"} \X (Whole \cup {"5.5", "nan", "inf"}))

\* JSONPARSER_MAXNESTING: the array m_bObject of the parser's levels, of which
\* the first belongs to no array or object.
MaxNesting == 10

\* Nothing in the code keeps a text from being nested deeper than the parser
\* can follow; those that are written here, with a formatter of two levels
\* inside of them, are not, nor are those of the servers and clients.
ASSUME JsonAssumption ==
    /\ MaxDepth \in Nat \ {0} /\ MaxDepth + 2 < MaxNesting
    /\ Inputs \in Seq(SUBSET (Strings \X Values))

VARIABLES
    json,       \* the formatter: what it wrote and what is still open
    text,       \* the finished text; <<>> while it is being written
    parser,     \* the parser
    skip,       \* the level SkipItem has to leave, 0 outside of SkipItem
    passed,     \* ghost: items passed by the parser, in the order of the items
    metas,      \* the variables that a client asks the meta data of
    todo,       \* calls of the formatter still to be made for them
    loop,       \* the loop that the parser is read in
    got         \* the meta data that the client has extracted

textVars == <<json, text, parser, skip, passed, metas, todo, loop, got>>

-----------------------------------------------------------------------------
(* Strings: the two writers and the reader of escape sequences. *)

\* operator << for const char * escapes "/", the one for std::string "'".
EscapedBy == [cstr |-> {Quote, "\\", "/"}, str |-> {Quote, "\\", "'"}]

\* Mutant of Escape: the backslash itself is written as it is.
EscapeNoBackslash(writer, s) ==
    FlattenSeq([i \in DOMAIN s |->
        IF s[i] \in EscapedBy[writer] \ {"\\"} THEN <<"\\", s[i]>>
        ELSE IF s[i] = "nl" THEN <<"\\", "n">> ELSE <<s[i]>>])

\* "nl" stands for the control characters \b, \f, \n, \r and \t.
Escape(writer, s) ==
    FlattenSeq([i \in DOMAIN s |->
        IF s[i] \in EscapedBy[writer] THEN <<"\\", s[i]>>
        ELSE IF s[i] = "nl" THEN <<"\\", "n">> ELSE <<s[i]>>])

Quoted(writer, s) == <<Quote>> \o Escape(writer, s) \o <<Quote>>

\* The character that an escape sequence stands for.
EscapedChar(c) == IF c = "n" THEN "nl" ELSE c

UnescapeString(raw) ==
    LET from[i \in Nat] ==
          IF i > Len(raw) THEN <<>>
          ELSE IF raw[i] = "\\" /\ i < Len(raw)
               THEN <<EscapedChar(raw[i + 1])>> \o from[i + 2]
               ELSE <<raw[i]>> \o from[i + 1]
    IN  from[1]

CompareUnescapedString(s, raw) == UnescapeString(raw) = s

-----------------------------------------------------------------------------
(* The formatter.  CJsonStream objects live on the stack of the code that   *)
(* writes, so that those which are open form a stack; m_pParent and m_pChild *)
(* are the neighbours in it.                                                *)

Item(t, name, v) == [t |-> t, name |-> name, v |-> v]

Dump(s, lexemes) == [s EXCEPT !.dump = @ \o lexemes]
Noted(s, item) == [s EXCEPT !.items = Append(@, item)]
InObject(s) == Last(s.open).close = "}"

\* CJsonFormatter::InitNew.
InitNew == [dump |-> <<"{">>, open |-> <<[close |-> "}", members |-> 0]>>,
            items |-> <<>>]

\* CJsonStreamBase::BeginMember.
StreamBeginMember(s) ==
    [Dump(s, IF Last(s.open).members > 0 THEN <<",">> ELSE <<>>)
       EXCEPT !.open[Len(s.open)].members = @ + 1]

\* CJsonStreamObject::BeginMember; an array has no names.
BeginMember(s, name) ==
    IF InObject(s)
    THEN Dump(StreamBeginMember(s), Quoted("cstr", name) \o <<":">>)
    ELSE StreamBeginMember(s)

\* operator << for the numbers and FormatDate: what a value looks like.
Word(v) ==
    CASE v[1] = "double" /\ v[2] \in {"nan", "inf"} -> <<"null">>
      [] v[1] \in {"cstr", "str"} -> Quoted(v[1], v[2])
      [] v[1] = "date" -> <<Quote, "\\", Quote, v[2], "\\", Quote, Quote>>
      [] OTHER -> <<v[2]>>

\* WriteValue of CJsonStreamArray and of CJsonStreamObject.
ArrayWriteValue(s, v) ==
    Noted(Dump(StreamBeginMember(s), Word(v)), Item("VALUE", <<>>, v))
ObjectWriteValue(s, name, v) ==
    Noted(Dump(BeginMember(s, name), Word(v)), Item("VALUE", name, v))

\* The constructors of CJsonStreamArray and CJsonStreamObject, both in an
\* object, with a name, and in an array.
Opened(s, t, name, open, close) ==
    [Noted(Dump(BeginMember(s, name), <<open>>),
           Item(t, IF InObject(s) THEN name ELSE <<>>, <<>>))
       EXCEPT !.open = Append(@, [close |-> close, members |-> 0])]
CJsonStreamArray(s, name) == Opened(s, "ARRAY", name, "[", "]")
CJsonStreamObject(s, name) == Opened(s, "OBJECT", name, "{", "}")

\* CJsonStreamBase::Close of the stream at a level: its child first.
Close(s, level) ==
    LET closed == Reverse(SubSeq(s.open, level, Len(s.open)))
    IN  [s EXCEPT !.open = SubSeq(@, 1, level - 1),
                  !.dump = @ \o [i \in DOMAIN closed |-> closed[i].close],
                  !.items = @ \o [i \in DOMAIN closed |->
                                    Item("END", <<>>, <<>>)]]

\* WriteValue(CJsonFormatter): a closed formatter as the value of a member ...
WriteFormatter(s, name, f) ==
    [Dump(BeginMember(s, name), f.dump) EXCEPT !.items =
        @ \o <<Item("OBJECT", IF InObject(s) THEN name ELSE <<>>, <<>>)>>
          \o f.items]

\* ... or its members as members of this object: the leading brace is
\* consumed, the trailing one overwritten by what comes next.
WriteMembers(s, f) ==
    [Dump(StreamBeginMember(s), Tail(Front(f.dump))) EXCEPT
       !.items = @ \o Front(f.items)]

-----------------------------------------------------------------------------
(* The parser. *)

At(i) == IF i <= Len(text) THEN text[i] ELSE "eos"

SkipWhite[i \in Nat] == IF At(i) = "white" THEN SkipWhite[i + 1] ELSE i

SearchStringEnd[i \in Nat] ==
    IF At(i) \in {Quote, "eos"} THEN i
    ELSE IF At(i) = "\\" /\ At(i + 1) # "eos" THEN SearchStringEnd[i + 2]
    ELSE SearchStringEnd[i + 1]

SearchNumericEnd[i \in Nat] ==
    IF At(i) \in {",", "]", "}", "white", "eos"} THEN i
    ELSE SearchNumericEnd[i + 1]

BareNameEnd[i \in Nat] ==
    IF At(i) \in {"white", ":", "}", "]", "eos"} THEN i ELSE BareNameEnd[i + 1]

\* IsolateName: a name, quoted or bare, and the colon.
IsolateName[i \in Nat] ==
    IF At(i) = "white" THEN IsolateName[i + 1]
    ELSE LET quoted == At(i) = Quote
             first  == IF quoted THEN i + 1 ELSE i
             end    == IF quoted THEN SearchStringEnd[first]
                       ELSE BareNameEnd[first]
             behind == SkipWhite[IF quoted THEN end + 1 ELSE end]
         IN  [name |-> SubSeq(text, first, end - 1),
              pos  |-> SkipWhite[IF At(behind) = ":" THEN behind + 1
                                 ELSE behind]]

\* IsolateValue: a value's type, its raw characters, the position behind it.
IsolateValue[i \in Nat] ==
    IF At(i) = "white" THEN IsolateValue[i + 1]
    ELSE IF At(i) = Quote
    THEN [type |-> "STRING", pos |-> SearchStringEnd[i + 1] + 1,
          val |-> SubSeq(text, i + 1, SearchStringEnd[i + 1] - 1)]
    ELSE [type |-> IF SearchNumericEnd[i] = i THEN "INVALID" ELSE "NUMERIC",
          pos |-> SearchNumericEnd[i],
          val |-> SubSeq(text, i, SearchNumericEnd[i] - 1)]

Level(q) == Len(q.nest)
IsObject(q) == q.nest # <<>> /\ Last(q.nest)

\* PushNesting, with the type of what was entered.  On a level too many its
\* assertion fails, and a build without assertions writes behind m_bObject:
\* undefined.
PushNesting(q, i, name, object) ==
    IF Level(q) < MaxNesting - 1
    THEN [q EXCEPT !.type = IF object THEN "OBJECT" ELSE "ARRAY",
                   !.name = name, !.pos = SkipWhite[i],
                   !.nest = Append(@, object)]
    ELSE [q EXCEPT !.type = "UNDEFINED"]

\* PopNesting: the name stays, in an array it is emptied.
PopNesting(q) ==
    [q EXCEPT !.type = "END", !.pos = SkipWhite[@ + 1], !.nest = Front(@),
              !.name = IF IsObject(q) THEN @ ELSE <<>>]

Iterate(q) ==
    IF q.type = "INVALID" THEN q
    ELSE IF At(q.pos) = "eos" THEN [q EXCEPT !.type = "END"]
    ELSE IF At(q.pos) = (IF IsObject(q) THEN "}" ELSE "]") THEN PopNesting(q)
    ELSE LET behind == IF At(q.pos) = "," THEN q.pos + 1 ELSE q.pos
             named  == IF IsObject(q) THEN IsolateName[behind]
                       ELSE [name |-> <<>>, pos |-> behind]
             value  == IsolateValue[named.pos]
         IN  IF At(named.pos) \in {"{", "["}
             THEN PushNesting(q, named.pos + 1, named.name,
                              At(named.pos) = "{")
             ELSE [q EXCEPT !.type = value.type, !.name = named.name,
                            !.val = value.val, !.pos = SkipWhite[value.pos]]

\* Restart at the beginning of the text, with the first item isolated.
Restart ==
    LET root == [pos |-> 1, type |-> "INVALID", name |-> <<>>, val |-> <<>>,
                 nest |-> <<>>]
        i    == SkipWhite[1]
    IN  IF At(i) \in {"{", "["}
        THEN Iterate(PushNesting(root, i + 1, <<>>, At(i) = "{"))
        ELSE root

IsDone(q) == q.type \in {"END", "INVALID"} \/ Level(q) = 0

TestForName(q, name) == CompareUnescapedString(name, q.name)
TestArray(q, name) == q.type = "ARRAY" /\ TestForName(q, name)

\* ExtractValue by the type of its argument; <<>> when it returns false.
\* sscanf reads the whole part of a number into an int.
GetValueInt(q) ==
    CASE Head(q.val) \in {"true", "false", "null"} -> <<>>
      [] Head(q.val) = "5.5" -> <<"5">>
      [] OTHER -> q.val
GetValueDouble(q) ==
    CASE Head(q.val) \in {"true", "false"} -> <<>>
      [] Head(q.val) = "null" -> <<"nan">>
      [] OTHER -> q.val
GetValueBool(q) == IF Head(q.val) \in {"true", "false"} THEN q.val ELSE <<>>

\* A text that begins with an escaped quote is scanned as a date.
ScanDate(q) ==
    IF Len(q.val) > 2 /\ SubSeq(q.val, 1, 2) = <<"\\", Quote>>
       /\ q.val[3] = "date" THEN <<"date">> ELSE <<>>

ExtractValue(q, t) ==
    IF q.type # (IF t \in {"cstr", "str", "date"} THEN "STRING" ELSE "NUMERIC")
    THEN <<>>
    ELSE CASE t \in {"cstr", "str"} -> <<UnescapeString(q.val)>>
           [] t = "date" -> ScanDate(q)
           [] t = "int" -> GetValueInt(q)
           [] t = "double" -> GetValueDouble(q)
           [] t = "bool" -> GetValueBool(q)

\* CJsonParserAtl::ExtractValueAtl into a variant, which takes its type from
\* what the text looks like: <<type, value>>.
ExtractVariant(q) ==
    IF q.type = "NUMERIC"
    THEN CASE Head(q.val) \in {"true", "false"} -> <<"bool">> \o q.val
           [] Head(q.val) = "null" -> <<"empty", "null">>
           [] Head(q.val) = "5.5" -> <<"double">> \o GetValueDouble(q)
           [] OTHER -> <<"int">> \o GetValueInt(q)
    ELSE IF q.type # "STRING" THEN <<>>
    ELSE IF ScanDate(q) # <<>> THEN <<"date">> \o ScanDate(q)
    ELSE <<"str", UnescapeString(q.val)>>

-----------------------------------------------------------------------------
(* The meta data of a variable, from CMeta on the server to CAbkClientMeta. *)

Number == [c \in Numbers |->
             CASE c = "0" -> 0 [] c = "1" -> 1 [] c = "2" -> 2
               [] c = "3" -> 3 [] c = "5" -> 5 [] c = "100" -> 100]

\* A text that may be missing is <<>> or <<text>>.
Maybe(s) == s \in Seq(Strings) /\ Len(s) <= 1

ASSUME MetaAssumption ==
    \A m \in Metas :
        /\ m.name \in Strings /\ m.disp \in Strings /\ Maybe(m.fallback)
        /\ {m.min, m.max, m.factor, m.offset} \subseteq Numbers
        /\ m.thresholds \in [1..5 -> Numbers]
        /\ m.table \in Seq([value : Numbers, text : Seq(Strings)])
        /\ \A i \in DOMAIN m.table : Maybe(m.table[i].text)

\* What a server does to write meta data, as calls of the formatter:
\* <<method, name, value>>.
Open(t, name) == <<<<t, name, <<>>>>>>
Value(name, v) == <<<<"value", name, v>>>>
CloseCall == <<<<"close", <<>>, <<>>>>>>
ForEach(s, Calls(_)) == FlattenSeq([i \in DOMAIN s |-> Calls(s[i])])

\* VALUE_TO_TEXT::FormatAsJson, as an entity of the table.
FormatEntity(e) ==
    Open("object", <<>>) \o Value(<<"Value">>, <<"double", e.value>>)
    \o ForEach(e.text, LAMBDA t : Value(<<"Text">>, <<"str", t>>)) \o CloseCall

\* CValueTable::FormatAsJson: the table, then the fall-back text.
FormatTable(m) ==
    Open("array", <<"Text">>) \o ForEach(m.table, FormatEntity) \o CloseCall
    \o ForEach(m.fallback, LAMBDA t : Value(<<"TextFallback">>, <<"str", t>>))

FormatThresholds(m) ==
    Open("array", <<"Thresholds">>)
    \o ForEach(m.thresholds, LAMBDA c : Value(<<>>, <<"double", c>>))
    \o CloseCall

\* The scalar rows of the table in CMeta::FormatAsJson: those whose flag is
\* set are written.
MetaRows(m) ==
    <<<<"DISPNAME", "DispName", <<"str", m.disp>>>>,
      <<"RANGE", "RangeMin", <<"double", m.min>>>>,
      <<"RANGE", "RangeMax", <<"double", m.max>>>>,
      <<"FACTOFFS", "Factor", <<"double", m.factor>>>>,
      <<"FACTOFFS", "Offset", <<"double", m.offset>>>>>>

\* CVarRef::FormatMetaAsJson and CMeta::FormatAsJson, in an object.
FormatMetaAsJson(m) ==
    Open("object", <<>>) \o Value(<<"Name">>, <<"str", m.name>>)
    \o ForEach(MetaRows(m), LAMBDA row :
                 IF row[1] \in m.flags
                 THEN Value(<<row[2]>>, row[3]) ELSE <<>>)
    \o (IF "THRESHOLDS" \in m.flags THEN FormatThresholds(m) ELSE <<>>)
    \o (IF "VALUETABLE" \in m.flags THEN FormatTable(m) ELSE <<>>)
    \o CloseCall

\* The answer of Handle_PostVarMeta.
Handle_PostVarMeta(ms) ==
    Open("array", <<"Metadata">>) \o ForEach(ms, FormatMetaAsJson)

\* CAbkClientMeta and VALUE_TO_TEXT before anything has been extracted.
NewMeta == [name |-> <<>>, disp |-> <<>>, min |-> 0, max |-> 100, factor |-> 1,
            offset |-> 0, thresholds |-> <<>>, table |-> <<>>, ok |-> TRUE,
            fallback |-> <<>>,
            entity |-> [value |-> <<>>, text |-> <<>>, valid |-> FALSE]]

\* A member that is there and has the type replaces the value, as a number
\* or as an option <<value>>.
Numeric(name, old) ==
    IF TestForName(parser, <<name>>) /\ ExtractValue(parser, "double") # <<>>
    THEN Number[Head(ExtractValue(parser, "double"))] ELSE old
Optional(name, t, old) ==
    IF TestForName(parser, <<name>>) /\ ExtractValue(parser, t) # <<>>
    THEN ExtractValue(parser, t) ELSE old
Text(name, old) == Head(Optional(name, "str", <<old>>))

\* The scalar members in the loop of CAbkClientMeta::ExtractFromJson.
ExtractScalars(m) ==
    [m EXCEPT !.name = Text("Name", @), !.disp = Text("DispName", @),
              !.min = Numeric("RangeMin", @), !.max = Numeric("RangeMax", @),
              !.factor = Numeric("Factor", @), !.offset = Numeric("Offset", @),
              !.fallback = Optional("TextFallback", "str", @)]

\* Only five thresholds that rise are kept.
Rising(t) == /\ Len(t) >= 5 /\ t[1] # t[5]
             /\ \A i \in 1..4 : t[i] <= t[i + 1]

\* The end of ExtractFromJson: the name stands in for an empty display name,
\* factor and offset apply to what was read and to the defaults.
CompleteMeta(m) ==
    [m EXCEPT !.disp = IF @ = <<>> THEN m.name ELSE @,
              !.min = @ * m.factor + m.offset,
              !.max = @ * m.factor + m.offset,
              !.thresholds = [i \in DOMAIN @ |-> @[i] * m.factor + m.offset]]

\* VALUE_TO_TEXT::ExtractFromJson.  The bTextValid that it sets is a local
\* variable; the entity's own, valid, stays as the constructor left it.
ExtractEntity(m) ==
    [m EXCEPT !.entity.value = Optional("Value", "double", @),
              !.entity.text = Optional("Text", "str", @)]

\* Mutant of AddEntity: an entity that failed is left out, no more.
AddEntityAnyway(m) ==
    LET good == m.entity.value # <<>> /\ m.entity.text # <<>>
    IN  [m EXCEPT !.table = IF good THEN Append(@, m.entity) ELSE @]

\* CValueTable::ExtractFromJson: after an entity that failed none is added.
AddEntity(m) ==
    LET good == m.ok /\ m.entity.value # <<>> /\ m.entity.text # <<>>
    IN  [m EXCEPT !.ok = good,
                  !.table = IF good THEN Append(@, m.entity) ELSE @]

-----------------------------------------------------------------------------
(* A server writes any text, or the answer to a question for meta data;     *)
(* the peer walks through the one, a client decodes the other.              *)

NoParser == [pos |-> 0, type |-> "NONE", name |-> <<>>, val |-> <<>>,
             nest |-> <<>>]

\* A formatter of its own, as a trend keeps one: an array of values.
OtherFormatter(name, v) ==
    [dump |-> <<"{">> \o Quoted("cstr", name) \o <<":", "[">> \o Word(v)
              \o <<"]", "}">>,
     items |-> <<Item("ARRAY", name, <<>>), Item("VALUE", <<>>, v),
                 Item("END", <<>>, <<>>), Item("END", <<>>, <<>>)>>]

TextInit == /\ json = InitNew
            /\ metas \in {<<>>} \union SeqOf(Metas, 2)
            /\ todo = Handle_PostVarMeta(metas)
            /\ text = <<>>
            /\ parser = NoParser
            /\ skip = 0
            /\ passed = 0
            /\ loop = "none"
            /\ got = <<>>

Calls == Cardinality({i \in DOMAIN json.items : json.items[i].t # "END"})

\* What a method of the innermost open stream makes of the formatter.
StreamCall(method, name, v) ==
    CASE method = "array" -> CJsonStreamArray(json, name)
      [] method = "object" -> CJsonStreamObject(json, name)
      [] method = "close" -> Close(json, Len(json.open))
      [] method = "value" -> IF InObject(json)
                             THEN ObjectWriteValue(json, name, v)
                             ELSE ArrayWriteValue(json, v)

Write ==
    /\ text = <<>> /\ metas = <<>> /\ Calls < Len(Inputs)
    /\ \E c \in Inputs[Calls + 1] :
         \/ json' = StreamCall("value", c[1], c[2])
         \/ /\ Len(json.open) < MaxDepth
            /\ \E t \in {"array", "object"} : json' = StreamCall(t, c[1], <<>>)
         \/ json' = WriteFormatter(json, c[1], OtherFormatter(c[1], c[2]))
         \/ /\ InObject(json)
            /\ json' = WriteMembers(json, OtherFormatter(c[1], c[2]))
    /\ UNCHANGED <<metas, todo, text, parser, skip, passed, loop, got>>

\* A stream falls out of scope, or an outer one is closed before it.
CloseStream ==
    /\ text = <<>> /\ metas = <<>>
    /\ \E level \in 2..Len(json.open) : json' = Close(json, level)
    /\ UNCHANGED <<metas, todo, text, parser, skip, passed, loop, got>>

WriteMeta ==
    /\ text = <<>> /\ metas # <<>> /\ todo # <<>>
    /\ json' = StreamCall(todo[1][1], todo[1][2], todo[1][3])
    /\ todo' = Tail(todo)
    /\ UNCHANGED <<metas, text, parser, skip, passed, loop, got>>

\* CJsonFormatter::GetStream closes what is open; the text goes to the peer.
GetStream ==
    /\ text = <<>> /\ (metas = <<>> \/ todo = <<>>)
    /\ json' = Close(json, 1)
    /\ text' = json'.dump
    /\ UNCHANGED <<metas, todo, parser, skip, passed, loop, got>>

\* The constructor of CJsonParser, in one of the loops that read a text.
CJsonParser ==
    /\ text # <<>> /\ parser = NoParser
    /\ parser' = Restart
    /\ passed' = 1
    /\ loop' = IF metas = <<>> THEN "walk" ELSE "answer"
    /\ UNCHANGED <<json, metas, todo, text, skip, got>>

\* The next turn of the same loop, or the first of another.
Advance(to) ==
    /\ parser' = Iterate(parser)
    /\ passed' = passed + 1
    /\ loop' = to
    /\ UNCHANGED <<json, metas, todo, text, skip>>

\* At the end of the text every loop is done.
WalkOn == /\ loop = "walk" /\ skip = 0
          /\ Level(parser) > 0 /\ parser.type # "INVALID"
          /\ At(parser.pos) # "eos"
          /\ Advance("walk")
          /\ UNCHANGED got

SkipBegin ==
    /\ loop = "walk" /\ skip = 0 /\ parser.type \in {"ARRAY", "OBJECT"}
    /\ skip' = Level(parser)
    /\ UNCHANGED <<json, metas, todo, text, parser, passed, loop, got>>

\* Mutant of SkipStep: the item one level further out is skipped as well.
SkipStepFurther ==
    /\ skip # 0
    /\ parser' = Iterate(parser)
    /\ passed' = passed + 1
    /\ skip' = IF parser'.type = "INVALID" \/ Level(parser') < skip - 1
               THEN 0 ELSE skip
    /\ UNCHANGED <<json, metas, todo, text, loop, got>>

\* The loop of SkipItem.
SkipStep ==
    /\ skip # 0
    /\ parser' = Iterate(parser)
    /\ passed' = passed + 1
    /\ skip' = IF parser'.type = "INVALID" \/ Level(parser') < skip
               THEN 0 ELSE skip
    /\ UNCHANGED <<json, metas, todo, text, loop, got>>

\* GetVarOrMailboxMeta of the clients: the outer loop finds the array, the
\* inner one hands each of its objects to ExtractFromJson.  The end of the
\* inner loop is an item that ends the outer one's turn as well.
GetVarOrMailboxMeta ==
    \/ /\ loop = "answer" /\ ~IsDone(parser)
       /\ Advance(IF TestArray(parser, <<"Metadata">>)
                  THEN "list" ELSE "answer")
       /\ UNCHANGED got
    \/ /\ loop = "list"
       /\ Advance(IF IsDone(parser) THEN "answer" ELSE "meta")
       /\ got' = IF IsDone(parser) THEN got ELSE Append(got, NewMeta)

\* The loop of CAbkClientMeta::ExtractFromJson.
ExtractFromJson ==
    /\ loop = "meta"
    /\ IF IsDone(parser)
       THEN /\ Advance("list")
            /\ got' = [got EXCEPT ![Len(got)] = CompleteMeta(@)]
       ELSE /\ Advance(CASE TestArray(parser, <<"Thresholds">>) -> "thresholds"
                         [] TestArray(parser, <<"Text">>) -> "table"
                         [] OTHER -> "meta")
            /\ got' = [got EXCEPT ![Len(got)] = ExtractScalars(@)]

\* The loop over the thresholds in it.
ExtractThresholds ==
    /\ loop = "thresholds"
    /\ Advance(IF IsDone(parser) THEN "meta" ELSE "thresholds")
    /\ got' = [got EXCEPT ![Len(got)].thresholds =
                 IF ~IsDone(parser)
                 THEN Append(@, Number[Head(ExtractValue(parser, "double"))])
                 ELSE IF Rising(@) THEN @ ELSE <<>>]

\* The loops over the entities of the table and over the members of one.
ExtractTable ==
    \/ /\ loop = "table"
       /\ Advance(IF IsDone(parser) THEN "meta" ELSE "entity")
       /\ got' = [got EXCEPT ![Len(got)].entity = NewMeta.entity]
    \/ /\ loop = "entity"
       /\ Advance(IF IsDone(parser) THEN "table" ELSE "entity")
       /\ got' = [got EXCEPT ![Len(got)] = IF IsDone(parser) THEN AddEntity(@)
                                           ELSE ExtractEntity(@)]

TextNext == \/ Write \/ CloseStream \/ WriteMeta \/ GetStream
            \/ CJsonParser \/ WalkOn \/ SkipBegin \/ SkipStep
            \/ GetVarOrMailboxMeta \/ ExtractFromJson \/ ExtractThresholds
            \/ ExtractTable

TextSpec == TextInit /\ [][TextNext]_textVars

-----------------------------------------------------------------------------
(* Properties. *)

\* Levels, positions and the nesting stack stay within their bounds: the
\* assertion of PushNesting does not fail.
TextTypeOK == /\ parser.type # "UNDEFINED"
              /\ skip \in 0..(MaxDepth + 2)
              /\ passed \in 0..Len(json.items)
              /\ parser.pos \in 0..(Len(text) + 1)
              /\ parser # NoParser => parser.nest = <<>> \/ parser.nest[1]

\* What a value is when it has been written and read again.
Arrived(v) == IF v[1] = "double" /\ v[2] = "inf" THEN "nan" ELSE v[2]

\* The parser isolates the items that were written, in their order, each with
\* its type, its name and its value, whatever characters they are made of
\* (Iterate, IsolateName, IsolateValue, UnescapeString against
\* CJsonStreamBase::BeginMember, Close and the operators <<).
ReadsWhatWasWritten ==
    parser # NoParser =>
        LET item == json.items[passed]
        IN  CASE item.t = "VALUE" ->
                   /\ UnescapeString(parser.name) = item.name
                   /\ ExtractValue(parser, item.v[1]) = <<Arrived(item.v)>>
              [] item.t \in {"ARRAY", "OBJECT"} ->
                   /\ parser.type = item.t
                   /\ UnescapeString(parser.name) = item.name
              [] OTHER -> parser.type = "END"

\* A member is taken for the name it was written under and for no other, so
\* that no ExtractValue("Name",..) of a decoder picks up a member whose name
\* only begins like it (CompareUnescapedString).
NamesAreToldApart ==
    parser # NoParser /\ parser.type # "END" =>
        \A name \in MemberNames :
            TestForName(parser, name) <=> json.items[passed].name = name

\* Depth of what was written, behind item k.
WrittenLevel(k) ==
    1 + Cardinality({i \in 1..k : json.items[i].t \in {"ARRAY", "OBJECT"}})
      - Cardinality({i \in 1..k : json.items[i].t = "END"})

\* SkipItem leaves the parser at the end of the item it was called for:
\* inside of it all along, and neither a member of it nor anything behind it
\* is left out or read twice.
SkipStopsAtItsEnd ==
    [][skip # 0 => IF skip' # 0 THEN WrittenLevel(passed') >= skip
                   ELSE /\ WrittenLevel(passed') = skip - 1
                        /\ parser'.type = "END"]_textVars

\* What the client is to know of a variable: the display name or else the
\* name, the range with factor and offset, the thresholds if they rise, the
\* values and texts of the table up to the first entity without a text.
Expected(m) ==
    LET factor == IF "FACTOFFS" \in m.flags THEN Number[m.factor] ELSE 1
        offset == IF "FACTOFFS" \in m.flags THEN Number[m.offset] ELSE 0
        bound(v, default) == offset + factor *
            (IF "RANGE" \in m.flags THEN Number[v] ELSE default)
        raw == [i \in 1..5 |-> Number[m.thresholds[i]]]
        good == {k \in 0..Len(m.table) :
                   \A i \in 1..k : m.table[i].text # <<>>}
        has == "VALUETABLE" \in m.flags
    IN  [name |-> m.name,
         disp |-> IF "DISPNAME" \in m.flags /\ m.disp # <<>>
                  THEN m.disp ELSE m.name,
         min |-> bound(m.min, 0), max |-> bound(m.max, 100),
         thresholds |-> IF "THRESHOLDS" \in m.flags /\ Rising(raw)
                        THEN [i \in 1..5 |-> raw[i] * factor + offset]
                        ELSE <<>>,
         table |-> IF has THEN [i \in 1..Max(good) |->
                                  [value |-> <<m.table[i].value>>,
                                   text |-> m.table[i].text]] ELSE <<>>,
         fallback |-> IF has THEN m.fallback ELSE <<>>]

\* What the client knows, of a table the values and the texts.
Plain(t) == [i \in DOMAIN t |-> [value |-> t[i].value, text |-> t[i].text]]
Told(m, f) == IF f = "table" THEN Plain(m.table) ELSE m[f]

\* What the client knows of a variable is what the server's CMeta holds, for
\* every variable it asked for (CMeta::FormatAsJson, ExtractFromJson); a table
\* ends before its first entity without a text.  Nothing is said of bTextValid,
\* which stays false for the texts of a table, whose own ExtractFromJson sets a
\* local variable of that name (AbkClientVar.cpp:64).
MetaArrives ==
    loop = "answer" /\ Level(parser) = 0 =>
        /\ Len(got) = Len(metas)
        /\ \A i \in DOMAIN metas, f \in DOMAIN Expected(metas[1]) :
             Told(got[i], f) = Expected(metas[i])[f]

\* The type that a value's text looks like.
VariantType(v) ==
    CASE v[1] = "cstr" -> "str"
      [] v[1] = "double" /\ v[2] \in {"nan", "inf"} -> "empty"
      [] v[1] = "double" /\ v[2] \in Whole -> "int"
      [] OTHER -> v[1]
\* On Windows a value gets the type that its text looks like: it is read with
\* the type it was written with, save a double without a fraction (ATL's
\* ExtractValueAtl makes it an integer) and one that is not a number.
VariantTypeIsTold ==
    parser # NoParser /\ json.items[passed].t = "VALUE" =>
        Head(ExtractVariant(parser)) = VariantType(json.items[passed].v)

\* Whatever the calls of the formatter were, the parser gets out what they put
\* in: items, names, values and, on Windows, the types of values.
TextInv ==
    TextTypeOK /\ ReadsWhatWasWritten /\ NamesAreToldApart /\ VariantTypeIsTold
=============================================================================
