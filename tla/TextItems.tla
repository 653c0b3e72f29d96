------------------------------ MODULE TextItems ------------------------------
(***************************************************************************)
(* What is said of the texts of JsonText, for the proofs about them: a     *)
(* text as the items that were written into it (Written), what the parser  *)
(* says of an item that it reads (IsRead), what the formatter has written  *)
(* (Formats), what the loops of a client make of the items of an answer    *)
(* (IsRun), what the calls of the server foretell of that (Leads), what a  *)
(* client learns of a variable (Learned), and the inductive invariant      *)
(* TextIInv.  MessageProofs shows that it holds and what follows from it.  *)
(***************************************************************************)
EXTENDS JsonText

-----------------------------------------------------------------------------
(* Numbers, and functions defined by recursion on them. *)

\* Each value of f follows from the one before it by step.
IsStep(step, lo, hi, V) == step \in [(lo..hi) \X V -> V]
Unrolls(f, lo, hi, V, base, step) ==
    /\ f \in [lo..hi -> V]
    /\ \A j \in lo..hi :
          f[j] = IF j = lo THEN base ELSE step[<<j, f[j - 1]>>]

-----------------------------------------------------------------------------
(* Texts: strings, how they are written, and where the parser finds them.   *)

\* What a text is made of, with the lexemes that the writer puts there.
Lexemes == Words \cup {Quote, "\\", "/", "'", "n", "nl", ",", ":", "{", "[",
                        "}", "]", "date", "true", "false", "null", "nan",
                        "inf", "5.5"}

\* A recursion that moves on from each number to a larger one, and stops
\* behind a bound.
IsJumping(bound, V, Stop, base, next, step) ==
    /\ bound \in Nat /\ base \in [Nat -> V] /\ next \in [Nat -> Nat]
    /\ step \in [Nat \X V -> V]
    /\ \A i \in Nat : /\ i > bound => i \in Stop
                      /\ i \notin Stop => next[i] > i

\* A function that it describes.
Jumps(f, V, Stop, base, next, step) ==
    /\ f \in [Nat -> V]
    /\ \A i \in Nat :
         f[i] = IF i \in Stop THEN base[i] ELSE step[<<i, f[next[i]]>>]

\* A recursion that only looks for a place: it skips from each number to a
\* larger one, and stops behind the end of the text.
IsSkipping(Stop, next) ==
    \A i \in Nat : /\ i > Len(text) => i \in Stop
                   /\ next[i] \in Nat /\ next[i] > i

\* A function that it describes.
Skips(f, Stop, base, next) ==
    \A i \in Nat : f[i] = IF i \in Stop THEN base[i] ELSE f[next[i]]

\* What ends a number.
Delimiters == {",", "]", "}", "white", "eos"}

\* A string that begins at i ends before the quote at e.
StringEnds(i, e) == e \in Nat /\ SearchStringEnd[i] = e /\ At(e) = Quote

\* What IsolateValue finds, save white space before it.
ValueAt(i) ==
    IF At(i) = Quote
    THEN [type |-> "STRING", pos |-> SearchStringEnd[i + 1] + 1,
          val |-> SubSeq(text, i + 1, SearchStringEnd[i + 1] - 1)]
    ELSE [type |-> IF SearchNumericEnd[i] = i THEN "INVALID" ELSE "NUMERIC",
          pos |-> SearchNumericEnd[i],
          val |-> SubSeq(text, i, SearchNumericEnd[i] - 1)]

\* The raw characters of a string are those between cuts: one that stands for
\* itself, or an escape sequence.
IsCut(raw, s, cut) ==
    /\ cut \in [0..Len(s) -> Nat] /\ cut[0] = 0 /\ cut[Len(s)] = Len(raw)
    /\ \A k \in 1..Len(s) :
         \/ /\ cut[k] = cut[k - 1] + 1 /\ raw[cut[k]] = s[k]
            /\ s[k] \notin {Quote, "\\", "eos"}
         \/ /\ cut[k] = cut[k - 1] + 2 /\ raw[cut[k - 1] + 1] = "\\"
            /\ EscapedChar(raw[cut[k]]) = s[k] /\ raw[cut[k]] # "eos"

\* raw is a string s with its escape sequences.
Encodes(raw, s) ==
    /\ raw \in Seq(Lexemes) /\ s \in Seq(Lexemes)
    /\ \E cut : IsCut(raw, s, cut)

\* A piece p of a text d, behind the position a.
Stands(d, p, a) ==
    a + Len(p) <= Len(d) /\ \A j \in 1..Len(p) : d[a + j] = p[j]

-----------------------------------------------------------------------------
(* A text as the items in it.                                               *)

ItemTypes == {"ARRAY", "OBJECT", "VALUE", "END"}
Items == {item \in [t : ItemTypes, name : Strings, v : Values \cup {<<>>}] :
            item.t = "VALUE" => item.v \in Values}

\* How an item is written in an object or in an array, save the comma.
Label(item, inObject) ==
    IF inObject THEN Quoted("cstr", item.name) \o <<":">> ELSE <<>>
Body(item) == CASE item.t = "ARRAY" -> <<"[">>
                [] item.t = "OBJECT" -> <<"{">>
                [] OTHER -> Word(item.v)
Piece(item, inObject) ==
    IF item.t = "END" THEN <<IF inObject THEN "}" ELSE "]">>
    ELSE Label(item, inObject) \o Body(item)
Comma(c) == IF c THEN <<",">> ELSE <<>>
WithComma(c, item, inObject) == Comma(c) \o Piece(item, inObject)

\* What is open behind an item.
Nesting(nest, t) == CASE t = "ARRAY" -> Append(nest, FALSE)
                      [] t = "OBJECT" -> Append(nest, TRUE)
                      [] t = "END" -> Front(nest)
                      [] OTHER -> nest

\* An item that may be written where these are open, with or without a comma,
\* behind the items that are there.
MayFollow(items, item, c, nest) ==
    /\ nest # <<>> /\ c \in BOOLEAN
    /\ item.t = "END" => ~c
    /\ item.t # "END" /\ ~Last(nest) => item.name = <<>>
    /\ items # <<>> /\ Last(items).t = "VALUE" => c \/ item.t = "END"

\* It stands in the text d between a and b.
Follows(d, item, c, a, b, before, after) ==
    /\ after = Nesting(before, item.t)
    /\ Stands(d, WithComma(c, item, Last(before)), a)
    /\ b = a + Len(WithComma(c, item, Last(before)))

\* Where the items of a text end, and what is open there.
Written(d, items, at, nest, depth) ==
    /\ d \in Seq(Lexemes) /\ Stands(d, <<"{">>, 0)
    /\ at \in [0..Len(items) -> Nat] /\ at[0] = 1 /\ at[Len(items)] = Len(d)
    /\ nest \in [0..Len(items) -> Seq(BOOLEAN)] /\ nest[0] = <<TRUE>>
    /\ \A k \in 0..Len(items) :
         Len(nest[k]) <= depth /\ (nest[k] # <<>> => nest[k][1])
    /\ \A k \in 1..Len(items) : \E c \in BOOLEAN :
         /\ MayFollow(SubSeq(items, 1, k - 1), items[k], c, nest[k - 1])
         /\ Follows(d, items[k], c, at[k - 1], at[k], nest[k - 1], nest[k])

\* A text of these items, with these open behind it.
Texts(d, items, nst, depth) ==
    /\ items \in Seq(Items)
    /\ \E at, nest : /\ Written(d, items, at, nest, depth)
                     /\ nst = nest[Len(items)]

-----------------------------------------------------------------------------
(* The parser reads the items of a text one by one.                         *)

\* The raw characters of a value that is written in quotes.
IsString(v) == v[1] \in {"cstr", "str", "date"}
Raw(v) == IF v[1] = "date" THEN <<"\\", Quote, "date", "\\", Quote>>
          ELSE Escape(v[1], v[2])

\* A parser that has read something, and what it says of the item it is at.
Parsers == [pos : Nat, type : {"ARRAY", "OBJECT", "STRING", "NUMERIC", "END"},
            name : Seq(Lexemes), val : Seq(Lexemes), nest : Seq(BOOLEAN)]
ReadsValue(q, v) ==
    IF IsString(v) THEN q.type = "STRING" /\ q.val = Raw(v)
    ELSE q.type = "NUMERIC" /\ q.val = Word(v)
IsRead(q, item) ==
    /\ q \in Parsers
    /\ item.t # "END" => Encodes(q.name, item.name)
    /\ item.t # "VALUE" => q.type = item.t
    /\ item.t = "VALUE" => ReadsValue(q, item.v)

-----------------------------------------------------------------------------
(* The formatter writes a text of items.                                    *)

Streams == [close : {"}", "]"}, members : Nat]
Formatters == [dump : Seq(Lexemes), open : Seq(Streams), items : Seq(Items)]

\* The stack of streams as what is open in the text.
NestOf(open) == [i \in 1..Len(open) |-> open[i].close = "}"]

\* What a formatter has written is a text, and the innermost stream knows of
\* a value in front of it.
Formats(s, depth) ==
    /\ s \in Formatters
    /\ Texts(s.dump, s.items, NestOf(s.open), depth)
    /\ s.open # <<>> /\ s.items # <<>> /\ Last(s.items).t = "VALUE" =>
         Last(s.open).members > 0

\* A value is written.
StreamValue(s, name, v) == IF InObject(s) THEN ObjectWriteValue(s, name, v)
                           ELSE ArrayWriteValue(s, v)
NameIn(s, name) == IF InObject(s) THEN name ELSE <<>>

Putting(s1, s, name, v) ==
    /\ NestOf(s1.open) = NestOf(s.open) /\ s1.open # <<>>
    /\ Len(s1.open) = Len(s.open)
    /\ s1.items = Append(s.items, Item("VALUE", NameIn(s, name), v))
    /\ s1.dump = BeginMember(s, name).dump \o Word(v)
    /\ s1.open = BeginMember(s, name).open

\* How an array or an object begins and ends.
Brackets(t, first, last) == \/ t = "ARRAY" /\ first = "[" /\ last = "]"
                            \/ t = "OBJECT" /\ first = "{" /\ last = "}"

\* What opening an array or an object makes of a formatter.
Opening(s1, s, t, name, first, last) ==
    /\ s1.dump = BeginMember(s, name).dump \o <<first>>
    /\ s1.items = Append(s.items, Item(t, NameIn(s, name), <<>>))
    /\ s1.open = Append(BeginMember(s, name).open,
                        [close |-> last, members |-> 0])
    /\ NestOf(s1.open) = Append(NestOf(s.open), t = "OBJECT")
    /\ Len(s1.open) = Len(s.open) + 1
    /\ InObject(s1) = (t = "OBJECT") /\ Last(s1.open).members = 0
    /\ s1.open # <<>>

\* The end of an array or of an object.
EndItem == Item("END", <<>>, <<>>)

\* What closing the m innermost streams makes of a formatter.
Closing(s, m) == [i \in 1..m |-> s.open[Len(s.open) + 1 - i].close]
Ends(m) == [i \in 1..m |-> EndItem]

\* The parts of such a text, and the equality of two texts.
Parts(d, q, k, a, w, e, g) ==
    /\ d \in Seq(Lexemes) /\ q \in Seq(Lexemes) /\ k \in Seq(Lexemes)
    /\ a \in Seq(Lexemes) /\ w \in Seq(Lexemes) /\ e \in Seq(Lexemes)
    /\ g \in Seq(Lexemes)
Same(x, y) == x = y

\* The same as the text of an object of its own.
Cat(x, y) == x \o y

\* The formatter of a trend, as a text in braces.
OtherText(name, v) ==
    ((Quoted("cstr", name) \o (<<":">> \o <<"[">>)) \o Word(v)) \o <<"]">>

\* A stream that has been opened and counted a member is closed.
Begun(r, o, x) == /\ r \in Seq(Streams) /\ r # <<>> /\ Front(r) = o
                  /\ Last(r).close = x.close

-----------------------------------------------------------------------------
(* What a client makes of the items of an answer, one by one.               *)

\* The loops of the client, and how deep the items lie that are read in them.
Loops == {"answer", "list", "meta", "thresholds", "table", "entity"}
LoopLevel(l) == CASE l = "answer" -> 1 [] l = "list" -> 2 [] l = "meta" -> 3
                  [] l = "thresholds" -> 4 [] l = "table" -> 4
                  [] l = "entity" -> 5

\* The items of meta data.
MetaValues == ({"double"} \X Numbers) \cup ({"str"} \X Strings)
MetaItems == {item \in Items : item.t = "VALUE" => item.v \in MetaValues}

\* What ExtractValue and the operators on the parser give for an item.
IsA(item, name, t) ==
    item.t = "VALUE" /\ item.name = <<name>> /\ item.v[1] = t
ItemNumeric(item, name, old) ==
    IF IsA(item, name, "double") THEN Number[item.v[2]] ELSE old
ItemOptional(item, name, t, old) ==
    IF IsA(item, name, t) THEN <<item.v[2]>> ELSE old
ItemText(item, name, old) == IF IsA(item, name, "str") THEN item.v[2] ELSE old

ItemScalars(item, m) ==
    [m EXCEPT !.name = ItemText(item, "Name", @),
              !.disp = ItemText(item, "DispName", @),
              !.min = ItemNumeric(item, "RangeMin", @),
              !.max = ItemNumeric(item, "RangeMax", @),
              !.factor = ItemNumeric(item, "Factor", @),
              !.offset = ItemNumeric(item, "Offset", @),
              !.fallback = ItemOptional(item, "TextFallback", "str", @)]
ItemEntity(item, m) ==
    [m EXCEPT !.entity.value = ItemOptional(item, "Value", "double", @),
              !.entity.text = ItemOptional(item, "Text", "str", @)]

\* What a loop does with what has been extracted, at an item.
InLoop(l, g, item, k, h) ==
    \/ /\ l = "answer" /\ item.t = "ARRAY" /\ item.name = <<"Metadata">>
       /\ k = "list" /\ h = g
    \/ l = "list" /\ item.t = "OBJECT" /\ k = "meta" /\ h = Append(g, NewMeta)
    \/ l = "list" /\ item.t = "END" /\ k = "answer" /\ h = g
    \/ /\ l = "meta" /\ h = [g EXCEPT ![Len(g)] = ItemScalars(item, @)]
       /\ \/ item.t = "VALUE" /\ k = "meta"
          \/ item.t = "ARRAY" /\ item.name = <<"Thresholds">> /\ k = "thresholds"
          \/ item.t = "ARRAY" /\ item.name = <<"Text">> /\ k = "table"
    \/ /\ l = "meta" /\ item.t = "END" /\ k = "list"
       /\ h = [g EXCEPT ![Len(g)] = CompleteMeta(@)]
    \/ /\ l = "thresholds" /\ item.t = "VALUE" /\ item.v[1] = "double"
       /\ k = "thresholds"
       /\ h = [g EXCEPT ![Len(g)].thresholds = Append(@, Number[item.v[2]])]
    \/ /\ l = "thresholds" /\ item.t = "END" /\ k = "meta"
       /\ h = [g EXCEPT ![Len(g)].thresholds = IF Rising(@) THEN @ ELSE <<>>]
    \/ /\ l = "table" /\ h = [g EXCEPT ![Len(g)].entity = NewMeta.entity]
       /\ \/ item.t = "OBJECT" /\ k = "entity"
          \/ item.t = "END" /\ k = "meta"
    \/ /\ l = "entity" /\ item.t = "VALUE" /\ k = "entity"
       /\ h = [g EXCEPT ![Len(g)] = ItemEntity(item, @)]
    \/ /\ l = "entity" /\ item.t = "END" /\ k = "table"
       /\ h = [g EXCEPT ![Len(g)] = AddEntity(@)]
Decodes(s, item, z) ==
    item \in MetaItems /\ InLoop(s[1], s[2], item, z[1], z[2])

\* The client reads n of these items.
IsRun(items, run, n) ==
    /\ run[0] = <<"answer", <<>>>>
    /\ \A k \in 1..n : Decodes(run[k - 1], items[k], run[k])

-----------------------------------------------------------------------------
(* Calls of the formatter that such a client understands.                   *)

Calls4Meta == ({"array", "object"} \X Strings \X {<<>>})
              \cup ({"value"} \X Strings \X MetaValues)
              \cup {<<"close", <<>>, <<>>>>}

\* The item that a call writes.
CallItem(c, inObject) ==
    CASE c[1] = "array" -> Item("ARRAY", IF inObject THEN c[2] ELSE <<>>, <<>>)
      [] c[1] = "object" -> Item("OBJECT", IF inObject THEN c[2] ELSE <<>>, <<>>)
      [] c[1] = "value" -> Item("VALUE", IF inObject THEN c[2] ELSE <<>>, c[3])
      [] OTHER -> EndItem
NamesIn(l) == l \in {"answer", "meta", "entity"}

CallDecodes(s, c, z) ==
    c \in Calls4Meta /\ Decodes(s, CallItem(c, NamesIn(s[1])), z)
CallRun(calls, run) ==
    \A k \in 1..Len(calls) : CallDecodes(run[k - 1], calls[k], run[k])
Leads(calls, s, z) ==
    /\ calls \in Seq(Calls4Meta)
    /\ \E run : run[0] = s /\ run[Len(calls)] = z /\ CallRun(calls, run)

-----------------------------------------------------------------------------
(* What the calls for one variable lead to.                                 *)

\* A client's meta data, and what the members of the answer make of it.
Client(n, d, lo, hi, f, o, th, tb, ok, fb, e) ==
    [name |-> n, disp |-> d, min |-> lo, max |-> hi, factor |-> f,
     offset |-> o, thresholds |-> th, table |-> tb, ok |-> ok,
     fallback |-> fb, entity |-> e]
Entity(v, t) == [value |-> v, text |-> t, valid |-> FALSE]
NoEntity == Entity(<<>>, <<>>)

\* One call that leaves the client with other meta data of the same variable.
Turns(l, m, c, k, h) ==
    \A V : \A g \in Seq(V) :
      CallDecodes(<<l, Append(g, m)>>, c, <<k, Append(g, h)>>)
\* Several calls.
Makes(l, m, calls, k, h) ==
    \A V : \A g \in Seq(V) :
      Leads(calls, <<l, Append(g, m)>>, <<k, Append(g, h)>>)

\* What CMeta::FormatAsJson writes of a variable's scalar meta data.
Shown(m) == IF "DISPNAME" \in m.flags THEN m.disp ELSE <<>>
Lowest(m) == IF "RANGE" \in m.flags THEN Number[m.min] ELSE 0
Highest(m) == IF "RANGE" \in m.flags THEN Number[m.max] ELSE 100
FactorOf(m) == IF "FACTOFFS" \in m.flags THEN Number[m.factor] ELSE 1
OffsetOf(m) == IF "FACTOFFS" \in m.flags THEN Number[m.offset] ELSE 0

FormatRows(m) == [i \in DOMAIN MetaRows(m) |->
    IF MetaRows(m)[i][1] \in m.flags
    THEN Value(<<MetaRows(m)[i][2]>>, MetaRows(m)[i][3]) ELSE <<>>]
\* The client's meta data behind the name, and behind the rows.
Named(m) == Client(m.name, <<>>, 0, 100, 1, 0, <<>>, <<>>, TRUE, <<>>, NoEntity)
Scaled(m, th, tb, ok, fb) ==
    Client(m.name, Shown(m), Lowest(m), Highest(m), FactorOf(m), OffsetOf(m),
           th, tb, ok, fb, NoEntity)

\* An array in the meta data is opened.
Enters(nm, k) == \/ nm = "Thresholds" /\ k = "thresholds"
                 \/ nm = "Text" /\ k = "table"

-----------------------------------------------------------------------------
(* Thresholds. *)

RawThresholds(m) == [i \in 1..5 |-> Number[m.thresholds[i]]]
Counted(m, i) == [j \in 1..i |-> Number[m.thresholds[j]]]
Kept(m) == IF "THRESHOLDS" \in m.flags /\ Rising(RawThresholds(m))
           THEN RawThresholds(m) ELSE <<>>

-----------------------------------------------------------------------------
(* The table of texts. *)

EntityOf(x) == Entity(<<x.value>>, x.text)

\* Up to where the entities of a table have texts.
Good(m) == {k \in 0..Len(m.table) : \A i \in 1..k : m.table[i].text # <<>>}
Known(m) == Max(Good(m))
\* The table behind so many of its entities.
Filled(m, j) == [i \in 1..(IF j <= Known(m) THEN j ELSE Known(m)) |->
                   EntityOf(m.table[i])]
Tabled(m, j, e) ==
    Client(m.name, Shown(m), Lowest(m), Highest(m), FactorOf(m), OffsetOf(m),
           Kept(m), Filled(m, j), j <= Known(m), <<>>, e)

-----------------------------------------------------------------------------
(* The whole answer. *)

\* What the client has read of a variable, and what it has made of it.
Gathered(m) == IF "VALUETABLE" \in m.flags
               THEN Scaled(m, Kept(m), Filled(m, Len(m.table)),
                           Len(m.table) <= Known(m), m.fallback)
               ELSE Scaled(m, Kept(m), <<>>, TRUE, <<>>)
Learned(m) == CompleteMeta(Gathered(m))

\* What a client that has asked for some variables is to have in the end.
FirstLearned(ms, n) == [i \in 1..n |-> Learned(ms[i])]
AnswerOf(ms) == FirstLearned(ms, Len(ms))

-----------------------------------------------------------------------------
(* The formatter that writes an answer. *)

\* The kinds of the streams that are open in a loop of the client.
NestIn(l) == [i \in 1..LoopLevel(l) |-> i \in {1, 3, 5}]

\* What the client, had it read up to here, would have extracted, and where
\* the calls that are still to come will lead it.
Reaches(items, s) ==
    \E run : IsRun(items, run, Len(items)) /\ run[Len(items)] = s
AnswerSoFar(s) ==
    /\ Reaches(json.items, s)
    /\ s[1] \in Loops /\ NestOf(json.open) = NestIn(s[1])
    /\ Len(json.open) = LoopLevel(s[1])
    /\ Leads(todo, s, <<"list", AnswerOf(metas)>>)

\* A call of the formatter writes the item that stands for it.
Writes(s, c, y, depth) ==
    /\ Formats(json', depth)
    /\ json'.items = Append(json.items, CallItem(c, NamesIn(s[1])))
    /\ NestOf(json'.open) = NestIn(y[1])
    /\ Len(json'.open) = LoopLevel(y[1])

\* The items of a whole answer, which end outside of its array.
AnswerRun(run) ==
    /\ Len(json.items) - 1 \in Nat
    /\ IsRun(json.items, run, Len(json.items) - 1)
    /\ run[Len(json.items) - 1] = <<"answer", AnswerOf(metas)>>

-----------------------------------------------------------------------------
(* The inductive invariant. *)

\* How deep a text may be nested.
Depth == IF metas = <<>> THEN MaxDepth + 2 ELSE 5

IsWriting ==
    /\ Formats(json, Depth)
    /\ IF metas = <<>> THEN Len(json.open) \in 1..MaxDepth
       ELSE \E s : AnswerSoFar(s)
IsFinished ==
    /\ Texts(text, json.items, <<>>, Depth)
    /\ metas # <<>> => \E run : AnswerRun(run)

\* The parser is behind an item of the text, and what it says of it is true.
IsParsing(at, nest) ==
    /\ json.items \in Seq(Items) /\ Written(text, json.items, at, nest, Depth)
    /\ nest[Len(json.items)] = <<>>
    /\ passed \in 1..Len(json.items)
    /\ parser.pos = at[passed] + 1 /\ parser.nest = nest[passed]
    /\ IsRead(parser, json.items[passed])

\* The client has extracted what the items before this one say.
IsDecoding(run) ==
    AnswerRun(run) /\ loop = run[passed - 1][1] /\ got = run[passed - 1][2]

IsReading ==
    /\ text # <<>> /\ \E at, nest : IsParsing(at, nest)
    /\ IF metas = <<>> THEN loop = "walk" /\ skip \in 0..Level(parser)
       ELSE skip = 0 /\ \E run : IsDecoding(run)
IsIdle == passed = 0 /\ skip = 0 /\ loop = "none" /\ got = <<>>

TextIInv ==
    /\ metas \in Seq(Metas)
    /\ IF text = <<>> THEN IsWriting ELSE IsFinished
    /\ IF parser = NoParser THEN IsIdle ELSE IsReading
=============================================================================
