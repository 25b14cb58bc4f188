-------------------------------- MODULE Json --------------------------------
(***************************************************************************)
(* lwjson, src/lib/lwjson/lwjson.c: lwjson_parse_ex() building the token   *)
(* tree in a fixed array, the search lwjson_find(), and the typed search   *)
(* of pk_lwjson.c.                                                         *)
(*                                                                         *)
(* The text is a sequence of lexemes, pairs of a kind and a name.  A key   *)
(* is a string with its colon; "bad" begins no value; the text ends at     *)
(* once ("end") or after blanks ("blanks").  One step of the parser takes  *)
(* one lexeme; what an error leaves half done is not followed further: the *)
(* next parse begins by resetting it.                                      *)
(***************************************************************************)
EXTENDS Integers, Sequences, FiniteSets

CONSTANTS
    Names,      \* property names
    NoName,     \* the name of a token that has none
    Scalars,    \* the types of the scalar values that occur
    TokLen,     \* lwobj->tokens_len
    MaxText,    \* for each text parsed with one lwjson_t, bound on its lexemes
    MaxPath,    \* of the paths that are searched, bound on their segments
    MaxIndex    \* and on the indices in them

ASSUME NamesAssumption == NoName \notin Names
ASSUME ScalarsAssumption ==
    Scalars \subseteq {"string", "int", "real", "true", "false", "null"}
ASSUME BoundsAssumption ==
    TokLen \in Nat /\ MaxText \in Seq(Nat) /\ MaxPath \in Nat /\ MaxIndex \in Nat

Nil == -1           \* the NULL pointer
Root == 0           \* &lwobj->first_token
Tokens == Root .. TokLen
Junk == -2          \* the union of a scalar, read as first_child

Lexemes == {<<k, NoName>> : k \in Scalars \cup {"{", "}", "[", "]", ",", "bad"}}
           \cup {<<"key", n>> : n \in Names}
Ends == {<<"end", NoName>>, <<"blanks", NoName>>}

VARIABLES
    tok,        \* first_token and tokens[]
    used,       \* next_free_token_pos
    to,         \* the container being filled
    new,        \* the member whose name has been read
    pc,         \* what the parser looks for
    res,        \* what the last call returned
    parsed,     \* flags.parsed
    text,       \* the lexemes of the last text
    parses

vars == <<tok, used, to, new, pc, res, parsed, text, parses>>

\* memset(): the type 0 is LWJSON_TYPE_STRING.
Zero == [type |-> "string", name |-> NoName, child |-> Nil, next |-> Nil]

TypeOK ==
    /\ tok \in [Tokens -> [type : {"object", "array"} \cup Scalars \cup {"string"},
                           name : Names \cup {NoName},
                           child : Tokens \cup {Nil, Junk}, next : Tokens \cup {Nil}]]
    /\ used \in 0 .. TokLen /\ to \in Tokens \cup {Nil} /\ new \in Tokens
    /\ pc \in {"idle", "start", "opened", "loop", "value", "after", "trail"}
    /\ res \in {"none", "ok", "json", "mem", "err", "par"}
    /\ parsed \in BOOLEAN
    /\ text \in Seq(Lexemes \cup Ends) /\ parses \in 0 .. Len(MaxText)

\* lwjson_init().
Init ==
    /\ tok = [t \in Tokens |-> IF t = Root THEN [Zero EXCEPT !.type = "object"]
                               ELSE Zero]
    /\ used = 0 /\ to = Root /\ new = Root
    /\ pc = "idle" /\ res = "none" /\ parsed = FALSE
    /\ text = <<>> /\ parses = 0

-----------------------------------------------------------------------------
(* The parser.                                                             *)

\* The empty text is refused before anything is reset: the tokens and `parsed`
\* stay those of the text before.
ParseNothing ==
    /\ pc = "idle" /\ res' = "par" /\ text' = <<>>
    /\ UNCHANGED <<tok, used, to, new, pc, parsed, parses>>

\* lwjson_free(): the tokens, but not the first one.
Free ==
    /\ pc = "idle" /\ parsed
    /\ tok' = [t \in Tokens |-> IF t = Root THEN tok[t] ELSE Zero]
    /\ parsed' = FALSE
    /\ UNCHANGED <<used, to, new, pc, res, text, parses>>

Parse ==
    /\ pc = "idle" /\ parses < Len(MaxText)
    /\ parses' = parses + 1
    /\ parsed' = FALSE /\ used' = 0
    /\ tok' = [tok EXCEPT ![Root] = Zero] /\ to' = Root
    /\ pc' = "start" /\ text' = <<>>
    /\ UNCHANGED <<new, res>>

\* The label ret.
Finish(r) ==
    /\ pc' = "idle" /\ res' = r /\ parsed' = (r = "ok")
    /\ UNCHANGED <<tok, used, to, new>>

Goon(to_pc) == pc' = to_pc /\ UNCHANGED <<res, parsed>>

\* The list of children from a token on.
Chain(c) ==
    LET f[n \in 0 .. TokLen + 1] ==
            [t \in Tokens \cup {Nil, Junk} |->
                IF n = 0 \/ t \in {Nil, Junk} THEN <<>>
                ELSE <<t>> \o f[n - 1][tok[t].next]]
    IN  f[TokLen + 1][c]

\* prv_alloc_token() and the link at the end of the container's list.
Fresh == used + 1
Linked(value) ==
    LET list == Chain(tok[to].child)
        tail == list[Len(list)]
    IN  IF list = <<>>
        THEN [tok EXCEPT ![Fresh] = value, ![to].child = Fresh]
        ELSE [tok EXCEPT ![Fresh] = value, ![tail].next = Fresh]

\* The value of the token t, which is in tk.  A container keeps a pointer to
\* its parent in `next` until it is closed.
Value(tk, t, k) ==
    \/ /\ k \in {"{", "["}
       /\ tok' = [tk EXCEPT ![t].type = IF k = "{" THEN "object" ELSE "array",
                            ![t].next = to]
       /\ to' = t /\ Goon("opened")
    \/ /\ k \in Scalars
       /\ tok' = [tk EXCEPT ![t].type = k,
                            ![t].child = IF k \in {"string", "int", "real"}
                                         THEN Junk ELSE Nil]
       /\ UNCHANGED to /\ Goon("after")

\* Mutant: one token is kept free.
FullEarly == used + 1 >= TokLen

Full == used >= TokLen

\* A lexeme that begins a member of the container.
Member(k, n) ==
    IF Full THEN Finish("mem")
    ELSE IF tok[to].type = "object"
    THEN IF k # "key" THEN Finish("json")
         ELSE /\ tok' = Linked([Zero EXCEPT !.name = n])
              /\ used' = Fresh /\ new' = Fresh
              /\ UNCHANGED to /\ Goon("value")
    ELSE IF k \notin Scalars \cup {"{", "["} THEN Finish("json")
         ELSE /\ Value(Linked(Zero), Fresh, k)
              /\ used' = Fresh
              /\ UNCHANGED new

\* Mutant: the container's pointer to its parent is left in the list.
CloserKeepsParent ==
    /\ to' = tok[to].next
    /\ Goon(IF tok[to].next = Nil THEN "trail" ELSE "loop")
    /\ UNCHANGED <<tok, used, new>>

\* The bracket that ends the container.
Closer ==
    /\ tok' = [tok EXCEPT ![to].next = Nil]
    /\ to' = tok[to].next
    /\ Goon(IF tok[to].next = Nil THEN "trail" ELSE "loop")
    /\ UNCHANGED <<used, new>>

CloserOf(type) == IF type = "object" THEN "}" ELSE "]"

\* The loop's body; a text that ends here is accepted if only the root is open.
Loop(k, n) ==
    IF k = "end" THEN Finish(IF to = Root THEN "ok" ELSE "json")
    ELSE IF k = "blanks" THEN Finish("json")
    ELSE IF k = "," THEN Goon("loop") /\ UNCHANGED <<tok, used, to, new>>
    ELSE IF k = CloserOf(tok[to].type) THEN Closer
    ELSE Member(k, n)

\* prv_check_valid_char_after_open_bracket().
MayFollowBracket(k) ==
    IF tok[to].type = "object" THEN k \in {"key", "string", "}"}
    ELSE k \in Scalars \cup {"key", "]", "[", "{"}

Take(k, n) ==
    \/ /\ pc = "start"
       /\ IF k \in {"{", "["}
          THEN /\ tok' = [tok EXCEPT
                             ![Root].type = IF k = "{" THEN "object" ELSE "array"]
               /\ Goon("opened") /\ UNCHANGED <<used, to, new>>
          ELSE Finish("json")
    \/ pc = "opened" /\ (IF MayFollowBracket(k) THEN Loop(k, n) ELSE Finish("json"))
    \/ pc = "loop" /\ Loop(k, n)
    \/ /\ pc = "value"
       /\ IF k \in Scalars \cup {"{", "["}
          THEN Value(tok, new, k) /\ UNCHANGED <<used, new>>
          ELSE Finish("json")
    \/ /\ pc = "after"
       /\ IF k \in {",", "]", "}"} THEN Loop(k, n) ELSE Finish("json")
    \/ pc = "trail" /\ Finish(IF k \in {"end", "blanks"} THEN "ok" ELSE "err")

Read ==
    /\ pc # "idle"
    /\ \E l \in Ends \cup (IF Len(text) < MaxText[parses] THEN Lexemes ELSE {}) :
          /\ pc = "start" => l[1] # "end"
          /\ Take(l[1], l[2]) /\ text' = Append(text, l)
    /\ UNCHANGED parses

Next == ParseNothing \/ Parse \/ Read \/ Free

Spec == Init /\ [][Next]_vars

-----------------------------------------------------------------------------
(* The search.  A path is a sequence of segments: a name, "#" for any      *)
(* element of an array, or "#i" for one of them.                           *)

Kids(t) == Chain(tok[t].child)

\* The children that the loops of prv_find() look at for a segment.
Tried(t, seg) ==
    LET kids == Kids(t)
    IN  {k \in 1 .. Len(kids) :
            CASE seg.kind = "name" -> tok[t].type = "object" /\ tok[kids[k]].name = seg.name
              [] seg.kind = "index" -> tok[t].type = "array" /\ k = seg.index + 1
              [] OTHER -> tok[t].type = "array"}

LeastOf(S) == CHOOSE k \in S : \A j \in S : k <= j

\* Mutant: the search goes down the first candidate only.
FirstTriedOnly(tried, result) == IF tried = {} THEN Nil ELSE result[LeastOf(tried)]

\* The first result that is not NULL.
FirstFound(tried, result) ==
    LET found == {k \in tried : result[k] # Nil}
    IN  IF found = {} THEN Nil ELSE result[LeastOf(found)]

\* prv_find() with n segments to go; a path that ends in "#" finds nothing.
Find(from, path) ==
    LET f[n \in 0 .. Len(path)] ==
            [t \in Tokens |->
                IF n = 0 THEN t
                ELSE LET seg == path[Len(path) + 1 - n]
                         below == f[n - 1]
                         tried == Tried(t, seg)
                         kids == Kids(t)
                     IN  IF n = 1 /\ seg.kind = "any" THEN Nil
                         ELSE FirstFound(tried, [k \in tried |-> below[kids[k]]])]
    IN  f[Len(path)][from]

\* lwjson_find_ex(), from Root the same as lwjson_find().
FindEx(from, path) ==
    IF parsed /\ tok[from].type \in {"object", "array"} THEN Find(from, path) ELSE Nil

\* pk_lwjson_findt_ex() with a type, or "any" for PK_LWJSON_TYPE_IGNORE, and
\* PK_LWJSON_NULLABLE.
Findt(from, path, type, nullable) ==
    LET t == FindEx(from, path)
    IN  IF t # Nil /\ (\/ type = "any"
                       \/ tok[t].type = type
                       \/ nullable /\ tok[t].type = "null"
                       \/ type = "true" /\ tok[t].type = "false")
        THEN t ELSE Nil

-----------------------------------------------------------------------------
(* The meaning of a text, taken from the text alone.                       *)

Ended == text # <<>> /\ text[Len(text)] \in Ends
Body == IF Ended THEN SubSeq(text, 1, Len(text) - 1) ELSE text
Kind(i) == IF i \in 1 .. Len(Body) THEN Body[i][1] ELSE IF Ended THEN "end" ELSE "none"
Opens(i) == Kind(i) \in {"{", "["}
IsValue(i) == Opens(i) \/ Kind(i) \in Scalars

Values == {i \in 1 .. Len(Body) : IsValue(i)}
\* The values but the root, and a value that must follow a key.
Members == Cardinality(Values) - 1 + (IF Kind(Len(Body)) = "key" THEN 1 ELSE 0)
\* The token of a value; the root is the first value and token 0.
TokenOf(i) == Cardinality({j \in Values : j < i})
Depth(i) == Cardinality({j \in 1 .. i - 1 : Opens(j)})
            - Cardinality({j \in 1 .. i - 1 : Kind(j) \in {"}", "]"}})
ParentOf(i) == CHOOSE j \in Values :
                  /\ j < i /\ Opens(j) /\ Depth(j) = Depth(i) - 1
                  /\ \A k \in Values : j < k /\ k < i => Depth(k) >= Depth(i)
Parents == [i \in Values \ {1} |-> ParentOf(i)]
NameOf(i) == IF Kind(i - 1) = "key" THEN Body[i - 1][2] ELSE NoName
TypeOf(i) == IF Kind(i) = "{" THEN "object" ELSE IF Kind(i) = "[" THEN "array" ELSE Kind(i)

MembersOf(up, j) == {i \in DOMAIN up : up[i] = j}

\* What JSON allows at i, by the lexeme before and the container around it.
Begins(i) == Opens(i - 1) \/ Kind(i - 1) = ","
AfterMember(i) == Kind(i - 1) \in Scalars \cup {"}", "]"}
Fits(i) ==
    IF i = 1 THEN Opens(i)
    ELSE IF Depth(i) <= 0 THEN Kind(i) = "end"
    ELSE LET around == Kind(ParentOf(i))
         IN  \/ Kind(i) = "key" /\ around = "{" /\ Begins(i)
             \/ IsValue(i) /\ around = "{" /\ Kind(i - 1) = "key"
             \/ IsValue(i) /\ around = "[" /\ Begins(i)
             \/ Kind(i) = "," /\ AfterMember(i)
             \/ /\ Kind(i) = IF around = "{" THEN "}" ELSE "]"
                /\ AfterMember(i) \/ Opens(i - 1)

\* The text is JSON, or what was read of it may become JSON.
IsJson == \A i \in 1 .. Len(text) : Fits(i)

\* The values that a path leads to from a value; up gives the parents.
Matches(up, seg, i) ==
    CASE seg.kind = "name" -> Kind(up[i]) = "{" /\ NameOf(i) = seg.name
      [] seg.kind = "index" ->
            /\ Kind(up[i]) = "["
            /\ Cardinality({j \in MembersOf(up, up[i]) : j < i}) = seg.index
      [] OTHER -> Kind(up[i]) = "["

Reached(up, from, path) ==
    LET Steps(w, n) == /\ up[w[n]] = IF n = 1 THEN from ELSE w[n - 1]
                       /\ Matches(up, path[n], w[n])
    IN  {w[Len(path)] : w \in {w \in [1 .. Len(path) -> DOMAIN up] :
                                  \A n \in 1 .. Len(path) : Steps(w, n)}}

-----------------------------------------------------------------------------
(* Properties.                                                             *)

Segments == [kind : {"name"}, name : Names, index : {0}]
            \cup [kind : {"index"}, name : {NoName}, index : 0 .. MaxIndex]
            \cup {[kind |-> "any", name |-> NoName, index |-> 0]}
Paths == UNION {[1 .. n -> Segments] : n \in 1 .. MaxPath}

\* Every text that is JSON is accepted when there are tokens enough, and no
\* other error than the want of memory ends one (lwjson.c:474-481).
JsonAccepted ==
    pc = "idle" /\ res # "par" /\ parses > 0 /\ IsJson =>
        res = IF Members <= TokLen THEN "ok" ELSE "mem"

\* The last text was accepted and its tree has not been freed.
Accepted == parsed /\ res = "ok"

\* After a parse that succeeds the tokens are the tree of the text: their
\* types, names and lists of children, with no pointer left from the parse
\* or from the text before (lwjson.c:55-61, 532-549, 570-592).
TreeOfText ==
    Accepted =>
        /\ used = Cardinality(Values) - 1
        /\ LET up == Parents
           IN  \A i \in Values :
              LET t == TokenOf(i)
              IN  /\ tok[t].type = TypeOf(i)
                  /\ i # 1 => tok[t].name = NameOf(i)
                  /\ Opens(i) =>
                        LET kids == Kids(t)
                            members == MembersOf(up, i)
                        IN  /\ {kids[k] : k \in 1 .. Len(kids)} = {TokenOf(m) : m \in members}
                            /\ Len(kids) = Cardinality(members)

\* The search returns the first value of the text that the path leads to from
\* any of its values; the typed search the same value or nothing, by its type
\* (lwjson.c:360-430, 737-749, pk_lwjson.c:30-52).
FindsFirstMatch ==
    Accepted => LET up == Parents IN \A from \in Values, path \in Paths :
        LET hits == IF path[Len(path)].kind = "any" THEN {} ELSE Reached(up, from, path)
            first == CHOOSE i \in hits : \A j \in hits : i <= j
            t == TokenOf(from)
        IN  /\ FindEx(t, path) = IF hits = {} THEN Nil ELSE TokenOf(first)
            /\ \A nullable \in BOOLEAN :
                  /\ Findt(t, path, "any", nullable) # Nil <=> hits # {}
                  /\ Findt(t, path, "true", nullable) # Nil <=>
                        /\ hits # {}
                        /\ Kind(first) \in {"true", "false"}
                                           \cup (IF nullable THEN {"null"} ELSE {})
=============================================================================
