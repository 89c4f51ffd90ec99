------------------------------ MODULE MirrorNames ------------------------------
(***************************************************************************)
(* How a mirror is named.  create_table takes the name from its caller     *)
(* (parse_table), runs CREATE TABLE with it in a session of its own        *)
(* (get_loopback_uri, uri_encode) and registers it in moonlink; the drop   *)
(* trigger derives the name to forget from the catalog (functions.rs).     *)
(* Texts are sequences of characters.  Everything here succeeds at once:   *)
(* MirrorTables has the failures and interleavings.                        *)
(***************************************************************************)
EXTENDS Naturals, FiniteSets, SequencesExt

CONSTANTS
  Args,            \* texts that clients pass for a table
  Callers,         \* databases, users and socket directories
  Schemas,         \* names of the schemas there are
  CurrentSchema,   \* current_schema()
  NewNames,        \* what a client may rename a mirror to
  MaxLen,          \* how long a name PostgreSQL keeps (NAMEDATALEN - 1, or 63)
  MaxTables,       \* bound: mirrors at a time
  MaxKeys          \* bound: no mirror is made once moonlink knows so many names

\* Texts are over one character for each class that the code tells apart: those
\* of identifiers, and those of URIs with the hexadecimal digits.
Dq == "\""
Comma == ","
Blank == " "
Lower == {"a"}
Word  == {"a", "A", "$"}   \* of [\w$]
NameChars == Word \cup {Dq, ".", Blank}
Names == Seq(NameChars) \ {<<>>}

Special == {"%", "/", "?", "&", "=", Comma, Blank}
UriChars == Special \cup {"a", "h", "p", "u", "0", "1", "2", "3", "5", "6", "C", "D", "F"}

ASSUME BoundAssumption == MaxTables \in Nat /\ MaxKeys \in Nat

\* Arguments may be longer than any name in the catalog.
ASSUME TextAssumption ==
  /\ MaxLen \in Nat \ {0}
  /\ Args \subseteq Seq(NameChars)
  /\ Schemas \subseteq Names /\ CurrentSchema \in Schemas
  /\ NewNames \subseteq Names
  /\ \A name \in Schemas \cup NewNames : Len(name) <= MaxLen
  /\ Callers \subseteq [database : Seq(UriChars), user : Seq(UriChars), sockets : Seq(UriChars)]

VARIABLES
  caller,    \* [database, user, sockets]: where the client is, and as whom
  loopback,  \* [database, user, host]: where its loopback sessions are
  tables,    \* mirrors; made: the name registered for it; history: cut, whether
             \* PostgreSQL made it under a shorter one, and renamed
  keys       \* names that moonlink knows in the client's database

vars == <<caller, loopback, tables, keys>>

-----------------------------------------------------------------------------
(***************************************************************************)
(* Identifiers.                                                            *)
(***************************************************************************)

\* Quotation marks among the first i characters; one that ends a text in quotes,
\* or is the first of two that stand for one.
Marks(text, i) == Cardinality({k \in 1..i : text[k] = Dq})
Closes(text, i) == text[i] = Dq /\ Marks(text, i) % 2 = 0

\* "([^"]|"")+"
IsQuoted(text) ==
  /\ Len(text) >= 3 /\ text[1] = Dq /\ Closes(text, Len(text))
  /\ \A i \in 1..Len(text) - 1 : Closes(text, i) => text[i + 1] = Dq

\* A text in quotes, each mark in it doubled; and what stands in quotes.
Double(c) == IF c = Dq THEN <<Dq, Dq>> ELSE <<c>>
Quoted(text) == <<Dq>> \o FlattenSeq([i \in DOMAIN text |-> Double(text[i])]) \o <<Dq>>
Unquoted(text) ==
  FlattenSeq([i \in 1..Len(text) - 1 |->
    IF text[i] = Dq /\ ~Closes(text, i) THEN <<>> ELSE <<text[i]>>])

\* The pattern ident of parse_table, and the ways in which a text matches it all.
Ident(text) == (text # <<>> /\ ToSet(text) \subseteq Word) \/ IsQuoted(text)

Matches(text) ==
  {<<CurrentSchema, text>> : x \in {y \in {text} : Ident(y)}} \cup
  {<<SubSeq(text, 1, i - 1), SubSeq(text, i + 1, Len(text))>> :
     i \in {j \in DOMAIN text : /\ text[j] = "."
                                /\ Ident(SubSeq(text, 1, j - 1))
                                /\ Ident(SubSeq(text, j + 1, Len(text)))}}

\* PostgreSQL's quote_identifier: quotes where they are needed.
quote_ident(name) == IF ToSet(name) \subseteq Lower THEN name ELSE Quoted(name)

Qualified(schema, name) == quote_ident(schema) \o <<".">> \o quote_ident(name)

\* The name that PostgreSQL reads in an identifier: case matters in quotes only.
Read(ident) ==
  IF IsQuoted(ident) THEN Unquoted(ident)
  ELSE [i \in DOMAIN ident |-> IF ident[i] = "A" THEN "a" ELSE ident[i]]

\* What it keeps of a name that is too long.
Cut(name) == IF Len(name) > MaxLen THEN SubSeq(name, 1, MaxLen) ELSE name

\* The result of parse_table, what it spells, and the table that CREATE TABLE
\* makes of it.
Parsed_Verbatim(m) == m[1] \o <<".">> \o m[2]
Parsed(m) == Qualified(m[1], m[2])
Spelled(key) == LET m == CHOOSE m \in Matches(key) : TRUE IN <<Read(m[1]), Read(m[2])>>
Named(key) == <<Cut(Spelled(key)[1]), Cut(Spelled(key)[2])>>

\* The name that drop_trigger sends for a table.
Forgotten_Unqualified(t) == Qualified(CurrentSchema, t.name)
Forgotten(t) == Qualified(t.schema, t.name)

-----------------------------------------------------------------------------
(***************************************************************************)
(* The loopback URI: postgresql:///database?host=..&port=..&user=..        *)
(* The keys of the parameters are h, p and u.                              *)
(***************************************************************************)

Hex == [c \in Special |->
          CASE c = "%" -> <<"2", "5">> [] c = "/" -> <<"2", "F">> [] c = "?" -> <<"3", "F">>
            [] c = "&" -> <<"2", "6">> [] c = "=" -> <<"3", "D">> [] c = Comma -> <<"2", "C">>
            [] c = Blank -> <<"2", "0">>]

Encode_KeepsPercent(c) == IF c \in Special \ {"%"} THEN <<"%">> \o Hex[c] ELSE <<c>>
Encode(c) == IF c \in Special THEN <<"%">> \o Hex[c] ELSE <<c>>

uri_encode(text) == FlattenSeq([i \in DOMAIN text |-> Encode(text[i])])

\* The text from the first to the last of these places.
Span(text, places) == IF places = {} THEN <<>> ELSE SubSeq(text, Min(places), Max(places))

\* The first of the socket directories, trimmed.
Host(sockets) ==
  Span(sockets, {i \in DOMAIN sockets : sockets[i] # Blank /\ Comma \notin ToSet(SubSeq(sockets, 1, i))})

get_loopback_uri ==
  uri_encode(caller.database) \o <<"?", "h", "=">> \o uri_encode(Host(caller.sockets))
    \o <<"&", "p", "=", "1", "&", "u", "=">> \o uri_encode(caller.user)

\* How the client library takes it apart: at ?, at every &, and at =.
\* The characters that the three at i stand for: one, if they are an escape.
Escaped(text, i) ==
  {c \in Special : i \in 1..Len(text) - 2 /\ SubSeq(text, i, i + 2) = <<"%">> \o Hex[c]}

Decode(text) ==
  FlattenSeq([i \in DOMAIN text |->
    IF Escaped(text, i - 1) \cup Escaped(text, i - 2) # {} THEN <<>>
    ELSE IF Escaped(text, i) = {} THEN <<text[i]>>
    ELSE <<CHOOSE c \in Escaped(text, i) : TRUE>>])

\* The pieces of text that start after a character of L, or with the text, and
\* reach to the next one of R, or to the end.
Starts(text, L) == {i \in DOMAIN text : i = 1 \/ text[i - 1] \in L}
Ends(text, i, R) ==
  {j \in i - 1..Len(text) : /\ j = Len(text) \/ text[j + 1] \in R
                            /\ \A k \in i..j : text[k] \notin R}
Pieces(text, L, R) ==
  UNION {{SubSeq(text, i, j) : j \in Ends(text, i, R)} : i \in Starts(text, L)}

Param(uri, key) ==
  {Decode(SubSeq(p, 3, Len(p))) :
     p \in {q \in Pieces(uri, {"?", "&"}, {"&"}) : Len(q) >= 2 /\ SubSeq(q, 1, 2) = <<key, "=">>}}

Place(uri) ==
  [database : {Decode(p) : p \in Pieces(uri, {}, {"?"})},
   host     : Param(uri, "h"),
   user     : Param(uri, "u")]

-----------------------------------------------------------------------------

Init ==
  /\ caller \in Callers
  /\ loopback \in Place(get_loopback_uri)
  /\ tables = {}
  /\ keys = {}

\* What create_table makes of an argument that parse_table accepts.
Made(m) ==
  LET n == Named(Parsed(m))
  IN [schema |-> n[1], name |-> n[2], made |-> Parsed(m),
      cut |-> n # Spelled(Parsed(m)), renamed |-> FALSE]

Calls == UNION {{[arg |-> arg, table |-> Made(m)] : m \in Matches(arg)} : arg \in Args}

Taken(schema, name) == \E t \in tables : t.schema = schema /\ t.name = name

\* CREATE TABLE succeeds.
Creates(t) ==
  /\ Cardinality(tables) < MaxTables
  /\ t.schema \in Schemas
  /\ ~Taken(t.schema, t.name)

create_table(t) ==
  /\ Creates(t)
  /\ t.made \notin keys
  /\ Cardinality(keys) < MaxKeys
  /\ tables' = tables \cup {t}
  /\ keys' = keys \cup {t.made}
  /\ UNCHANGED <<caller, loopback>>

\* moonlink knows the name already: the new table is dropped, with its trigger.
create_table_rejected(t) ==
  /\ Creates(t)
  /\ t.made \in keys
  /\ keys' = keys \ {Forgotten(t)}
  /\ UNCHANGED <<caller, loopback, tables>>

DropTable(t) ==
  /\ tables' = tables \ {t}
  /\ keys' = keys \ {Forgotten(t)}
  /\ UNCHANGED <<caller, loopback>>

\* ALTER TABLE .. RENAME, or SET SCHEMA: no trigger of the extension fires.
Rename(t, name) ==
  /\ ~Taken(t.schema, name)
  /\ tables' = (tables \ {t}) \cup {[t EXCEPT !.name = name, !.renamed = TRUE]}
  /\ UNCHANGED <<caller, loopback, keys>>

Next ==
  \/ \E call \in Calls : create_table(call.table) \/ create_table_rejected(call.table)
  \/ \E t \in tables : DropTable(t) \/ \E name \in NewNames : Rename(t, name)

Spec == Init /\ [][Next]_vars

-----------------------------------------------------------------------------
(***************************************************************************)
(* Properties.                                                             *)
(***************************************************************************)

\* The loopback session is one in the caller's database, as the caller: the URI
\* says so whatever characters their names have.
LoopbackComesHome ==
  loopback = [database |-> caller.database, user |-> caller.user,
              host |-> Host(caller.sockets)]

\* A mirror that was never renamed is registered under its name until it is
\* dropped: no drop and no failed creation of another one takes its name for its
\* own, be it of another schema, quoted, cut, or renamed.
MirrorsKeepTheirNames == \A t \in tables : ~t.renamed => t.made \in keys

\* DROP TABLE of such a mirror makes moonlink forget the very name under which
\* create_table registered it, unless that name was too long for PostgreSQL:
\* parse_table and the trigger, which start from the argument and from the
\* catalog, agree on how to write it.
DroppedIsForgotten ==
  [][\A t \in tables :
       ~t.renamed /\ ~t.cut /\ (\A u \in tables' : u.made # t.made)
         => t.made \notin keys']_vars

\* An argument names the table that PostgreSQL's lexical rules, to which
\* parse_table refers, say it does: identifiers fold to lower case, quotes are not
\* part of a name, and what is too long is cut.
NamesFollowPostgres ==
  [][\A call \in Calls : call.table \in tables' \ tables =>
       \E m \in Matches(call.arg) : call.table.name = Cut(Read(m[2]))]_vars
=============================================================================
