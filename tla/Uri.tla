-------------------------------- MODULE Uri ---------------------------------
(***************************************************************************)
(* The class Uri of src/src/Address/Uri.hpp: what its constructors make of *)
(* a text, of components and of another URI, and what its members give     *)
(* back.  A text is a sequence of characters.  A constructor that throws   *)
(* yields no object, so it is an operator with a set of at most one URI.   *)
(***************************************************************************)
EXTENDS Naturals, Sequences, SequencesExt

CONSTANTS
  SchemeChars,  \* letters, digits, "-", "+" and "."
  Lower,        \* tolower, a function on SchemeChars
  DigitOf,      \* the value of each digit, a function on the digits
  Blanks,       \* what std::isspace says yes to
  UlongMax      \* the largest unsigned long; std::stoul throws beyond

ASSUME UriAssumption ==
  /\ ":" \notin SchemeChars
  /\ Lower \in [SchemeChars -> SchemeChars]
  /\ \A c \in SchemeChars : Lower[Lower[c]] = Lower[c]
  /\ DigitOf \in [DOMAIN DigitOf -> 0..9]
  /\ \A d, e \in DOMAIN DigitOf : DigitOf[d] = DigitOf[e] => d = e
  /\ DOMAIN DigitOf \intersect (Blanks \union {"+", "-"}) = {}
  /\ UlongMax \in Nat

Hierarchical == "Hierarchical"
NonHierarchical == "NonHierarchical"

SeparatorChar == [ampersand |-> "&", semicolon |-> ";"]

ComponentNames == {"Scheme", "Content", "Username", "Password", "Host", "Port",
                   "Path", "Query", "Fragment"}

\* The members of the class, as the constructors initialise them.
Blank(category, separator) ==
  [category |-> category, separator |-> separator, scheme |-> <<>>,
   content |-> <<>>, username |-> <<>>, password |-> <<>>, host |-> <<>>,
   port |-> 0, path |-> <<>>, rooted |-> FALSE, query |-> <<>>, dict |-> {},
   fragment |-> <<>>]

\* Iterators: the first position from i on with a stopping character, else
\* the end; and whether a character is at a position.
Find(s, i, stops) == Min({j \in i..Len(s) : s[j] \in stops} \union {Len(s) + 1})
IsAt(s, i, char)  == i \in 1..Len(s) /\ s[i] = char
From(s, i)        == SubSeq(s, i, Len(s))

Digits == DOMAIN DigitOf
Number(s) ==
  LET value[n \in 0..Len(s)] == IF n = 0 THEN 0 ELSE 10 * value[n-1] + DigitOf[s[n]]
  IN  value[Len(s)]

(* std::stoul passes over blanks and a sign and reads digits up to the     *)
(* first other character.  It throws without a digit and out of range; a   *)
(* minus sign negates modulo UlongMax + 1.                                 *)
Past(s, i, chars) == Min({j \in i..Len(s) : s[j] \notin chars} \union {Len(s) + 1})
SignAt(s)   == Past(s, 1, Blanks)
NumberAt(s) ==
  IF IsAt(s, SignAt(s), "+") \/ IsAt(s, SignAt(s), "-") THEN SignAt(s) + 1 ELSE SignAt(s)
NumberIn(s) == SubSeq(s, NumberAt(s), Past(s, NumberAt(s), Digits) - 1)
Unsigned(s) ==
  LET n == Number(NumberIn(s))
  IN  IF IsAt(s, SignAt(s), "-") THEN (UlongMax + 1 - n) % (UlongMax + 1) ELSE n

Stoul(s) ==
  IF NumberIn(s) # <<>> /\ Number(NumberIn(s)) <= UlongMax THEN {Unsigned(s)} ELSE {}
-----------------------------------------------------------------------------
(* parse_scheme *)
SchemeThrows(text) ==
  LET end == Find(text, 1, {":"})
  IN  \/ end = 1 \/ end > Len(text)
      \/ \E i \in 1..end - 1 : text[i] \notin SchemeChars

\* Mutant of Scheme: the letters are not converted.
SchemeAsWritten(text) == SubSeq(text, 1, Find(text, 1, {":"}) - 1)

Scheme(text) ==
  [i \in 1..Find(text, 1, {":"}) - 1 |-> Lower[text[i]]]

(* parse_content, the authority: where its parts end. *)
HasAuthority(content) == IsPrefix(<<"/", "/">>, content)
HasUser(content)      == \E i \in 1..Len(content) : content[i] = "@"
UsernameEnd(content)  == Find(content, 3, {":", "@"})
PasswordEnd(content)  == Find(content, UsernameEnd(content) + 1, {"@"})
HostStart(content)    == IF HasUser(content) THEN PasswordEnd(content) + 1 ELSE 3

HostEnd(content) ==
  LET stop == Find(content, HostStart(content), {"[", ":", "/"})
  IN  IF IsAt(content, stop, "[") THEN Find(content, stop, {"]"}) + 1 ELSE stop

HasPort(content) == IsAt(content, HostEnd(content), ":")
PortEnd(content) ==
  IF HasPort(content) THEN Find(content, HostEnd(content) + 1, {"/"})
                      ELSE HostEnd(content)
PortText(content) == SubSeq(content, HostEnd(content) + 1, PortEnd(content) - 1)

AuthorityThrows(content) ==
  \/ HasUser(content) /\ IsAt(content, UsernameEnd(content), "@")
  \/ HostEnd(content) > Len(content) + 1
  \/ HasPort(content) /\ \E i \in 1..Len(PortText(content)) : PortText(content)[i] \notin Digits
  \/ HasPort(content) /\ Stoul(PortText(content)) = {}

\* Mutant of PathStart: the slash behind the authority is part of the path.
PathStartAtSlash(content) ==
  IF HasAuthority(content) THEN PortEnd(content)
  ELSE IF IsAt(content, 1, "/") THEN 2 ELSE 1

\* What follows an IP literal may be neither a port nor a path: path_start is
\* then still the beginning of the content.
PathStart(content) ==
  IF HasAuthority(content)
  THEN IF IsAt(content, PortEnd(content), "/") THEN PortEnd(content) + 1
       ELSE IF PortEnd(content) = Len(content) + 1 THEN Len(content) + 1
       ELSE 1
  ELSE IF IsAt(content, 1, "/") THEN 2 ELSE 1

IsRooted(content) ==
  IsAt(content, IF HasAuthority(content) THEN PortEnd(content) ELSE 1, "/")

WithAuthority(u, content) ==
  [u EXCEPT
    !.username = IF HasUser(content)
                 THEN SubSeq(content, 3, UsernameEnd(content) - 1) ELSE <<>>,
    !.password = IF HasUser(content)
                 THEN SubSeq(content, UsernameEnd(content) + 1, PasswordEnd(content) - 1)
                 ELSE <<>>,
    !.host = SubSeq(content, HostStart(content), HostEnd(content) - 1),
    !.port = IF HasPort(content) THEN Unsigned(PortText(content)) ELSE 0]

WithPath(u, content) ==
  [u EXCEPT !.rooted = IsRooted(content), !.path = From(content, PathStart(content))]

WithContent(u, content) ==
  LET v == [u EXCEPT !.content = content]
  IN  IF u.category # Hierarchical THEN v
      ELSE IF HasAuthority(content) THEN WithPath(WithAuthority(v, content), content)
      ELSE WithPath(v, content)
-----------------------------------------------------------------------------
(* init_query_dictionary: the stanzas start behind each separator. *)
Starts(query, char) ==
  IF query = <<>> THEN {} ELSE {0} \union {i \in 1..Len(query) : query[i] = char}

Stanza(query, start, char) == SubSeq(query, start + 1, Find(query, start + 1, {char}) - 1)
KeyOf(stanza)   == SubSeq(stanza, 1, Find(stanza, 1, {"="}) - 1)

\* Mutant of ValueOf: the equals sign is part of the value.
ValueWithSign(stanza) == From(stanza, Find(stanza, 1, {"="}))

ValueOf(stanza) == From(stanza, Find(stanza, 1, {"="}) + 1)

\* Mutant of QueryThrows: a key with another value is taken for another key.
QueryThrowsOnStanza(query, char) ==
  \E i, j \in Starts(query, char) :
    i # j /\ Stanza(query, i, char) = Stanza(query, j, char)

\* A key that occurs twice.
QueryThrows(query, char) ==
  \E i, j \in Starts(query, char) :
    i # j /\ KeyOf(Stanza(query, i, char)) = KeyOf(Stanza(query, j, char))

Dictionary(query, char) ==
  {<<KeyOf(Stanza(query, i, char)), ValueOf(Stanza(query, i, char))>> :
     i \in Starts(query, char)}
-----------------------------------------------------------------------------
(* setup: where content, query and fragment of a text are, and the object  *)
(* the constructors make of it.                                            *)
ContentStart(text) == Find(text, 1, {":"}) + 1
ContentEnd(text)   == Find(text, ContentStart(text), {"?", "#"})
Content(text)      == SubSeq(text, ContentStart(text), ContentEnd(text) - 1)
QueryEnd(text)     == IF IsAt(text, ContentEnd(text), "?")
                      THEN Find(text, ContentEnd(text) + 1, {"#"}) ELSE ContentEnd(text)
Query(text)        == SubSeq(text, ContentEnd(text) + 1, QueryEnd(text) - 1)
Fragment(text)     == From(text, QueryEnd(text) + 1)

SetupThrows(text, category, char) ==
  \/ SchemeThrows(text)
  \/ category = Hierarchical /\ HasAuthority(Content(text)) /\ AuthorityThrows(Content(text))
  \/ QueryThrows(Query(text), char)

Parse(text, category, separator) ==
  LET char == SeparatorChar[separator]
  IN  IF SetupThrows(text, category, char) THEN {}
      ELSE {[WithContent(Blank(category, separator), Content(text)) EXCEPT
               !.scheme = Scheme(text), !.query = Query(text),
               !.fragment = Fragment(text), !.dict = Dictionary(Query(text), char)]}

(* Uri(components, category, rooted_path, separator); components is a      *)
(* function on some of ComponentNames.  The dictionary stays empty.        *)
ComponentsThrow(c, category) ==
  LET given == DOMAIN c
      parts == {"Username", "Password", "Host", "Port", "Path"}
  IN  \/ "Scheme" \notin given \/ c["Scheme"] = <<>>
      \/ /\ category = Hierarchical
         /\ \/ "Content" \in given \/ "Path" \notin given
            \/ ~("Username" \in given <=> "Password" \in given)
            \/ "Port" \in given /\ Stoul(c["Port"]) = {}
      \/ /\ category # Hierarchical
         /\ given \intersect parts # {} \/ "Content" \notin given

Given(c, name, default) == IF name \in DOMAIN c THEN c[name] ELSE default
PortOf(c, default) == IF "Port" \in DOMAIN c THEN Unsigned(c["Port"]) ELSE default

\* The members a map of components replaces.
Overlay(u, c) ==
  [u EXCEPT
    !.scheme = Given(c, "Scheme", @),     !.content = Given(c, "Content", @),
    !.username = Given(c, "Username", @), !.password = Given(c, "Password", @),
    !.host = Given(c, "Host", @),         !.port = PortOf(c, @),
    !.path = Given(c, "Path", @),         !.query = Given(c, "Query", @),
    !.fragment = Given(c, "Fragment", @)]

FromComponents(c, category, rooted, separator) ==
  IF ComponentsThrow(c, category) THEN {}
  ELSE {Overlay([Blank(category, separator) EXCEPT !.rooted = rooted], c)}

(* Uri(other, replacements).  Here too the dictionary stays empty. *)
Replace(other, c) ==
  IF "Port" \in DOMAIN c /\ Stoul(c["Port"]) = {} THEN {}
  ELSE {Overlay([other EXCEPT !.dict = {}], c)}
-----------------------------------------------------------------------------
(* get_resource and to_string.  Numeral(n) is std::to_string. *)
GetResource(u) ==
  (IF u.rooted THEN <<"/">> ELSE <<>>) \o u.path
    \o (IF u.query = <<>> THEN <<>> ELSE <<"?">> \o u.query)
    \o (IF u.fragment = <<>> THEN <<>> ELSE <<"#">> \o u.fragment)

DigitFor(v) == CHOOSE d \in Digits : DigitOf[d] = v

Numeral(n) ==
  LET text[m \in 0..n] == IF m < 10 THEN <<DigitFor(m)>>
                          ELSE Append(text[m \div 10], DigitFor(m % 10))
  IN  text[n]

\* Mutant of AsText: user and password are not written.
AsTextWithoutUser(u) ==
  u.scheme \o <<":">>
    \o (IF u.category # Hierarchical THEN u.content
        ELSE <<"/", "/">> \o u.host
               \o (IF u.port = 0 THEN <<>> ELSE <<":">> \o Numeral(u.port)))
    \o GetResource(u)

AsText(u) ==
  u.scheme \o <<":">>
    \o (IF u.category # Hierarchical THEN u.content
        ELSE <<"/", "/">>
               \o (IF u.username = <<>> \/ u.password = <<>> THEN <<>>
                   ELSE u.username \o <<":">> \o u.password \o <<"@">>)
               \o u.host
               \o (IF u.port = 0 THEN <<>> ELSE <<":">> \o Numeral(u.port)))
    \o GetResource(u)
=============================================================================
