----------------------------- MODULE UriFormat ------------------------------
(***************************************************************************)
(* The format src/src/Address/Uri.hpp documents,                           *)
(*                                                                         *)
(*   scheme:[//[user:password@]domain[:port]][/]path[?query][#fragment]    *)
(*                                                                         *)
(* as a machine: a caller picks the parts of a URI, constructs an object   *)
(* from its text or from its components, replaces components and reads the *)
(* text back.  parts is what the object is to stand for, object what the   *)
(* class Uri makes of it: an empty set when the constructor throws.        *)
(***************************************************************************)
EXTENDS Uri

CONSTANTS
  Alphabet,   \* the characters of each part
  Stanzas,    \* what a query is made of: a key and a value each
  MaxChars,   \* bound on the characters beyond the first of the scheme
  Values      \* values an argument replaces a component with

VARIABLES parts, object, origin

vars == <<parts, object, origin>>

Texts == {"scheme", "user", "password", "domain", "port", "path", "fragment"}

(* No part has a character that would end it or one before it.  An "@" in  *)
(* a path would make the parser take the host for a user name.             *)
ASSUME FormatAssumption ==
  /\ Alphabet.scheme \subseteq SchemeChars /\ Alphabet.port \subseteq Digits
  /\ Alphabet.user     \intersect {":", "@", "?", "#"} = {}
  /\ Alphabet.password \intersect {"@", "?", "#"} = {}
  /\ Alphabet.domain   \intersect {"[", "]", "/", "@", "?", "#"} = {}
  /\ Alphabet.port     \intersect {"/", "@", "?", "#"} = {}
  /\ Alphabet.path     \intersect {"@", "?", "#"} = {}
  /\ Stanzas \subseteq [key : Seq(Alphabet.key), value : Seq(Alphabet.value)]
  /\ Alphabet.key   \intersect {"#", "&", ";", "="} = {}
  /\ Alphabet.value \intersect {"#", "&", ";"} = {}
  /\ Values \subseteq Seq(UNION {Alphabet[text] : text \in Texts})

(* The text of some parts.  An IP literal stands in brackets; a query is   *)
(* a sequence of stanzas, keys with or without a value.                    *)
Domain(p) == IF p.literal THEN <<"[">> \o p.domain \o <<"]">> ELSE p.domain

Pair(s) == s.key \o (IF s.value = <<>> THEN <<>> ELSE <<"=">> \o s.value)
Written(stanzas, char) ==
  LET text[n \in 0..Len(stanzas)] ==
        IF n = 0 THEN <<>>
        ELSE text[n-1] \o (IF n = 1 THEN <<>> ELSE <<char>>) \o Pair(stanzas[n])
  IN  text[Len(stanzas)]
QueryOf(p) == Written(p.stanzas, SeparatorChar[p.separator])

Marked(mark, text) == IF text = <<>> THEN <<>> ELSE <<mark>> \o text

Compose(p) ==
  p.scheme \o <<":">>
    \o (IF ~p.authority THEN <<>>
        ELSE <<"/", "/">>
               \o (IF p.user = <<>> THEN <<>>
                   ELSE p.user \o <<":">> \o p.password \o <<"@">>)
               \o Domain(p) \o Marked(":", p.port))
    \o (IF p.rooted THEN <<"/">> ELSE <<>>) \o p.path
    \o Marked("?", QueryOf(p)) \o Marked("#", p.fragment)

(* Parts the format can write down so that they can be told apart. *)
WellFormed(p) ==
  /\ p.user = <<>> <=> p.password = <<>>
  /\ p.literal \/ \A i \in 1..Len(p.domain) : p.domain[i] # ":"
  /\ p.port # <<>> => DigitOf[p.port[1]] # 0
  /\ p.category = NonHierarchical => ~p.authority /\ ~p.rooted
  /\ ~p.authority =>
       p.user = <<>> /\ p.domain = <<>> /\ p.port = <<>> /\ ~p.literal
  /\ p.authority => p.rooted \/ p.path = <<>>
  /\ p.category = Hierarchical /\ ~p.authority => ~IsAt(p.path, 1, "/")
  /\ p.stanzas # <<>> => QueryOf(p) # <<>>

HasDuplicates(p) ==
  \E i, j \in 1..Len(p.stanzas) : i # j /\ p.stanzas[i].key = p.stanzas[j].key
PortTooLarge(p) == p.port # <<>> /\ Number(p.port) > UlongMax
-----------------------------------------------------------------------------
(* Some components of the map the class takes. *)
Component(p) == [
  Scheme |-> p.scheme, Username |-> p.user, Password |-> p.password,
  Host |-> Domain(p), Port |-> p.port, Path |-> p.path, Content |-> p.path,
  Query |-> QueryOf(p), Fragment |-> p.fragment]

Components(p) ==
  LET unused == IF p.category = NonHierarchical
                THEN {"Username", "Password", "Host", "Port", "Path"}
                ELSE {"Content"} \union (IF p.port = <<>> THEN {"Port"} ELSE {})
  IN  [name \in ComponentNames \ unused |-> Component(p)[name]]

(* Nothing of an authority, a literal or a root where there can be none. *)
Forms == {f \in [category : {Hierarchical, NonHierarchical}, authority : BOOLEAN,
                 literal : BOOLEAN, rooted : BOOLEAN] :
            /\ f.category = NonHierarchical => ~f.authority /\ ~f.rooted
            /\ f.literal => f.authority}

Init ==
  /\ \E c \in Alphabet.scheme, f \in Forms, sep \in DOMAIN SeparatorChar :
       parts = [scheme |-> <<c>>, category |-> f.category, separator |-> sep,
                authority |-> f.authority, literal |-> f.literal, rooted |-> f.rooted,
                user |-> <<>>, password |-> <<>>, domain |-> <<>>, port |-> <<>>,
                path |-> <<>>, stanzas |-> <<>>, fragment |-> <<>>]
  /\ object = {} /\ origin = "none"

\* The characters somebody has picked.
Picked(p) ==
  Len(p.scheme) + Len(p.user) + Len(p.password) + Len(p.domain) + Len(p.port)
    + Len(p.path) + Len(p.fragment) + Len(QueryOf(p)) - 1

Grow(text) ==
  /\ origin = "none"
  /\ text \in {"user", "password", "domain", "port"} => parts.authority
  /\ \E c \in Alphabet[text] : parts' = [parts EXCEPT ![text] = Append(@, c)]
  /\ Picked(parts') <= MaxChars
  /\ UNCHANGED <<object, origin>>

GrowQuery ==
  /\ origin = "none"
  /\ \E stanza \in Stanzas : parts' = [parts EXCEPT !.stanzas = Append(@, stanza)]
  /\ Picked(parts') <= MaxChars
  /\ UNCHANGED <<object, origin>>

ConstructFromText ==
  /\ origin = "none" /\ WellFormed(parts)
  /\ object' = Parse(Compose(parts), parts.category, parts.separator)
  /\ origin' = "text"
  /\ UNCHANGED parts

ConstructFromComponents ==
  /\ origin = "none" /\ WellFormed(parts)
  /\ object' = FromComponents(Components(parts), parts.category, parts.rooted, parts.separator)
  /\ origin' = "components"
  /\ UNCHANGED parts

PartOf == [Scheme |-> "scheme", Username |-> "user", Password |-> "password",
           Host |-> "domain", Port |-> "port", Path |-> "path", Content |-> "path",
           Fragment |-> "fragment"]

Replaceable(p) ==
  DOMAIN PartOf \ {IF p.category = Hierarchical THEN "Content" ELSE "Path"}

ReplaceComponent(name) ==
  \E u \in object, value \in Values :
    /\ \A i \in 1..Len(value) : value[i] \in Alphabet[PartOf[name]]
    /\ name \in {"Scheme", "Port"} => value # <<>>
    /\ parts' = [parts EXCEPT ![PartOf[name]] = value]
    /\ WellFormed(parts') /\ Picked(parts') <= MaxChars
    /\ object' = Replace(u, [n \in {name} |-> Component(parts')[name]])
    /\ origin' = "components"

\* to_string writes an authority, even an empty one, for every hierarchical URI.
Writable(p) == p.category = NonHierarchical \/ p.authority

ReadAndConstruct ==
  /\ Writable(parts)
  /\ \E u \in object : object' = Parse(AsText(u), u.category, u.separator)
  /\ origin' = "text"
  /\ UNCHANGED parts

Next ==
  \/ \E text \in Texts : Grow(text)
  \/ GrowQuery
  \/ ConstructFromText \/ ConstructFromComponents
  \/ \E name \in Replaceable(parts) : ReplaceComponent(name)
  \/ ReadAndConstruct

Spec == Init /\ [][Next]_vars
-----------------------------------------------------------------------------
(* Properties. *)
InLowerCase(s) == [i \in 1..Len(s) |-> Lower[s[i]]]

(* The dictionary of a URI read from a text has the stanzas of its query,  *)
(* divided at the first equals sign.  That of every other URI is empty,    *)
(* whatever its query: get_query_dictionary promises more (Uri.hpp:337).   *)
DictionaryIsQuery ==
  \A u \in object :
    u.dict = IF origin = "text"
             THEN {<<parts.stanzas[i].key, parts.stanzas[i].value>> : i \in 1..Len(parts.stanzas)}
             ELSE {}

(* The scheme of a URI read from a text is in lower case.  The other       *)
(* constructors take the scheme as it is given, or from a URI that has     *)
(* been read: get_scheme promises lower case (Uri.hpp:218).                *)
SchemeIsKept ==
  \A u \in object :
    /\ u.scheme \in {parts.scheme, InLowerCase(parts.scheme)}
    /\ origin = "text" => u.scheme = InLowerCase(parts.scheme)

(* The members give back the parts the format names, whether the object    *)
(* came from a text, from components, or from another object.              *)
DenotesParts ==
  \A u \in object :
    /\ parts.category = NonHierarchical => u.content = parts.path
    /\ parts.category = Hierarchical =>
         /\ u.username = parts.user /\ u.password = parts.password
         /\ u.host = Domain(parts) /\ u.port = Number(parts.port)
         /\ u.path = parts.path /\ u.rooted = parts.rooted
    /\ u.query = QueryOf(parts) /\ u.fragment = parts.fragment
    /\ SchemeIsKept /\ DictionaryIsQuery

(* A constructor throws for a port out of range and, when it reads a text, *)
(* for a key that occurs twice; every other URI of the format is accepted. *)
ThrowsWhenInvalid ==
  origin # "none" =>
    (object = {} <=> \/ PortTooLarge(parts)
                     \/ origin = "text" /\ HasDuplicates(parts))

(* to_string writes the text of the format that stands for the parts, so   *)
(* that a server or a second constructor reads the same URI.               *)
WritesFormat ==
  \A u \in object :
    Writable(parts) =>
      AsText(u) = Compose([parts EXCEPT !.scheme = u.scheme])
=============================================================================
