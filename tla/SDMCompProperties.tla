-------------------------- MODULE SDMCompProperties --------------------------
(***************************************************************************)
(* The properties of the display: PropertyParserImpl, the shared reader of *)
(* the property file (property_parser_impl.cpp, with Create and Destroy of *)
(* property_parser_interface.cpp), and SDMCompDebugHandler, its first user *)
(* and the keeper of what commands set (sdm_comp_debugger.cpp).            *)
(*                                                                         *)
(* The one SDMCompDebugHandler is a static object: it takes the parser     *)
(* before main and never gives it back.  Other users come and go, each     *)
(* destroying once what it created; GetInstance and Init are separate      *)
(* steps, only Init has the lock.                                          *)
(*                                                                         *)
(* The values are the numbers std::stoi makes of the texts; a text that is *)
(* no number ends the process and is left out.                             *)
(***************************************************************************)
EXTENDS Naturals, Sequences, FiniteSets

CONSTANTS
    User,       \* who creates a parser: clients, and the debug handler
    Handler,    \* the debug handler
    Key,        \* names of properties
    NoKey,      \* a line that has no '='
    Value,      \* values of properties
    NoValue,    \* of a key that is not in a map
    Files,      \* the contents a property file may have
    Absent,     \* no such file
    MaxObject   \* bound: PropertyParserImpl objects ever made

Line == [key : Key \cup {NoKey}, value : Value]
Object == 1 .. MaxObject
Properties == [Key -> Value \cup {NoValue}]

ASSUME PropertyConstants ==
    /\ IsFiniteSet(User) /\ Handler \in User
    /\ 0 \in Value /\ Value \subseteq Nat /\ NoValue \notin Value
    /\ NoKey \notin Key
    /\ Files \subseteq Seq(Line) /\ Absent \notin Files
    /\ MaxObject \in Nat \ {0}

VARIABLES
    files,      \* the property files, by place; nobody here writes them
    parser,     \* property_parser_impl_, 0 is nullptr
    made,       \* PropertyParserImpl objects made so far
    count,      \* ref_count_ of the parser
    map,        \* properties_map_ of each parser object
    stage,      \* where each user is between Create and Destroy
    has,        \* the parser each user got from GetInstance
    set         \* properties_map_ of the debug handler

parserVars == <<files, parser, made, count, map, stage, has>>
propertyVars == <<parserVars, set>>

PropertyTypeOK ==
    /\ files \in [{"persist", "usr"} -> Files \cup {Absent}]
    /\ parser \in 0 .. MaxObject /\ made \in 0 .. MaxObject
    /\ count \in Nat
    /\ map \in [Object -> Properties]
    /\ stage \in [User -> {"out", "got", "in"}]
    /\ has \in [User -> 0 .. MaxObject]
    /\ set \in Properties

NoProperties == [k \in Key |-> NoValue]

PropertyInit ==
    /\ files \in [{"persist", "usr"} -> Files \cup {Absent}]
    /\ parser = 0 /\ made = 0 /\ count = 0
    /\ map = [o \in Object |-> NoProperties]
    /\ stage = [u \in User |-> "out"]
    /\ has = [u \in User |-> 0]
    /\ set = NoProperties

---------------------------------------------------------------------------
(* The parser                                                              *)

\* The file that is read: the first of the two that is there.
PropertyFile ==
    IF files["persist"] # Absent THEN files["persist"]
    ELSE IF files["usr"] # Absent THEN files["usr"] ELSE <<>>

\* What emplacing the lines of a file makes of a map: the first line of a key.
LastOf(lines, k) ==
    LET at == {i \in DOMAIN lines : lines[i].key = k}
    IN  IF at = {} THEN NoValue
        ELSE lines[CHOOSE i \in at : \A j \in at : i >= j].value
FirstOf(lines, k) ==
    LET at == {i \in DOMAIN lines : lines[i].key = k}
    IN  IF at = {} THEN NoValue
        ELSE lines[CHOOSE i \in at : \A j \in at : i <= j].value
ParsedUnchecked(p, lines) ==
    [k \in Key \cup {NoKey} |-> IF k \in DOMAIN p /\ p[k] # NoValue THEN p[k]
                                ELSE FirstOf(lines, k)]
Parsed(p, lines) ==
    [k \in Key |-> IF p[k] # NoValue THEN p[k] ELSE FirstOf(lines, k)]

\* GetInstance.  No two users meet at the nullptr: while it is one, the
\* handler is the only thread.
GetInstance(u) ==
    /\ stage[u] = "out"
    /\ u = Handler \/ stage[Handler] = "in"
    /\ IF parser = 0
       THEN /\ made < MaxObject
            /\ made' = made + 1 /\ parser' = made'
       ELSE UNCHANGED <<made, parser>>
    /\ has' = [has EXCEPT ![u] = parser']
    /\ stage' = [stage EXCEPT ![u] = "got"]
    /\ UNCHANGED <<files, count, map, set>>

\* Init, and the pointer is the caller's.
InitParserUncounted(u) ==
    /\ stage[u] = "got"
    /\ count' = IF count = 0 THEN 1 ELSE count
    /\ map' = IF count # 0 THEN map
              ELSE [map EXCEPT ![has[u]] = Parsed(@, PropertyFile)]
    /\ stage' = [stage EXCEPT ![u] = "in"]
    /\ UNCHANGED <<files, parser, made, has, set>>
InitParser(u) ==
    /\ stage[u] = "got"
    /\ count' = count + 1
    /\ map' = IF count # 0 THEN map
              ELSE [map EXCEPT ![has[u]] = Parsed(@, PropertyFile)]
    /\ stage' = [stage EXCEPT ![u] = "in"]
    /\ UNCHANGED <<files, parser, made, has, set>>

\* Destroy, by anybody but the handler.
DestroyParser(u) ==
    /\ u # Handler /\ stage[u] = "in"
    /\ stage' = [stage EXCEPT ![u] = "out"]
    /\ has' = [has EXCEPT ![u] = 0]
    /\ IF count # 0
       THEN /\ count' = count - 1
            /\ parser' = IF count = 1 THEN 0 ELSE parser
       ELSE UNCHANGED <<count, parser>>
    /\ UNCHANGED <<files, made, map, set>>

ParserNext ==
    \E u \in User : GetInstance(u) \/ InitParser(u) \/ DestroyParser(u)

---------------------------------------------------------------------------
(* The debug handler                                                       *)

\* The value in map p, 0 where there is none: the caller's value is set to 0
\* first.
NumberIn(p, k) == IF p[k] = NoValue THEN 0 ELSE p[k]

\* What GetProperty of a number may yield.  The parser is asked, whatever a
\* command has set; one that has been deleted may say anything.
GetPropertyWithSet(k) ==
    IF set[k] # NoValue THEN {set[k]} ELSE {NumberIn(map[has[Handler]], k)}
GetProperty(k) ==
    IF has[Handler] = parser THEN {NumberIn(map[parser], k)} ELSE Value

\* SetProperty: the first value of a property stays.
SetProperty(k, v) ==
    /\ set' = [set EXCEPT ![k] = IF @ = NoValue THEN v ELSE @]
    /\ UNCHANGED parserVars

---------------------------------------------------------------------------
(* Properties                                                              *)

\* Who has a parser has the one there is, with the file in it, and is counted:
\* the counted singleton outlives each of its users, however they come and go
\* (property_parser_impl.cpp:58-63 and :91-105).
ParserStays ==
    /\ \A u \in User : stage[u] # "out" => has[u] = parser /\ parser # 0
    /\ \A u \in User : stage[u] = "in" =>
          map[has[u]] = Parsed(NoProperties, PropertyFile)
    /\ count = Cardinality({u \in User : stage[u] = "in"})
=============================================================================
