------------------------- MODULE SDMCompDemuraProofs -------------------------
(***************************************************************************)
(* Theorems about SDMCompDemura, for any users, files and commands.        *)
(***************************************************************************)
EXTENDS SDMCompDemura, FiniteSetTheorems, TLAPS

---------------------------------------------------------------------------
(* Files                                                                   *)

\* The library has this for an operator only; here it comes from the strict
\* order of finite sets.
LEMMA LeastNatural ==
    ASSUME NEW T \in SUBSET Nat, T # {}
    PROVE  \E x \in T : \A y \in T : x <= y
<1> DEFINE Below == {0 .. x : x \in T}
           R == StrictSubsetOrdering(Nat)
<1>1. Below \subseteq FiniteSubsetsOf(Nat) /\ Below # {}
    <2>1. ASSUME NEW x \in T
          PROVE  0 .. x \in SUBSET Nat /\ IsFiniteSet(0 .. x)
        <3>1. 0 \in Int /\ x \in Int
            BY SMT
        <3>2. QED
            BY <3>1, FS_Interval, SMT
    <2>2. QED
        BY <2>1, Zenon DEF FiniteSubsetsOf
<1>2. PICK b \in Below : \A c \in Below : ~ (<<c, b>> \in R)
    <2> HIDE DEF Below, R
    <2>1. IsWellFoundedOn(R, FiniteSubsetsOf(Nat))
        BY FS_StrictSubsetOrderingWellFounded DEF R
    <2>2. QED
        BY <1>1, <2>1, WFMin
<1>3. PICK x \in T : b = 0 .. x
    BY <1>2
<1>4. ASSUME NEW y \in T, y < x
      PROVE  FALSE
    <2>1. 0 .. y \in Below /\ 0 .. y \subseteq 0 .. x /\ x \in 0 .. x /\ x \notin 0 .. y
        BY <1>4, SMT
    <2>2. <<0 .. y, b>> \in R
        BY <2>1, <1>3 DEF StrictSubsetOrdering
    <2>3. QED
        BY <1>2, <2>1, <2>2
<1>5. QED
    BY <1>4, SMT

At(lines, k) == {i \in DOMAIN lines : lines[i].key = k}

\* FirstOf finds a first line when there is one.
LEMMA FirstLine ==
    ASSUME NEW lines \in Seq(Line), NEW k, At(lines, k) # {}
    PROVE  \E i \in At(lines, k) :
              /\ \A j \in At(lines, k) : i <= j
              /\ FirstOf(lines, k) = lines[i].value
<1> DEFINE First(i) == i \in At(lines, k) /\ \A j \in At(lines, k) : i <= j
           f == CHOOSE i \in At(lines, k) : \A j \in At(lines, k) : i <= j
<1>1. At(lines, k) \in SUBSET Nat
    BY SMT DEF At
<1>2. \E i \in At(lines, k) : \A j \in At(lines, k) : i <= j
    BY <1>1, LeastNatural
<1>3. f \in At(lines, k) /\ \A j \in At(lines, k) : f <= j
    BY <1>2, Zenon
<1>4. FirstOf(lines, k) = lines[f].value
    BY Zenon DEF FirstOf, At
<1>5. QED
    BY <1>3, <1>4, Zenon

LEMMA FileLines ==
    PropertyTypeOK => PropertyFile \in Seq(Line)
BY PropertyConstants, SMT DEF PropertyTypeOK, PropertyFile

LEMMA FirstTyped ==
    ASSUME NEW lines \in Seq(Line), NEW k
    PROVE  FirstOf(lines, k) \in Value \cup {NoValue}
<1>1. CASE At(lines, k) = {}
    BY <1>1, Zenon DEF FirstOf, At
<1>2. CASE At(lines, k) # {}
    <2>1. \A i \in At(lines, k) : lines[i] \in Line
        BY SMT DEF At
    <2>2. PICK i \in At(lines, k) : FirstOf(lines, k) = lines[i].value
        BY <1>2, FirstLine
    <2>3. QED
        BY <2>1, <2>2, SMT DEF Line
<1>3. QED
    BY <1>1, <1>2

LEMMA ParsedTyped ==
    ASSUME NEW p \in Properties, NEW lines \in Seq(Line)
    PROVE  Parsed(p, lines) \in Properties
BY FirstTyped, Zenon DEF Parsed, Properties

\* A key that the file gives a number other than 0 is configured.
LEMMA ConfiguredByFile ==
    ASSUME PropertyTypeOK,
           NumberIn(Parsed(NoProperties, PropertyFile), Demura) # 0
    PROVE  Configured
<1>1. PropertyFile \in Seq(Line)
    BY FileLines
<1>2. /\ FirstOf(PropertyFile, Demura) # NoValue
      /\ FirstOf(PropertyFile, Demura) # 0
    BY DemuraConstants, Zenon DEF NumberIn, Parsed, NoProperties
<1>3. At(PropertyFile, Demura) # {}
    BY <1>2, Zenon DEF FirstOf, At
<1>4. PICK i \in At(PropertyFile, Demura) :
          /\ \A j \in At(PropertyFile, Demura) : i <= j
          /\ FirstOf(PropertyFile, Demura) = PropertyFile[i].value
    BY <1>1, <1>3, FirstLine
<1>5. ASSUME NEW j \in 1 .. i - 1
      PROVE  PropertyFile[j].key # Demura
    <2>1. i \in DOMAIN PropertyFile
        BY DEF At
    <2>2. j \in DOMAIN PropertyFile /\ ~ (i <= j)
        BY <1>1, <2>1, SMT
    <2>3. QED
        BY <1>4, <2>2, Zenon DEF At
<1>6. QED
    BY <1>2, <1>4, <1>5, Zenon DEF Configured, At

---------------------------------------------------------------------------
(* The parser                                                              *)

In == {u \in User : stage[u] = "in"}

\* The handler comes first and stays, so whoever comes later finds its parser.
ParserInv ==
    /\ \A u \in User : stage[u] # "out" => has[u] = parser /\ parser \in Object
    /\ stage[Handler] = "out" => parser = 0
    /\ stage[Handler] # "in" =>
          /\ \A u \in User \ {Handler} : stage[u] = "out"
          /\ map = [o \in Object |-> NoProperties]
    /\ stage[Handler] = "in" => map[parser] = Parsed(NoProperties, PropertyFile)
    /\ count = Cardinality(In)

LEMMA InFinite == IsFiniteSet(In) /\ Cardinality(In) \in Nat
<1>1. In \in SUBSET User
    BY DEF In
<1>2. IsFiniteSet(In)
    BY <1>1, PropertyConstants, FS_Subset
<1>3. QED
    BY <1>2, FS_CardinalityType

LEMMA ParserInit ==
    PropertyInit => PropertyTypeOK /\ ParserInv
<1> SUFFICES ASSUME PropertyInit PROVE PropertyTypeOK /\ ParserInv
    OBVIOUS
<1>1. NoProperties \in Properties
    BY DEF NoProperties, Properties
<1>2. PropertyTypeOK
    BY <1>1, PropertyConstants, SMT DEF PropertyInit, PropertyTypeOK
<1>3. In = {}
    BY Zenon DEF In, PropertyInit
<1>4. ParserInv
    BY <1>3, FS_EmptySet, PropertyConstants, Zenon DEF ParserInv, PropertyInit
<1>5. QED
    BY <1>2, <1>4

LEMMA GetInstanceKeeps ==
    ASSUME PropertyTypeOK, ParserInv, NEW u \in User, GetInstance(u)
    PROVE  PropertyTypeOK' /\ ParserInv'
<1> USE DEF GetInstance
<1>1. PropertyTypeOK'
    BY PropertyConstants, SMT DEF PropertyTypeOK
<1>2. In' = In
    BY Zenon DEF In, PropertyTypeOK
<1>3. PropertyFile' = PropertyFile
    BY Zenon DEF PropertyFile
<1>4. CASE u = Handler
    <2>1. parser = 0 /\ parser' = made + 1 /\ made < MaxObject
        BY <1>4, Zenon DEF ParserInv
    <2>2. parser' \in Object
        BY <2>1, PropertyConstants, SMT DEF PropertyTypeOK, Object
    <2>3. stage[Handler] # "in" /\ stage'[Handler] = "got" /\ has'[u] = parser'
        BY <1>4, Zenon DEF PropertyTypeOK
    <2>4. \A v \in User \ {Handler} : stage'[v] = "out"
        BY <1>4, <2>3, Zenon DEF ParserInv, PropertyTypeOK
    <2>5. QED
        BY <1>1, <1>2, <1>4, <2>2, <2>3, <2>4, Zenon DEF ParserInv
<1>5. CASE u # Handler
    <2>1. stage[Handler] = "in" /\ stage'[Handler] = "in"
        BY <1>5, PropertyConstants, Zenon DEF PropertyTypeOK
    <2>2. parser \in Object /\ parser # 0
        BY <2>1, PropertyConstants, SMT DEF ParserInv, Object
    <2>3. parser' = parser
        BY <2>2, Zenon
    <2>4. \A v \in User : stage'[v] # "out" => has'[v] = parser'
        BY <2>3, Zenon DEF ParserInv, PropertyTypeOK
    <2>5. QED
        BY <1>1, <1>2, <1>3, <2>1, <2>2, <2>3, <2>4, Zenon DEF ParserInv
<1>6. QED
    BY <1>4, <1>5

LEMMA InitParserKeeps ==
    ASSUME PropertyTypeOK, ParserInv, NEW u \in User, InitParser(u)
    PROVE  PropertyTypeOK' /\ ParserInv'
<1> USE DEF InitParser
<1>1. PropertyFile' = PropertyFile /\ PropertyFile \in Seq(Line)
    BY FileLines, Zenon DEF PropertyFile
<1>2. parser \in Object /\ has[u] = parser /\ parser' = parser
    BY Zenon DEF ParserInv
<1>3. map[parser] \in Properties /\ Parsed(map[parser], PropertyFile) \in Properties
    BY <1>1, <1>2, ParsedTyped, Zenon DEF PropertyTypeOK
<1>4. PropertyTypeOK'
    BY <1>2, <1>3, SMT DEF PropertyTypeOK
<1>5. In' = In \cup {u} /\ u \notin In
    BY Zenon DEF In, PropertyTypeOK
<1>6. Cardinality(In') = count'
    <2>1. Cardinality(In') = Cardinality(In) + 1
        BY <1>5, InFinite, FS_AddElement, Zenon
    <2>2. QED
        BY <2>1, Zenon DEF ParserInv
<1>7. \A v \in User : stage'[v] # "out" => has'[v] = parser'
    BY <1>2, Zenon DEF ParserInv, PropertyTypeOK
<1>8. CASE u = Handler
    <2>1. In = {}
        BY <1>8, PropertyConstants, Zenon DEF In, ParserInv
    <2>2. count = 0 /\ map[parser] = NoProperties
        BY <1>2, <1>8, <2>1, FS_EmptySet, Zenon DEF ParserInv
    <2>3. map'[parser] = Parsed(NoProperties, PropertyFile)
        BY <1>2, <2>2, Zenon DEF PropertyTypeOK
    <2>4. stage'[Handler] = "in"
        BY <1>8, Zenon DEF PropertyTypeOK
    <2>5. QED
        BY <1>1, <1>2, <1>4, <1>6, <1>7, <2>3, <2>4, Zenon DEF ParserInv
<1>9. CASE u # Handler
    <2>1. stage[Handler] = "in" /\ stage'[Handler] = "in"
        BY <1>9, PropertyConstants, Zenon DEF PropertyTypeOK, ParserInv
    <2>2. In # {}
        BY <2>1, PropertyConstants, Zenon DEF In
    <2>3. count # 0
        BY <2>2, InFinite, FS_EmptySet, Zenon DEF ParserInv
    <2>4. QED
        BY <1>1, <1>2, <1>4, <1>6, <1>7, <2>1, <2>3, Zenon DEF ParserInv
<1>10. QED
    BY <1>8, <1>9

LEMMA DestroyParserKeeps ==
    ASSUME PropertyTypeOK, ParserInv, NEW u \in User, DestroyParser(u)
    PROVE  PropertyTypeOK' /\ ParserInv'
<1> USE DEF DestroyParser
<1>1. PropertyFile' = PropertyFile
    BY Zenon DEF PropertyFile
<1>2. u \in In /\ In' = In \ {u}
    BY Zenon DEF In, PropertyTypeOK
<1>3. stage[Handler] = "in" /\ stage'[Handler] = "in"
    BY PropertyConstants, Zenon DEF PropertyTypeOK, ParserInv
<1>4. Handler \in In'
    BY <1>3, PropertyConstants, Zenon DEF In
<1>5. IsFiniteSet(In') /\ Cardinality(In') = Cardinality(In) - 1
    BY <1>2, InFinite, FS_RemoveElement, Zenon
<1>6. Cardinality(In') \in Nat /\ Cardinality(In') # 0
    BY <1>4, <1>5, FS_EmptySet, FS_CardinalityType, Zenon
<1>7. count # 0 /\ count # 1 /\ count \in Nat /\ count' = Cardinality(In')
    BY <1>5, <1>6, InFinite, SMT DEF ParserInv
<1>8. parser' = parser
    BY <1>7, Zenon
<1>9. count' \in Nat
    BY <1>6, <1>7
<1>10. PropertyTypeOK'
    BY <1>8, <1>9, PropertyConstants, SMT DEF PropertyTypeOK
<1>11. \A v \in User : stage'[v] # "out" => has'[v] = parser' /\ parser' \in Object
    BY <1>8, Zenon DEF ParserInv, PropertyTypeOK
<1>12. QED
    BY <1>1, <1>3, <1>7, <1>8, <1>10, <1>11, Zenon DEF ParserInv
---------------------------------------------------------------------------
(* Steps of the whole                                                      *)

\* Which steps there are, for the proofs by cases.
LEMMA Steps ==
    ASSUME [Next]_vars
    PROVE  \/ ParserNext /\ UNCHANGED demuraVars
           \/ HandleSetProperties
           \/ UNCHANGED vars
           \/ SessionNext
           \/ Receive \/ Defer
           \/ \E w \in Worker : HandleImportDemuraBuffers(w)
           \/ \E s \in Session : DrainStarts(s) \/ DrainNext(s) \/ DrainEnds(s)
BY Zenon DEF Next, CommandNext

\* Sessions and commands leave the properties alone.
LEMMA PropertiesAlone ==
    ASSUME \/ SessionNext \/ Receive \/ Defer
           \/ \E w \in Worker : HandleImportDemuraBuffers(w)
           \/ \E s \in Session : DrainStarts(s) \/ DrainNext(s) \/ DrainEnds(s)
    PROVE  UNCHANGED propertyVars
<1>1. SessionNext => UNCHANGED propertyVars
    BY Zenon DEF SessionNext, Register, CreateCore, CreateCoreFails, Leave, Unregister,
       DestroyCore, DestroyCoreFails, ProcessOps
<1>2. Receive \/ Defer => UNCHANGED propertyVars
    BY Zenon DEF Receive, Defer
<1>3. \A w \in Worker : HandleImportDemuraBuffers(w) => UNCHANGED propertyVars
    BY Zenon DEF HandleImportDemuraBuffers, DemuraOff, DemuraOn, Import, ImportFails,
       FetchCallback, OnEvent, OnEventFails
<1>4. \A s \in Session :
         DrainStarts(s) \/ DrainNext(s) \/ DrainEnds(s) => UNCHANGED propertyVars
    BY Zenon DEF DrainStarts, DrainNext, DrainEnds
<1>5. QED
    BY <1>1, <1>2, <1>3, <1>4, Zenon

LEMMA ParserKept ==
    ASSUME PropertyTypeOK, ParserInv, UNCHANGED parserVars, set' \in Properties
    PROVE  PropertyTypeOK' /\ ParserInv'
<1>1. In' = In /\ PropertyFile' = PropertyFile
    BY Zenon DEF In, PropertyFile, parserVars
<1>2. QED
    BY <1>1, Zenon DEF PropertyTypeOK, ParserInv, parserVars

LEMMA NextParser ==
    ASSUME PropertyTypeOK, ParserInv, [Next]_vars
    PROVE  PropertyTypeOK' /\ ParserInv'
<1>1. CASE ParserNext
    BY <1>1, GetInstanceKeeps, InitParserKeeps, DestroyParserKeeps, Zenon DEF ParserNext
<1>2. CASE HandleSetProperties
    <2>1. PICK k \in Key, v \in Value : SetProperty(k, v)
        BY <1>2, Zenon DEF HandleSetProperties
    <2>2. set' \in Properties
        BY <2>1, SMT DEF SetProperty, PropertyTypeOK, Properties
    <2>3. UNCHANGED parserVars
        BY <2>1, Zenon DEF SetProperty
    <2>4. QED
        BY <2>2, <2>3, ParserKept
<1>3. CASE UNCHANGED propertyVars
    BY <1>3, ParserKept, Zenon DEF propertyVars, PropertyTypeOK
<1>4. CASE UNCHANGED vars
    BY <1>3, <1>4, Zenon DEF vars
<1>5. QED
    BY <1>1, <1>2, <1>3, <1>4, Steps, PropertiesAlone, Zenon

\* Files never change, the handler never leaves.
LEMMA ConfigurationStays ==
    ASSUME PropertyTypeOK, ParserInv, [Next]_vars
    PROVE  /\ Configured' = Configured
           /\ stage[Handler] = "in" => stage'[Handler] = "in"
<1>1. /\ files' = files
      /\ stage[Handler] = "in" => stage'[Handler] = "in"
    <2>1. CASE ParserNext
        <3>1. PICK u \in User : GetInstance(u) \/ InitParser(u) \/ DestroyParser(u)
            BY <2>1, Zenon DEF ParserNext
        <3>2. CASE GetInstance(u)
            BY <3>2, PropertyConstants, Zenon DEF GetInstance, PropertyTypeOK
        <3>3. CASE InitParser(u)
            BY <3>3, PropertyConstants, Zenon DEF InitParser, PropertyTypeOK
        <3>4. CASE DestroyParser(u)
            BY <3>4, PropertyConstants, Zenon DEF DestroyParser, PropertyTypeOK
        <3>5. QED
            BY <3>1, <3>2, <3>3, <3>4
    <2>2. CASE HandleSetProperties
        BY <2>2, Zenon DEF HandleSetProperties, SetProperty, parserVars
    <2>3. CASE UNCHANGED propertyVars
        BY <2>3, Zenon DEF propertyVars, parserVars
    <2>4. CASE UNCHANGED vars
        BY <2>3, <2>4, Zenon DEF vars
    <2>5. QED
        BY <2>1, <2>2, <2>3, <2>4, Steps, PropertiesAlone, Zenon
<1>2. PropertyFile' = PropertyFile
    BY <1>1, Zenon DEF PropertyFile
<1>3. QED
    BY <1>1, <1>2, Zenon DEF Configured

\* What the handler reads is what the file says.
LEMMA PropertyRead ==
    ASSUME PropertyTypeOK, ParserInv, stage[Handler] = "in",
           NEW v \in GetProperty(Demura), v # 0
    PROVE  Configured
<1>1. has[Handler] = parser /\ map[parser] = Parsed(NoProperties, PropertyFile)
    BY PropertyConstants, Zenon DEF ParserInv
<1>2. v = NumberIn(Parsed(NoProperties, PropertyFile), Demura)
    BY <1>1, Zenon DEF GetProperty
<1>3. QED
    BY <1>2, ConfiguredByFile, Zenon

---------------------------------------------------------------------------
(* Sessions and commands                                                   *)

LEMMA Workers ==
    /\ 0 \in Worker
    /\ \A s \in Session : s \in Worker /\ s # 0
    /\ \A n \in 0 .. MaxSession : n < MaxSession => n + 1 \in Session
    /\ Cmd \subseteq 0 .. MaxCmd
    /\ \A n \in 0 .. MaxCmd : n < MaxCmd => n + 1 \in Cmd
BY DemuraConstants, SMT DEF Worker, Session, Cmd

LEMMA RestingTyped ==
    ASSUME NEW pc \in Place
    PROVE  Resting(pc) \in Work
BY DemuraConstants, SMT DEF Resting, Work

LEMMA WorkUpdated ==
    ASSUME NEW r \in Work, NEW pc \in Place, NEW c \in 0 .. MaxCmd,
           NEW o \in 0 .. MaxSession
    PROVE  /\ [r EXCEPT !.cmd = c] \in Work
           /\ [r EXCEPT !.pc = pc, !.fd = "open"] \in Work
           /\ [r EXCEPT !.pc = pc, !.cmd = c] \in Work
           /\ [r EXCEPT !.pc = pc, !.composer = o] \in Work
<1>1. [r EXCEPT !.cmd = c] \in Work
    BY SMT DEF Work
<1>2. [r EXCEPT !.pc = pc, !.fd = "open"] \in Work
    <2> DEFINE q == [r EXCEPT !.pc = pc]
    <2>1. q \in Work
        BY SMT DEF Work
    <2>2. [q EXCEPT !.fd = "open"] \in Work
        <3> HIDE DEF q
        <3>1. QED
            BY <2>1, SMT DEF Work
    <2>3. QED
        BY <2>2
<1>3. [r EXCEPT !.pc = pc, !.cmd = c] \in Work
    <2> DEFINE q == [r EXCEPT !.pc = pc]
    <2>1. q \in Work
        BY SMT DEF Work
    <2>2. [q EXCEPT !.cmd = c] \in Work
        <3> HIDE DEF q
        <3>1. QED
            BY <2>1, SMT DEF Work
    <2>3. QED
        BY <2>2
<1>4. [r EXCEPT !.pc = pc, !.composer = o] \in Work
    <2> DEFINE q == [r EXCEPT !.pc = pc]
    <2>1. q \in Work
        BY SMT DEF Work
    <2>2. [q EXCEPT !.composer = o] \in Work
        <3> HIDE DEF q
        <3>1. QED
            BY <2>1, SMT DEF Work
    <2>3. QED
        BY <2>2
<1>5. QED
    BY <1>1, <1>2, <1>3, <1>4

LEMMA GotoTyped ==
    ASSUME DemuraTypeOK, NEW w \in Worker, NEW pc \in Place, Goto(w, pc)
    PROVE  work' \in [Worker -> Work]
<1>1. [work[w] EXCEPT !.pc = pc] \in Work
    BY SMT DEF DemuraTypeOK, Work
<1>2. QED
    BY <1>1, SMT DEF Goto, DemuraTypeOK

LEMMA FinishTyped ==
    ASSUME DemuraTypeOK, NEW w \in Worker, NEW status \in Status, Finish(w, status)
    PROVE  work' \in [Worker -> Work] /\ answer' \in [Cmd -> Status]
<1>1. Resting(IF w = 0 THEN "off" ELSE "next") \in Work
    BY RestingTyped, Zenon DEF Place
<1>2. work' \in [Worker -> Work]
    BY <1>1, SMT DEF Finish, DemuraTypeOK
<1>3. answer' \in [Cmd -> Status]
    <2>1. answer \in [Cmd -> Status]
        BY DEF DemuraTypeOK
    <2>2. [answer EXCEPT ![work[0].cmd] = status] \in [Cmd -> Status]
        BY <2>1, Zenon
    <2>3. QED
        BY <2>1, <2>2, Zenon DEF Finish
<1>4. QED
    BY <1>2, <1>3

\* What Goto and Finish do to each worker.
LEMMA GotoEffect ==
    ASSUME DemuraTypeOK, NEW w \in Worker, NEW pc, Goto(w, pc)
    PROVE  /\ \A v \in Worker : v # w => work'[v] = work[v]
           /\ work'[w].pc = pc /\ work'[w].cmd = work[w].cmd
           /\ work'[w].fd = work[w].fd /\ work'[w].composer = work[w].composer
BY SMT DEF Goto, DemuraTypeOK, Work

LEMMA FinishEffect ==
    ASSUME DemuraTypeOK, NEW w \in Worker, NEW status, Finish(w, status)
    PROVE  /\ \A v \in Worker : v # w => work'[v] = work[v]
           /\ work'[w].pc = IF w = 0 THEN "off" ELSE "next"
BY SMT DEF Finish, Resting, DemuraTypeOK

\* A worker with a command has one that was sent.
HeardInv ==
    \A w \in Worker :
        work[w].pc \in {"defer", "property", "import", "fetch", "call"} => work[w].cmd \in Cmd

\* Every step keeps the types.
LEMMA NextTypes ==
    ASSUME DemuraTypeOK, HeardInv, [Next]_vars
    PROVE  DemuraTypeOK'
<1>0. NoBuffer \in Buffer /\ 0 \in 0 .. MaxSession /\ 0 \in 0 .. MaxCmd
    BY DemuraConstants, SMT DEF NoBuffer, Buffer
<1>1. CASE UNCHANGED demuraVars
    BY <1>1, Zenon DEF demuraVars, sessionVars, DemuraTypeOK
<1>2. CASE Register
    <2>1. number' \in 0 .. MaxSession /\ number' \in Worker
        BY <1>2, Workers, SMT DEF Register, DemuraTypeOK, Session, Worker
    <2>2. Resting("wait") \in Work
        BY RestingTyped, Zenon DEF Place
    <2>3. work' \in [Worker -> Work]
        <3>1. work' = [work EXCEPT ![number'] = Resting("wait")]
            BY <1>2, Zenon DEF Register
        <3>2. QED
            BY <2>1, <2>2, <3>1, SMT DEF DemuraTypeOK
    <2>4. QED
        BY <1>2, <2>1, <2>3, Zenon DEF Register, DemuraTypeOK
<1>3. CASE CreateCore
    BY <1>3, <1>0, Zenon DEF CreateCore, DemuraTypeOK, sessionVars
<1>4. CASE CreateCoreFails
    BY <1>4, <1>0, Zenon DEF CreateCoreFails, DemuraTypeOK, sessionVars
<1>5. CASE Leave
    BY <1>5, <1>0, Zenon DEF Leave, DemuraTypeOK, sessionVars
<1>6. CASE Unregister
    BY <1>6, <1>0, Zenon DEF Unregister, DemuraTypeOK, sessionVars
<1>7. CASE DestroyCore
    BY <1>7, <1>0, Zenon DEF DestroyCore, DemuraTypeOK, sessionVars
<1>8. CASE DestroyCoreFails
    BY <1>8, <1>0, Zenon DEF DestroyCoreFails, DemuraTypeOK, sessionVars
<1>9. CASE ProcessOps
    <2>1. core' \in [buffer : Buffer, session : 0 .. MaxSession]
        BY <1>9, SMT DEF ProcessOps, DemuraTypeOK
    <2>2. QED
        BY <1>9, <2>1, Zenon DEF ProcessOps, DemuraTypeOK, sessionVars
<1>10. CASE Receive
    <2>1. heard' = heard + 1 /\ heard < MaxCmd
        BY <1>10, Zenon DEF Receive
    <2>2. heard' \in 0 .. MaxCmd
        BY <2>1, DemuraConstants, SMT DEF DemuraTypeOK
    <2>3. Resting(IF callback = 0 THEN "defer" ELSE "property") \in Work
        BY RestingTyped, Zenon DEF Place
    <2>4. [Resting(IF callback = 0 THEN "defer" ELSE "property") EXCEPT !.cmd = heard'] \in Work
        BY <1>0, <2>2, <2>3, WorkUpdated, Zenon DEF Place
    <2>5. work' \in [Worker -> Work]
        BY <1>10, <2>4, Zenon DEF Receive, DemuraTypeOK
    <2>6. QED
        BY <1>10, <2>2, <2>5, Zenon DEF Receive, DemuraTypeOK, sessionVars
<1>11. CASE Defer
    <2>1. work[0].cmd \in Cmd
        BY <1>11, Workers, Zenon DEF Defer, HeardInv
    <2>2. work' \in [Worker -> Work] /\ answer' \in [Cmd -> Status]
        BY <1>11, FinishTyped, Workers, Zenon DEF Defer, Status
    <2>3. QED
        BY <1>11, <2>1, <2>2, SMT DEF Defer, DemuraTypeOK, sessionVars
<1>12. ASSUME NEW w \in Worker, DemuraOff(w)
      PROVE  DemuraTypeOK'
    <2>1. work' \in [Worker -> Work] /\ answer' \in [Cmd -> Status]
        BY <1>12, FinishTyped, Zenon DEF DemuraOff, Status
    <2>2. QED
        BY <1>12, <2>1, Zenon DEF DemuraOff, DemuraTypeOK, sessionVars
<1>13. ASSUME NEW w \in Worker, DemuraOn(w)
      PROVE  DemuraTypeOK'
    <2>1. work' \in [Worker -> Work]
        BY <1>13, GotoTyped, Zenon DEF DemuraOn, Place
    <2>2. QED
        BY <1>13, <2>1, Zenon DEF DemuraOn, DemuraTypeOK, sessionVars
<1>14. ASSUME NEW w \in Worker, Import(w)
      PROVE  DemuraTypeOK'
    <2>1. [work[w] EXCEPT !.pc = "fetch", !.fd = "open"] \in Work
        BY <1>0, WorkUpdated, Zenon DEF DemuraTypeOK, Place
    <2>2. work' \in [Worker -> Work]
        BY <1>14, <2>1, SMT DEF Import, DemuraTypeOK
    <2>3. QED
        BY <1>14, <2>2, Zenon DEF Import, DemuraTypeOK, sessionVars
<1>15. ASSUME NEW w \in Worker, ImportFails(w)
      PROVE  DemuraTypeOK'
    <2>1. work' \in [Worker -> Work] /\ answer' \in [Cmd -> Status]
        BY <1>15, FinishTyped, Zenon DEF ImportFails, Status
    <2>2. QED
        BY <1>15, <2>1, Zenon DEF ImportFails, DemuraTypeOK, sessionVars
<1>16. ASSUME NEW w \in Worker, FetchCallback(w)
      PROVE  DemuraTypeOK'
    <2>1. CASE callback = 0
        <3>1. work' \in [Worker -> Work] /\ answer' \in [Cmd -> Status]
            BY <1>16, <2>1, FinishTyped, Zenon DEF FetchCallback, Status
        <3>2. QED
            BY <1>16, <3>1, Zenon DEF FetchCallback, DemuraTypeOK, sessionVars
    <2>2. CASE callback # 0
        <3>1. [work[w] EXCEPT !.pc = "call", !.composer = callback] \in Work
            BY <1>0, WorkUpdated, Zenon DEF DemuraTypeOK, Place
        <3>2. work' \in [Worker -> Work]
            BY <1>16, <2>2, <3>1, Zenon DEF FetchCallback, DemuraTypeOK
        <3>3. QED
            BY <1>16, <2>2, <3>2, Zenon DEF FetchCallback, DemuraTypeOK, sessionVars
    <2>3. QED
        BY <2>1, <2>2
<1>17. ASSUME NEW w \in Worker, OnEvent(w)
      PROVE  DemuraTypeOK'
    <2>1. work' \in [Worker -> Work] /\ answer' \in [Cmd -> Status]
        BY <1>17, FinishTyped, Zenon DEF OnEvent, Status
    <2>2. work[w].cmd \in Cmd
        BY <1>17, Zenon DEF OnEvent, HeardInv
    <2>3. ipc' \in Buffer /\ kept' \subseteq Cmd
        <3>1. /\ ipc' = ipc \/ ipc' = [cmd |-> work[w].cmd, stored |-> number]
              /\ kept' = kept \/ kept' = kept \cup {work[w].cmd}
            BY <1>17, Zenon DEF OnEvent
        <3>2. [cmd |-> work[w].cmd, stored |-> number] \in Buffer
            <4>1. work[w].cmd \in 0 .. MaxCmd /\ number \in 0 .. MaxSession
                BY <2>2, Workers, Zenon DEF DemuraTypeOK
            <4>2. QED
                BY <4>1, SMT DEF Buffer
        <3>3. QED
            BY <2>2, <3>1, <3>2, Zenon DEF DemuraTypeOK
    <2>4. QED
        BY <1>17, <2>1, <2>3, Zenon DEF OnEvent, DemuraTypeOK, sessionVars
<1>18. ASSUME NEW w \in Worker, OnEventFails(w)
      PROVE  DemuraTypeOK'
    <2>1. work' \in [Worker -> Work] /\ answer' \in [Cmd -> Status]
        BY <1>18, FinishTyped, Zenon DEF OnEventFails, Status
    <2>2. QED
        BY <1>18, <2>1, Zenon DEF OnEventFails, DemuraTypeOK, sessionVars
<1>19. ASSUME NEW s \in Session, DrainStarts(s)
      PROVE  DemuraTypeOK'
    <2>1. work' \in [Worker -> Work]
        BY <1>19, GotoTyped, Workers, Zenon DEF DrainStarts, Place
    <2>2. todo' \in [Worker -> SUBSET Cmd]
        BY <1>19, Workers, SMT DEF DrainStarts, DemuraTypeOK
    <2>3. QED
        BY <1>19, <2>1, <2>2, Zenon DEF DrainStarts, DemuraTypeOK, sessionVars
<1>20. ASSUME NEW s \in Session, DrainNext(s)
      PROVE  DemuraTypeOK'
    <2>1. PICK c \in todo[s] :
              /\ todo' = [todo EXCEPT ![s] = todo[s] \ {c}]
              /\ work' = [work EXCEPT ![s].pc = "property", ![s].cmd = c]
        BY <1>20, Zenon DEF DrainNext
    <2>2. s \in Worker /\ todo[s] \in SUBSET Cmd
        <3>1. s \in Worker /\ todo \in [Worker -> SUBSET Cmd]
            BY Workers, Zenon DEF DemuraTypeOK
        <3>2. QED
            BY <3>1, SMT
    <2>3. c \in 0 .. MaxCmd
        BY <2>2, Workers, Zenon
    <2>4. [work[s] EXCEPT !.pc = "property", !.cmd = c] \in Work
        BY <1>0, <2>2, <2>3, WorkUpdated, Zenon DEF DemuraTypeOK, Place
    <2>5. work' \in [Worker -> Work]
        BY <2>1, <2>2, <2>4, SMT DEF DemuraTypeOK
    <2>6. todo' \in [Worker -> SUBSET Cmd]
        <3>1. todo \in [Worker -> SUBSET Cmd] /\ todo[s] \ {c} \in SUBSET Cmd
            BY <2>2, Zenon DEF DemuraTypeOK
        <3>2. QED
            BY <2>1, <2>2, <3>1, SMT
    <2>7. QED
        BY <1>20, <2>5, <2>6, Zenon DEF DrainNext, DemuraTypeOK, sessionVars
<1>21. ASSUME NEW s \in Session, DrainEnds(s)
      PROVE  DemuraTypeOK'
    <2>1. work' \in [Worker -> Work]
        BY <1>21, GotoTyped, Workers, Zenon DEF DrainEnds, Place
    <2>2. todo' \in [Worker -> SUBSET Cmd]
        BY <1>21, Workers, SMT DEF DrainEnds, DemuraTypeOK
    <2>3. QED
        BY <1>21, <2>1, <2>2, Zenon DEF DrainEnds, DemuraTypeOK, sessionVars
<1>22. QED
    <2>1. SessionNext => DemuraTypeOK'
        BY <1>2, <1>3, <1>4, <1>5, <1>6, <1>7, <1>8, <1>9, Zenon DEF SessionNext
    <2>2. \A w \in Worker : HandleImportDemuraBuffers(w) => DemuraTypeOK'
        BY <1>12, <1>13, <1>14, <1>15, <1>16, <1>17, <1>18, Zenon DEF HandleImportDemuraBuffers
    <2>3. HandleSetProperties \/ UNCHANGED vars => DemuraTypeOK'
        BY <1>1, Zenon DEF HandleSetProperties, vars
    <2>4. QED
        BY <1>1, <1>10, <1>11, <1>19, <1>20, <1>21, <2>1, <2>2, <2>3, Steps, Zenon

\* Commands are handed from the socket and pending_commands_ only.
LEMMA NextHeard ==
    ASSUME DemuraTypeOK, HeardInv, [Next]_vars
    PROVE  HeardInv'
<1>1. CASE UNCHANGED demuraVars
    BY <1>1, Zenon DEF demuraVars, HeardInv
<1>2. CASE Register
    <2>1. number' \in Worker /\ number' # 0 /\ work'[number'].pc = "wait"
        BY <1>2, Workers, SMT DEF Register, DemuraTypeOK, Session, Worker, Resting
    <2>2. \A v \in Worker : v # number' => work'[v] = work[v]
        BY <1>2, SMT DEF Register, DemuraTypeOK
    <2>3. stage[Handler] = "in"
        BY <1>2, Zenon DEF Register
    <2>4. QED
        BY <1>2, <2>1, <2>2, <2>3, SMT DEF Register, HeardInv, sessionVars
<1>3. CASE CreateCore
    BY <1>3, Zenon DEF CreateCore, HeardInv, sessionVars
<1>4. CASE CreateCoreFails
    BY <1>4, Zenon DEF CreateCoreFails, HeardInv, sessionVars
<1>5. CASE Leave
    BY <1>5, Zenon DEF Leave, HeardInv, sessionVars
<1>6. CASE Unregister
    BY <1>6, Zenon DEF Unregister, HeardInv, sessionVars
<1>7. CASE DestroyCore
    BY <1>7, Zenon DEF DestroyCore, HeardInv, sessionVars
<1>8. CASE DestroyCoreFails
    BY <1>8, Zenon DEF DestroyCoreFails, HeardInv, sessionVars
<1>9. CASE ProcessOps
    BY <1>9, Zenon DEF ProcessOps, HeardInv, sessionVars
<1>10. CASE Receive
    <2>1. \A v \in Worker : v # 0 => work'[v] = work[v]
        BY <1>10, SMT DEF Receive, DemuraTypeOK
    <2>2. /\ work'[0].pc \in {"defer", "property"} /\ work'[0].cmd \in Cmd
          /\ stage[Handler] = "in"
        BY <1>10, Workers, SMT DEF Receive, Resting, DemuraTypeOK
    <2>3. QED
        BY <1>10, <2>1, <2>2, Zenon DEF Receive, HeardInv, sessionVars
<1>11. CASE Defer
    <2>1. /\ \A v \in Worker : v # 0 => work'[v] = work[v]
          /\ work'[0].pc = "off"
        BY <1>11, Workers, FinishEffect, Zenon DEF Defer
    <2>2. QED
        BY <1>11, <2>1, Zenon DEF Defer, HeardInv, sessionVars
<1>12. ASSUME NEW w \in Worker, DemuraOff(w)
      PROVE  HeardInv'
    <2>1. /\ \A v \in Worker : v # w => work'[v] = work[v]
          /\ work'[w].pc \in {"off", "next"}
        BY <1>12, FinishEffect, Zenon DEF DemuraOff
    <2>2. QED
        BY <1>12, <2>1, SMT DEF DemuraOff, HeardInv, sessionVars
<1>13. ASSUME NEW w \in Worker, DemuraOn(w)
      PROVE  HeardInv'
    <2>1. /\ \A v \in Worker : v # w => work'[v] = work[v]
          /\ work'[w].pc \in {"import", "fetch"} /\ work'[w].cmd = work[w].cmd
        BY <1>13, GotoEffect, Zenon DEF DemuraOn
    <2>2. QED
        BY <1>13, <2>1, Zenon DEF DemuraOn, HeardInv, sessionVars
<1>14. ASSUME NEW w \in Worker, Import(w)
      PROVE  HeardInv'
    <2>1. /\ \A v \in Worker : v # w => work'[v] = work[v]
          /\ work'[w].pc = "fetch" /\ work'[w].cmd = work[w].cmd
        BY <1>14, SMT DEF Import, DemuraTypeOK, Work
    <2>2. QED
        BY <1>14, <2>1, Zenon DEF Import, HeardInv, sessionVars
<1>15. ASSUME NEW w \in Worker, ImportFails(w)
      PROVE  HeardInv'
    <2>1. /\ \A v \in Worker : v # w => work'[v] = work[v]
          /\ work'[w].pc \in {"off", "next"}
        BY <1>15, FinishEffect, Zenon DEF ImportFails
    <2>2. QED
        BY <1>15, <2>1, SMT DEF ImportFails, HeardInv, sessionVars
<1>16. ASSUME NEW w \in Worker, FetchCallback(w)
      PROVE  HeardInv'
    <2>1. CASE callback = 0
        <3>1. /\ \A v \in Worker : v # w => work'[v] = work[v]
              /\ work'[w].pc \in {"off", "next"}
            BY <1>16, <2>1, FinishEffect, Zenon DEF FetchCallback
        <3>2. QED
            BY <1>16, <3>1, SMT DEF FetchCallback, HeardInv, sessionVars
    <2>2. CASE callback # 0
        <3>1. /\ \A v \in Worker : v # w => work'[v] = work[v]
              /\ work'[w].pc = "call" /\ work'[w].cmd = work[w].cmd
            BY <1>16, <2>2, SMT DEF FetchCallback, DemuraTypeOK, Work
        <3>2. QED
            BY <1>16, <2>2, <3>1, Zenon DEF FetchCallback, HeardInv, sessionVars
    <2>3. QED
        BY <2>1, <2>2
<1>17. ASSUME NEW w \in Worker, OnEvent(w)
      PROVE  HeardInv'
    <2>1. /\ \A v \in Worker : v # w => work'[v] = work[v]
          /\ work'[w].pc \in {"off", "next"}
        BY <1>17, FinishEffect, Zenon DEF OnEvent
    <2>2. QED
        BY <1>17, <2>1, SMT DEF OnEvent, HeardInv, sessionVars
<1>18. ASSUME NEW w \in Worker, OnEventFails(w)
      PROVE  HeardInv'
    <2>1. /\ \A v \in Worker : v # w => work'[v] = work[v]
          /\ work'[w].pc \in {"off", "next"}
        BY <1>18, FinishEffect, Zenon DEF OnEventFails
    <2>2. QED
        BY <1>18, <2>1, SMT DEF OnEventFails, HeardInv, sessionVars
<1>19. ASSUME NEW s \in Session, DrainStarts(s)
      PROVE  HeardInv'
    <2>1. /\ \A v \in Worker : v # s => work'[v] = work[v]
          /\ work'[s].pc = "next" /\ work[s].pc # "off"
        BY <1>19, Workers, GotoEffect, SMT DEF DrainStarts
    <2>2. QED
        BY <1>19, <2>1, Workers, SMT DEF DrainStarts, HeardInv, sessionVars
<1>20. ASSUME NEW s \in Session, DrainNext(s)
      PROVE  HeardInv'
    <2>1. PICK c \in todo[s] : work' = [work EXCEPT ![s].pc = "property", ![s].cmd = c]
        BY <1>20, Zenon DEF DrainNext
    <2>2. s \in Worker /\ c \in Cmd
        BY Workers, SMT DEF DemuraTypeOK
    <2>3. /\ \A v \in Worker : v # s => work'[v] = work[v]
          /\ work'[s].pc = "property" /\ work'[s].cmd \in Cmd
        BY <2>1, <2>2, SMT DEF DemuraTypeOK, Work
    <2>4. work[s].pc = "next"
        BY <1>20, Zenon DEF DrainNext
    <2>5. QED
        BY <1>20, <2>2, <2>3, <2>4, Zenon DEF DrainNext, HeardInv, sessionVars
<1>21. ASSUME NEW s \in Session, DrainEnds(s)
      PROVE  HeardInv'
    <2>1. /\ \A v \in Worker : v # s => work'[v] = work[v]
          /\ work'[s].pc = "off" /\ work[s].pc # "off"
        BY <1>21, Workers, GotoEffect, SMT DEF DrainEnds
    <2>2. QED
        BY <1>21, <2>1, Workers, SMT DEF DrainEnds, HeardInv, sessionVars
<1>22. QED
    <2>1. SessionNext => HeardInv'
        BY <1>2, <1>3, <1>4, <1>5, <1>6, <1>7, <1>8, <1>9, Zenon DEF SessionNext
    <2>2. \A w \in Worker : HandleImportDemuraBuffers(w) => HeardInv'
        BY <1>12, <1>13, <1>14, <1>15, <1>16, <1>17, <1>18, Zenon DEF HandleImportDemuraBuffers
    <2>3. HandleSetProperties \/ UNCHANGED vars => HeardInv'
        BY <1>1, Zenon DEF HandleSetProperties, vars
    <2>4. QED
        BY <1>1, <1>10, <1>11, <1>19, <1>20, <1>21, <2>1, <2>2, <2>3, Steps, Zenon

\* Who works on a command was let in by the file, and what the place and the
\* core hold came through such a worker.
ImportInv ==
    /\ \A w \in Worker : work[w].pc # "off" => stage[Handler] = "in"
    /\ \A w \in Worker : work[w].pc \in {"import", "fetch", "call"} => Configured
    /\ ipc.cmd # 0 => Configured
    /\ core.buffer.cmd # 0 => Configured

\* The one step that needs the file is the one that reads the property.
LEMMA NextImport ==
    ASSUME PropertyTypeOK, ParserInv, DemuraTypeOK, ImportInv, [Next]_vars
    PROVE  ImportInv'
<1>0. /\ Configured => Configured'
      /\ stage[Handler] = "in" => stage'[Handler] = "in"
    BY ConfigurationStays
<1>1. CASE UNCHANGED demuraVars
    BY <1>1, <1>0, Zenon DEF demuraVars, sessionVars, ImportInv
<1>2. CASE Register
    <2>1. number' \in Worker /\ number' # 0 /\ work'[number'].pc = "wait"
        BY <1>2, Workers, SMT DEF Register, DemuraTypeOK, Session, Worker, Resting
    <2>2. \A v \in Worker : v # number' => work'[v] = work[v]
        BY <1>2, SMT DEF Register, DemuraTypeOK
    <2>3. stage[Handler] = "in"
        BY <1>2, Zenon DEF Register
    <2>4. QED
        BY <1>2, <2>1, <2>2, <2>3, <1>0, SMT DEF Register, ImportInv, sessionVars
<1>3. CASE CreateCore
    BY <1>3, <1>0, SMT DEF CreateCore, ImportInv, NoBuffer
<1>4. CASE CreateCoreFails
    BY <1>4, <1>0, SMT DEF CreateCoreFails, ImportInv, NoBuffer
<1>5. CASE Leave
    BY <1>5, <1>0, Zenon DEF Leave, ImportInv, sessionVars
<1>6. CASE Unregister
    BY <1>6, <1>0, Zenon DEF Unregister, ImportInv, sessionVars
<1>7. CASE DestroyCore
    BY <1>7, <1>0, SMT DEF DestroyCore, ImportInv, NoBuffer
<1>8. CASE DestroyCoreFails
    BY <1>8, <1>0, Zenon DEF DestroyCoreFails, ImportInv, sessionVars
<1>9. CASE ProcessOps
    <2>1. core'.buffer.cmd = ipc.cmd
        BY <1>9, SMT DEF ProcessOps
    <2>2. QED
        BY <1>9, <2>1, <1>0, Zenon DEF ProcessOps, ImportInv
<1>10. CASE Receive
    <2>1. \A v \in Worker : v # 0 => work'[v] = work[v]
        BY <1>10, SMT DEF Receive, DemuraTypeOK
    <2>2. /\ work'[0].pc \in {"defer", "property"} /\ work'[0].cmd \in Cmd
          /\ stage[Handler] = "in"
        BY <1>10, Workers, SMT DEF Receive, Resting, DemuraTypeOK
    <2>3. QED
        BY <1>10, <2>1, <2>2, <1>0, Zenon DEF Receive, ImportInv, sessionVars
<1>11. CASE Defer
    <2>1. /\ \A v \in Worker : v # 0 => work'[v] = work[v]
          /\ work'[0].pc = "off"
        BY <1>11, Workers, FinishEffect, Zenon DEF Defer
    <2>2. QED
        BY <1>11, <2>1, <1>0, Zenon DEF Defer, ImportInv, sessionVars
<1>12. ASSUME NEW w \in Worker, DemuraOff(w)
      PROVE  ImportInv'
    <2>1. /\ \A v \in Worker : v # w => work'[v] = work[v]
          /\ work'[w].pc \in {"off", "next"}
        BY <1>12, FinishEffect, Zenon DEF DemuraOff
    <2>2. QED
        BY <1>12, <2>1, <1>0, SMT DEF DemuraOff, ImportInv, sessionVars
<1>13. ASSUME NEW w \in Worker, DemuraOn(w)
      PROVE  ImportInv'
    <2>1. /\ \A v \in Worker : v # w => work'[v] = work[v]
          /\ work'[w].pc \in {"import", "fetch"} /\ work'[w].cmd = work[w].cmd
        BY <1>13, GotoEffect, Zenon DEF DemuraOn
    <2>2. Configured
        BY <1>13, PropertyRead, Zenon DEF DemuraOn, ImportInv
    <2>3. QED
        BY <1>13, <2>1, <2>2, <1>0, Zenon DEF DemuraOn, ImportInv, sessionVars
<1>14. ASSUME NEW w \in Worker, Import(w)
      PROVE  ImportInv'
    <2>1. /\ \A v \in Worker : v # w => work'[v] = work[v]
          /\ work'[w].pc = "fetch" /\ work'[w].cmd = work[w].cmd
        BY <1>14, SMT DEF Import, DemuraTypeOK, Work
    <2>2. QED
        BY <1>14, <2>1, <1>0, Zenon DEF Import, ImportInv, sessionVars
<1>15. ASSUME NEW w \in Worker, ImportFails(w)
      PROVE  ImportInv'
    <2>1. /\ \A v \in Worker : v # w => work'[v] = work[v]
          /\ work'[w].pc \in {"off", "next"}
        BY <1>15, FinishEffect, Zenon DEF ImportFails
    <2>2. QED
        BY <1>15, <2>1, <1>0, SMT DEF ImportFails, ImportInv, sessionVars
<1>16. ASSUME NEW w \in Worker, FetchCallback(w)
      PROVE  ImportInv'
    <2>1. CASE callback = 0
        <3>1. /\ \A v \in Worker : v # w => work'[v] = work[v]
              /\ work'[w].pc \in {"off", "next"}
            BY <1>16, <2>1, FinishEffect, Zenon DEF FetchCallback
        <3>2. QED
            BY <1>16, <3>1, <1>0, SMT DEF FetchCallback, ImportInv, sessionVars
    <2>2. CASE callback # 0
        <3>1. /\ \A v \in Worker : v # w => work'[v] = work[v]
              /\ work'[w].pc = "call" /\ work'[w].cmd = work[w].cmd
            BY <1>16, <2>2, SMT DEF FetchCallback, DemuraTypeOK, Work
        <3>2. QED
            BY <1>16, <2>2, <3>1, <1>0, Zenon DEF FetchCallback, ImportInv, sessionVars
    <2>3. QED
        BY <2>1, <2>2
<1>17. ASSUME NEW w \in Worker, OnEvent(w)
      PROVE  ImportInv'
    <2>1. /\ \A v \in Worker : v # w => work'[v] = work[v]
          /\ work'[w].pc \in {"off", "next"}
        BY <1>17, FinishEffect, Zenon DEF OnEvent
    <2>2. Configured
        BY <1>17, Zenon DEF OnEvent, ImportInv
    <2>3. QED
        BY <1>17, <2>1, <2>2, <1>0, Zenon DEF OnEvent, ImportInv
<1>18. ASSUME NEW w \in Worker, OnEventFails(w)
      PROVE  ImportInv'
    <2>1. /\ \A v \in Worker : v # w => work'[v] = work[v]
          /\ work'[w].pc \in {"off", "next"}
        BY <1>18, FinishEffect, Zenon DEF OnEventFails
    <2>2. QED
        BY <1>18, <2>1, <1>0, SMT DEF OnEventFails, ImportInv, sessionVars
<1>19. ASSUME NEW s \in Session, DrainStarts(s)
      PROVE  ImportInv'
    <2>1. /\ \A v \in Worker : v # s => work'[v] = work[v]
          /\ work'[s].pc = "next" /\ work[s].pc # "off"
        BY <1>19, Workers, GotoEffect, SMT DEF DrainStarts
    <2>2. QED
        BY <1>19, <2>1, Workers, <1>0, SMT DEF DrainStarts, ImportInv, sessionVars
<1>20. ASSUME NEW s \in Session, DrainNext(s)
      PROVE  ImportInv'
    <2>1. PICK c \in todo[s] : work' = [work EXCEPT ![s].pc = "property", ![s].cmd = c]
        BY <1>20, Zenon DEF DrainNext
    <2>2. s \in Worker /\ c \in Cmd
        BY Workers, SMT DEF DemuraTypeOK
    <2>3. /\ \A v \in Worker : v # s => work'[v] = work[v]
          /\ work'[s].pc = "property" /\ work'[s].cmd \in Cmd
        BY <2>1, <2>2, SMT DEF DemuraTypeOK, Work
    <2>4. work[s].pc = "next"
        BY <1>20, Zenon DEF DrainNext
    <2>5. QED
        BY <1>20, <2>2, <2>3, <2>4, <1>0, Zenon DEF DrainNext, ImportInv, sessionVars
<1>21. ASSUME NEW s \in Session, DrainEnds(s)
      PROVE  ImportInv'
    <2>1. /\ \A v \in Worker : v # s => work'[v] = work[v]
          /\ work'[s].pc = "off" /\ work[s].pc # "off"
        BY <1>21, Workers, GotoEffect, SMT DEF DrainEnds
    <2>2. QED
        BY <1>21, <2>1, Workers, <1>0, SMT DEF DrainEnds, ImportInv, sessionVars
<1>22. QED
    <2>1. SessionNext => ImportInv'
        BY <1>2, <1>3, <1>4, <1>5, <1>6, <1>7, <1>8, <1>9, Zenon DEF SessionNext
    <2>2. \A w \in Worker : HandleImportDemuraBuffers(w) => ImportInv'
        BY <1>12, <1>13, <1>14, <1>15, <1>16, <1>17, <1>18, Zenon DEF HandleImportDemuraBuffers
    <2>3. HandleSetProperties \/ UNCHANGED vars => ImportInv'
        BY <1>1, Zenon DEF HandleSetProperties, vars
    <2>4. QED
        BY <1>1, <1>10, <1>11, <1>19, <1>20, <1>21, <2>1, <2>2, <2>3, Steps, Zenon

\* A new session has a new place: what a former one left is gone with it.
SessionInv ==
    /\ session = "ready" /\ ipc.cmd # 0 => ipc.stored = number
    /\ SessionBuffers

\* OnEvent stores for the session that runs, and CreateCore starts empty.
LEMMA NextSession ==
    ASSUME DemuraTypeOK, SessionInv, [Next]_vars
    PROVE  SessionInv'
<1>1. CASE UNCHANGED demuraVars
    BY <1>1, Zenon DEF demuraVars, sessionVars, SessionInv, SessionBuffers
<1>2. CASE Register
    BY <1>2, SMT DEF Register, SessionInv, SessionBuffers, sessionVars, NoBuffer
<1>3. CASE CreateCore
    BY <1>3, SMT DEF CreateCore, SessionInv, SessionBuffers, sessionVars, NoBuffer
<1>4. CASE CreateCoreFails
    BY <1>4, Zenon DEF CreateCoreFails, SessionInv, SessionBuffers, sessionVars
<1>5. CASE Leave
    BY <1>5, Zenon DEF Leave, SessionInv, SessionBuffers, sessionVars
<1>6. CASE Unregister
    BY <1>6, Zenon DEF Unregister, SessionInv, SessionBuffers, sessionVars
<1>7. CASE DestroyCore
    BY <1>7, Zenon DEF DestroyCore, SessionInv, SessionBuffers, sessionVars
<1>8. CASE DestroyCoreFails
    BY <1>8, Zenon DEF DestroyCoreFails, SessionInv, SessionBuffers, sessionVars
<1>9. CASE ProcessOps
    <2>1. core'.buffer = ipc /\ core'.session = number
        BY <1>9, SMT DEF ProcessOps
    <2>2. QED
        BY <1>9, <2>1, Zenon DEF ProcessOps, SessionInv, SessionBuffers, sessionVars
<1>10. CASE Receive
    BY <1>10, Zenon DEF Receive, SessionInv, SessionBuffers, sessionVars
<1>11. CASE Defer
    BY <1>11, Zenon DEF Defer, SessionInv, SessionBuffers, sessionVars
<1>12. ASSUME NEW w \in Worker, DemuraOff(w)
      PROVE  SessionInv'
    BY <1>12, Zenon DEF DemuraOff, SessionInv, SessionBuffers, sessionVars
<1>13. ASSUME NEW w \in Worker, DemuraOn(w)
      PROVE  SessionInv'
    BY <1>13, Zenon DEF DemuraOn, SessionInv, SessionBuffers, sessionVars
<1>14. ASSUME NEW w \in Worker, Import(w)
      PROVE  SessionInv'
    BY <1>14, Zenon DEF Import, SessionInv, SessionBuffers, sessionVars
<1>15. ASSUME NEW w \in Worker, ImportFails(w)
      PROVE  SessionInv'
    BY <1>15, Zenon DEF ImportFails, SessionInv, SessionBuffers, sessionVars
<1>16. ASSUME NEW w \in Worker, FetchCallback(w)
      PROVE  SessionInv'
    BY <1>16, Zenon DEF FetchCallback, SessionInv, SessionBuffers, sessionVars
<1>17. ASSUME NEW w \in Worker, OnEvent(w)
      PROVE  SessionInv'
    <2>1. ipc' = ipc \/ ipc'.stored = number
        BY <1>17, SMT DEF OnEvent
    <2>2. QED
        BY <1>17, <2>1, Zenon DEF OnEvent, SessionInv, SessionBuffers, sessionVars
<1>18. ASSUME NEW w \in Worker, OnEventFails(w)
      PROVE  SessionInv'
    BY <1>18, Zenon DEF OnEventFails, SessionInv, SessionBuffers, sessionVars
<1>19. ASSUME NEW s \in Session, DrainStarts(s)
      PROVE  SessionInv'
    BY <1>19, Zenon DEF DrainStarts, SessionInv, SessionBuffers, sessionVars
<1>20. ASSUME NEW s \in Session, DrainNext(s)
      PROVE  SessionInv'
    BY <1>20, Zenon DEF DrainNext, SessionInv, SessionBuffers, sessionVars
<1>21. ASSUME NEW s \in Session, DrainEnds(s)
      PROVE  SessionInv'
    BY <1>21, Zenon DEF DrainEnds, SessionInv, SessionBuffers, sessionVars
<1>22. QED
    <2>1. SessionNext => SessionInv'
        BY <1>2, <1>3, <1>4, <1>5, <1>6, <1>7, <1>8, <1>9, Zenon DEF SessionNext
    <2>2. \A w \in Worker : HandleImportDemuraBuffers(w) => SessionInv'
        BY <1>12, <1>13, <1>14, <1>15, <1>16, <1>17, <1>18, Zenon DEF HandleImportDemuraBuffers
    <2>3. HandleSetProperties \/ UNCHANGED vars => SessionInv'
        BY <1>1, Zenon DEF HandleSetProperties, vars
    <2>4. QED
        BY <1>1, <1>10, <1>11, <1>19, <1>20, <1>21, <2>1, <2>2, <2>3, Steps, Zenon

\* The event thread holds qrtr_lock_ with a command, so the composer it found is
\* the one there is.
AnswerInv ==
    /\ session \in {"none", "stopping"} => callback = 0
    /\ callback # 0 => callback = composer
    /\ work[0].pc = "call" => work[0].composer = callback /\ callback # 0
    /\ work[0].pc \in {"fetch", "call"} => work[0].fd = "open" \/ work[0].cmd \notin WithMemory
    /\ AnsweredIsKept

\* Only OnEvent answers with 0, and with memory it has stored the buffer.
LEMMA NextAnswer ==
    ASSUME DemuraTypeOK, AnswerInv, [Next]_vars
    PROVE  AnswerInv'
<1>1. CASE UNCHANGED demuraVars
    BY <1>1, Zenon DEF demuraVars, sessionVars, AnswerInv, AnsweredIsKept
<1>2. CASE Register
    <2>1. number' # 0 /\ work'[0] = work[0]
        BY <1>2, Workers, SMT DEF Register, DemuraTypeOK
    <2>2. QED
        BY <1>2, <2>1, SMT DEF Register, QrtrFree, AnswerInv, AnsweredIsKept
<1>3. CASE CreateCore
    BY <1>3, SMT DEF CreateCore, QrtrFree, AnswerInv, AnsweredIsKept, sessionVars
<1>4. CASE CreateCoreFails
    BY <1>4, SMT DEF CreateCoreFails, QrtrFree, AnswerInv, AnsweredIsKept, sessionVars
<1>5. CASE Leave
    BY <1>5, SMT DEF Leave, QrtrFree, AnswerInv, AnsweredIsKept, sessionVars
<1>6. CASE Unregister
    BY <1>6, SMT DEF Unregister, QrtrFree, AnswerInv, AnsweredIsKept, sessionVars
<1>7. CASE DestroyCore
    BY <1>7, SMT DEF DestroyCore, QrtrFree, AnswerInv, AnsweredIsKept, sessionVars
<1>8. CASE DestroyCoreFails
    BY <1>8, SMT DEF DestroyCoreFails, QrtrFree, AnswerInv, AnsweredIsKept, sessionVars
<1>9. CASE ProcessOps
    BY <1>9, SMT DEF ProcessOps, QrtrFree, AnswerInv, AnsweredIsKept, sessionVars
<1>10. CASE Receive
    <2>1. work'[0].pc \in {"defer", "property"}
        BY <1>10, Workers, SMT DEF Receive, Resting, DemuraTypeOK
    <2>2. QED
        BY <1>10, <2>1, SMT DEF Receive, AnswerInv, AnsweredIsKept, sessionVars
<1>11. CASE Defer
    <2>1. work'[0].pc = "off"
        BY <1>11, Workers, FinishEffect, Zenon DEF Defer
    <2>2. \A c \in Cmd : answer'[c] = "ok" => answer[c] = "ok"
        BY <1>11, SMT DEF Defer, Finish, DemuraTypeOK
    <2>3. QED
        BY <1>11, <2>1, <2>2, DemuraConstants, SMT DEF Defer, AnswerInv, AnsweredIsKept, sessionVars
<1>12. ASSUME NEW w \in Worker, DemuraOff(w)
      PROVE  AnswerInv'
    <2>1. /\ w = 0 => work'[0].pc = "off"
          /\ w # 0 => work'[0] = work[0]
        BY <1>12, Workers, FinishEffect, SMT DEF DemuraOff
    <2>2. \A c \in Cmd : answer'[c] = "ok" => answer[c] = "ok"
        BY <1>12, SMT DEF DemuraOff, Finish, DemuraTypeOK
    <2>3. QED
        BY <1>12, <2>1, <2>2, DemuraConstants, SMT DEF DemuraOff, AnswerInv, AnsweredIsKept, sessionVars
<1>13. ASSUME NEW w \in Worker, DemuraOn(w)
      PROVE  AnswerInv'
    <2>1. /\ \A v \in Worker : v # w => work'[v] = work[v]
          /\ work'[w].pc = IF work[w].cmd \in WithMemory THEN "import" ELSE "fetch"
          /\ work'[w].cmd = work[w].cmd
        BY <1>13, GotoEffect, Zenon DEF DemuraOn
    <2>2. QED
        BY <1>13, <2>1, Workers, SMT DEF DemuraOn, AnswerInv, AnsweredIsKept, sessionVars
<1>14. ASSUME NEW w \in Worker, Import(w)
      PROVE  AnswerInv'
    <2>1. /\ \A v \in Worker : v # w => work'[v] = work[v]
          /\ work'[w].pc = "fetch" /\ work'[w].fd = "open"
        BY <1>14, SMT DEF Import, DemuraTypeOK, Work
    <2>2. QED
        BY <1>14, <2>1, Workers, Zenon DEF Import, AnswerInv, AnsweredIsKept, sessionVars
<1>15. ASSUME NEW w \in Worker, ImportFails(w)
      PROVE  AnswerInv'
    <2>1. /\ w = 0 => work'[0].pc = "off"
          /\ w # 0 => work'[0] = work[0]
        BY <1>15, Workers, FinishEffect, SMT DEF ImportFails
    <2>2. \A c \in Cmd : answer'[c] = "ok" => answer[c] = "ok"
        BY <1>15, SMT DEF ImportFails, Finish, DemuraTypeOK
    <2>3. QED
        BY <1>15, <2>1, <2>2, DemuraConstants, SMT DEF ImportFails, AnswerInv, AnsweredIsKept, sessionVars
<1>16. ASSUME NEW w \in Worker, FetchCallback(w)
      PROVE  AnswerInv'
    <2>1. CASE callback = 0
        <3>1. /\ w = 0 => work'[0].pc = "off"
              /\ w # 0 => work'[0] = work[0]
            BY <1>16, <2>1, Workers, FinishEffect, SMT DEF FetchCallback
        <3>2. \A c \in Cmd : answer'[c] = "ok" => answer[c] = "ok"
            BY <1>16, <2>1, SMT DEF FetchCallback, Finish, DemuraTypeOK
        <3>3. QED
            BY <1>16, <3>1, <3>2, DemuraConstants, SMT
            DEF FetchCallback, AnswerInv, AnsweredIsKept, sessionVars
    <2>2. CASE callback # 0
        <3>1. /\ \A v \in Worker : v # w => work'[v] = work[v]
              /\ work'[w].pc = "call" /\ work'[w].composer = callback
              /\ work'[w].fd = work[w].fd /\ work'[w].cmd = work[w].cmd
            BY <1>16, <2>2, SMT DEF FetchCallback, DemuraTypeOK, Work
        <3>2. QED
            BY <1>16, <2>2, <3>1, Workers, SMT
            DEF FetchCallback, AnswerInv, AnsweredIsKept, sessionVars
    <2>3. QED
        BY <2>1, <2>2
<1>17. ASSUME NEW w \in Worker, OnEvent(w)
      PROVE  AnswerInv'
    <2>1. /\ w = 0 => work'[0].pc = "off"
          /\ w # 0 => work'[0] = work[0]
        BY <1>17, Workers, FinishEffect, SMT DEF OnEvent
    <2>2. \A c \in Cmd : answer'[c] = "ok" => answer[c] = "ok" \/ (w = 0 /\ c = work[0].cmd)
        <3>1. Finish(w, "ok")
            BY <1>17, Zenon DEF OnEvent
        <3>2. QED
            <4>1. answer \in [Cmd -> Status]
                BY Zenon DEF DemuraTypeOK
            <4>2. CASE w = 0
                BY <3>1, <4>1, <4>2, Zenon DEF Finish
            <4>3. CASE w # 0
                BY <3>1, <4>3, Zenon DEF Finish
            <4>4. QED
                BY <4>2, <4>3
    <2>3. kept \subseteq kept'
        BY <1>17, Zenon DEF OnEvent
    <2>4. w = 0 /\ work[0].cmd \in WithMemory => work[0].cmd \in kept'
        BY <1>17, SMT DEF OnEvent, AnswerInv
    <2>5. AnsweredIsKept'
        BY <2>2, <2>3, <2>4, DemuraConstants, SMT DEF AnswerInv, AnsweredIsKept
    <2>6. QED
        BY <1>17, <2>1, <2>5, SMT DEF OnEvent, AnswerInv, sessionVars
<1>18. ASSUME NEW w \in Worker, OnEventFails(w)
      PROVE  AnswerInv'
    <2>1. /\ w = 0 => work'[0].pc = "off"
          /\ w # 0 => work'[0] = work[0]
        BY <1>18, Workers, FinishEffect, SMT DEF OnEventFails
    <2>2. \A c \in Cmd : answer'[c] = "ok" => answer[c] = "ok"
        BY <1>18, SMT DEF OnEventFails, Finish, DemuraTypeOK
    <2>3. QED
        BY <1>18, <2>1, <2>2, DemuraConstants, SMT DEF OnEventFails, AnswerInv, AnsweredIsKept, sessionVars
<1>19. ASSUME NEW s \in Session, DrainStarts(s)
      PROVE  AnswerInv'
    <2>1. work'[0] = work[0]
        BY <1>19, Workers, SMT DEF DrainStarts, Goto, DemuraTypeOK
    <2>2. QED
        BY <1>19, <2>1, Zenon DEF DrainStarts, AnswerInv, AnsweredIsKept, sessionVars
<1>20. ASSUME NEW s \in Session, DrainNext(s)
      PROVE  AnswerInv'
    <2>1. work'[0] = work[0]
        BY <1>20, Workers, SMT DEF DrainNext, Goto, DemuraTypeOK
    <2>2. QED
        BY <1>20, <2>1, Zenon DEF DrainNext, AnswerInv, AnsweredIsKept, sessionVars
<1>21. ASSUME NEW s \in Session, DrainEnds(s)
      PROVE  AnswerInv'
    <2>1. work'[0] = work[0]
        BY <1>21, Workers, SMT DEF DrainEnds, Goto, DemuraTypeOK
    <2>2. QED
        BY <1>21, <2>1, Zenon DEF DrainEnds, AnswerInv, AnsweredIsKept, sessionVars
<1>22. QED
    <2>1. SessionNext => AnswerInv'
        BY <1>2, <1>3, <1>4, <1>5, <1>6, <1>7, <1>8, <1>9, Zenon DEF SessionNext
    <2>2. \A w \in Worker : HandleImportDemuraBuffers(w) => AnswerInv'
        BY <1>12, <1>13, <1>14, <1>15, <1>16, <1>17, <1>18, Zenon DEF HandleImportDemuraBuffers
    <2>3. HandleSetProperties \/ UNCHANGED vars => AnswerInv'
        BY <1>1, Zenon DEF HandleSetProperties, vars
    <2>4. QED
        BY <1>1, <1>10, <1>11, <1>19, <1>20, <1>21, <2>1, <2>2, <2>3, Steps, Zenon

---------------------------------------------------------------------------
(* Theorems                                                                *)

IInv ==
    /\ PropertyTypeOK /\ ParserInv /\ DemuraTypeOK
    /\ HeardInv /\ ImportInv /\ SessionInv /\ AnswerInv

LEMMA InitInv == Init => IInv
<1> SUFFICES ASSUME Init PROVE IInv
    OBVIOUS
<1>1. PropertyTypeOK /\ ParserInv
    BY ParserInit DEF Init
<1>2. DemuraTypeOK
    <2>1. NoBuffer \in Buffer /\ 0 \in 0 .. MaxSession /\ 0 \in 0 .. MaxCmd
        BY DemuraConstants, SMT DEF NoBuffer, Buffer
    <2>2. Resting("off") \in Work
        BY RestingTyped, Zenon DEF Place
    <2>3. core \in [buffer : Buffer, session : 0 .. MaxSession]
        BY <2>1, SMT DEF Init
    <2>4. QED
        BY <2>1, <2>2, <2>3, SMT DEF Init, DemuraTypeOK, Status
<1>3. \A w \in Worker : work[w].pc = "off"
    BY SMT DEF Init, Resting
<1>4. HeardInv
    BY <1>3, Zenon DEF HeardInv
<1>5. ImportInv
    BY <1>3, SMT DEF Init, ImportInv, NoBuffer
<1>6. SessionInv
    BY SMT DEF Init, SessionInv, SessionBuffers, NoBuffer
<1>7. AnswerInv
    BY <1>3, Workers, DemuraConstants, SMT DEF Init, AnswerInv, AnsweredIsKept
<1>8. QED
    BY <1>1, <1>2, <1>4, <1>5, <1>6, <1>7 DEF IInv

LEMMA NextInv == IInv /\ [Next]_vars => IInv'
BY NextParser, NextTypes, NextHeard, NextImport, NextSession, NextAnswer, Zenon DEF IInv

LEMMA Invariant == Spec => []IInv
BY InitInv, NextInv, PTL DEF Spec

\* Types of the parser, the sessions, the commands and what the core was given.
THEOREM DemuraTyped == Spec => []TypeOK
<1>1. IInv => TypeOK
    BY DEF IInv, TypeOK
<1>2. QED
    BY <1>1, Invariant, PTL

\* Every user's parser is the one there is, loaded and counted, however many
\* users there are and in whatever order they come and go: the handler's
\* reference, which is never given back, keeps it.
THEOREM ParserIsShared == Spec => []ParserStays
<1>1. IInv => ParserStays
    <2> SUFFICES ASSUME IInv PROVE ParserStays
        OBVIOUS
    <2>1. \A u \in User : stage[u] # "out" => has[u] = parser /\ parser # 0
        BY PropertyConstants, SMT DEF IInv, ParserInv, Object
    <2>2. ASSUME NEW u \in User, stage[u] = "in"
          PROVE  map[has[u]] = Parsed(NoProperties, PropertyFile)
        <3>1. has[u] = parser
            BY <2>1, <2>2
        <3>2. stage[Handler] = "in"
            BY <2>2, PropertyConstants, Zenon DEF IInv, ParserInv
        <3>3. QED
            BY <3>1, <3>2, Zenon DEF IInv, ParserInv
    <2>3. QED
        BY <2>1, <2>2, Zenon DEF IInv, ParserInv, ParserStays, In
<1>2. QED
    BY <1>1, Invariant, PTL

\* The core of a session gets only buffers stored in that session.
THEOREM BuffersStayInSession == Spec => []SessionBuffers
<1>1. IInv => SessionBuffers
    BY DEF IInv, SessionInv
<1>2. QED
    BY <1>1, Invariant, PTL

\* The core gets a buffer only where the property file turns demura on, whatever
\* properties the commands set.
THEOREM FileDecides == Spec => []ImportAsConfigured
<1>1. IInv => ImportAsConfigured
    BY DEF IInv, ImportInv, ImportAsConfigured
<1>2. QED
    BY <1>1, Invariant, PTL

\* A buffer that was answered with 0 on the spot has been stored.
THEOREM AnswersAreTrue == Spec => []AnsweredIsKept
<1>1. IInv => AnsweredIsKept
    BY DEF IInv, AnswerInv
<1>2. QED
    BY <1>1, Invariant, PTL
=============================================================================
