----------------------------- MODULE ParserProofs -----------------------------
(***************************************************************************)
(* Proofs about the two parsers of text that reaches credentials: AwsIni,  *)
(* for files of any lines, and CmdLine, for command lines of any length.   *)
(* What is proved of them and of HeaderCodec holds of Formats.             *)
(***************************************************************************)
EXTENDS Formats, HeaderCodecProofs

-----------------------------------------------------------------------------
(* AwsIni: what has been read of a file. *)

\* The headers, and the settings of a section, up to line n.
HeadersTo(n) == {h \in Headers : h <= n}
SettingsTo(n, s) == {k \in Settings(s) : k <= n}

PlaceInv ==
  /\ Len(file) \in Nat /\ at \in 0..Len(file) /\ isConfig \in BOOLEAN
  /\ loading \in {"open", "parse", "loaded", "unreadable", "malformed"}
  /\ loading = "open" => at = 0 /\ file \in Files \cup {Missing, Unreadable}
  /\ loading = "parse" => file \in Files
  /\ loading = "loaded" /\ file # Missing => at = Len(file)

\* The open section is the one that the last header names.
SectionInv ==
  \/ current = NoSection /\ HeadersTo(at) = {}
  \/ /\ current # NoSection
     /\ \E h \in HeadersTo(at) : Names(h) = current /\ \A j \in HeadersTo(at) : j <= h

\* No line has been passed over.
LinesInv ==
  \A k \in 1..at :
    \/ file[k].kind = "blank"
    \/ file[k].kind = "header" /\ file[k].closed
    \/ \E s \in DOMAIN sections : k \in Settings(s)

\* No section and no key is without a name.
NamedInv ==
  /\ NoSection \notin DOMAIN sections
  /\ \A k \in 1..at : file[k].kind = "pair" => file[k].key # NoKey

\* A section holds what the settings among lines K say, the later the better.
Holds(section, K) ==
  /\ DOMAIN section = {file[k].key : k \in K}
  /\ \A k \in K : (\A j \in K : file[j].key = file[k].key => j <= k)
                    => section[file[k].key] = file[k].val

\* The sections hold what the lines so far say.
HeldInv ==
  /\ DOMAIN sections = {Names(h) : h \in HeadersTo(at)}
  /\ \A s \in DOMAIN sections : Holds(sections[s], SettingsTo(at, s))

LoadInv == PlaceInv /\ SectionInv /\ LinesInv /\ NamedInv /\ HeldInv

\* Before the first line the invariant holds.
LEMMA LoadStarts == LoadInit => LoadInv
<1> SUFFICES ASSUME LoadInit PROVE LoadInv
  OBVIOUS
<1>1. Len(file) \in Nat /\ at = 0 /\ 0 \in 0..Len(file)
  <2>1. CASE file \in Files
    BY <2>1, IniAssumption DEF LoadInit
  <2>2. CASE file \in {Missing, Unreadable}
    BY <2>2 DEF LoadInit, Missing, Unreadable
  <2> QED BY <2>1, <2>2 DEF LoadInit
<1>2. PlaceInv
  BY <1>1 DEF LoadInit, PlaceInv
<1>3. HeadersTo(at) = {} /\ \A s : SettingsTo(at, s) = {}
  BY <1>1 DEF HeadersTo, SettingsTo, Headers, Settings
<1>4. SectionInv
  BY <1>3 DEF LoadInit, SectionInv
<1>5. LinesInv
  BY <1>1 DEF LinesInv
<1>6. DOMAIN sections = {}
  BY DEF LoadInit, EmptyFile
<1>7. HeldInv
  BY <1>3, <1>6 DEF HeldInv
<1>8. NamedInv
  BY <1>1, <1>6 DEF NamedInv
<1> QED BY <1>2, <1>4, <1>5, <1>7, <1>8 DEF LoadInv

\* The next line is a setting of the open section, and of no other.
LEMMA HereInSection ==
  ASSUME PlaceInv, SectionInv, loading = "parse", at < Len(file)
  PROVE  \A s : InSection(at + 1, s) <=> current # NoSection /\ s = current
<1>1. at \in Nat /\ \A h \in Headers : h \in Nat /\ (h < at + 1 <=> h <= at) /\ (h >= at + 1 <=> ~(h <= at))
  BY DEF PlaceInv, Headers
<1> TAKE s
<1>2. ASSUME InSection(at + 1, s) PROVE current # NoSection /\ s = current
  <2>1. PICK h \in Headers : /\ h < at + 1 /\ Names(h) = s
                             /\ \A j \in Headers : j <= h \/ j >= at + 1
    BY <1>2 DEF InSection
  <2>2. h \in HeadersTo(at)
    BY <1>1, <2>1 DEF HeadersTo
  <2>3. PICK g \in HeadersTo(at) : Names(g) = current /\ \A j \in HeadersTo(at) : j <= g
    BY <2>2 DEF SectionInv
  <2>4. h = g
    BY <1>1, <2>1, <2>2, <2>3 DEF HeadersTo
  <2> QED BY <2>1, <2>2, <2>3, <2>4 DEF SectionInv
<1>3. ASSUME current # NoSection, s = current PROVE InSection(at + 1, s)
  <2>1. PICK g \in HeadersTo(at) : Names(g) = current /\ \A j \in HeadersTo(at) : j <= g
    BY <1>3 DEF SectionInv
  <2>2. g \in Headers /\ g < at + 1
    BY <1>1, <2>1 DEF HeadersTo
  <2>3. \A j \in Headers : j <= g \/ j >= at + 1
    BY <1>1, <2>1 DEF HeadersTo
  <2> QED BY <1>3, <2>1, <2>2, <2>3 DEF InSection
<1> QED BY <1>2, <1>3

\* One line further: what is added to the headers and settings read.
LEMMA OneLine ==
  ASSUME PlaceInv, at < Len(file)
  PROVE  /\ at + 1 \in 1..Len(file) /\ at \in Nat
         /\ 1..(at + 1) = 1..at \cup {at + 1}
         /\ HeadersTo(at + 1) =
              IF Line.kind = "header" THEN HeadersTo(at) \cup {at + 1} ELSE HeadersTo(at)
         /\ \A s : SettingsTo(at + 1, s) =
              IF Line.kind = "pair" /\ InSection(at + 1, s)
                THEN SettingsTo(at, s) \cup {at + 1} ELSE SettingsTo(at, s)
<1>1. at + 1 \in 1..Len(file) /\ at \in Nat
  BY DEF PlaceInv
<1>2. \A k \in 1..Len(file) : k <= at + 1 <=> (k <= at \/ k = at + 1)
  BY <1>1
<1>3. \A k \in 1..Len(file) : k \in Headers <=> file[k].kind = "header"
  BY DEF Headers
<1>4. Headers \subseteq 1..Len(file) /\ \A s : Settings(s) \subseteq 1..Len(file)
  BY DEF Headers, Settings
<1>5. HeadersTo(at + 1) =
        IF Line.kind = "header" THEN HeadersTo(at) \cup {at + 1} ELSE HeadersTo(at)
  BY <1>1, <1>2, <1>3, <1>4 DEF HeadersTo, Line
<1>6. ASSUME NEW s
      PROVE  SettingsTo(at + 1, s) =
               IF Line.kind = "pair" /\ InSection(at + 1, s)
                 THEN SettingsTo(at, s) \cup {at + 1} ELSE SettingsTo(at, s)
  <2>1. at + 1 \in Settings(s) <=> Line.kind = "pair" /\ InSection(at + 1, s)
    BY <1>1 DEF Settings, Line
  <2> QED BY <1>1, <1>2, <1>4, <2>1 DEF SettingsTo
<1>7. 1..(at + 1) = 1..at \cup {at + 1}
  BY <1>1
<1> QED BY <1>1, <1>5, <1>6, <1>7

\* What the lines of a file mean does not change while it is read.
LEMMA SameFile ==
  ASSUME UNCHANGED <<file, isConfig>>
  PROVE  /\ Headers' = Headers /\ \A h : Names(h)' = Names(h)
         /\ \A k, s : InSection(k, s)' <=> InSection(k, s)
         /\ \A s : Settings(s)' = Settings(s)
         /\ HeadersTo(at)' = HeadersTo(at')
         /\ \A s : SettingsTo(at, s)' = SettingsTo(at', s)
<1>1. Headers' = Headers /\ \A h : Names(h)' = Names(h)
  BY DEF Headers, Names
<1>2. \A k, s : InSection(k, s)' <=> InSection(k, s)
  BY <1>1 DEF InSection
<1>3. \A s : Settings(s)' = Settings(s)
  BY <1>2 DEF Settings
<1> QED BY <1>1, <1>2, <1>3 DEF HeadersTo, SettingsTo

\* The sections hold what the lines say, with what the step leaves alone as it is.
LEMMA HeldOn ==
  ASSUME UNCHANGED <<file, isConfig>>,
         DOMAIN sections' = {Names(h) : h \in HeadersTo(at)'},
         \A s \in DOMAIN sections' : Holds(sections'[s], SettingsTo(at, s)')
  PROVE  HeldInv'
<1>1. {Names(h) : h \in HeadersTo(at)}' = {Names(h) : h \in HeadersTo(at)'}
  BY SameFile
<1>2. \A f, K : Holds(f, K)' <=> Holds(f, K)
  BY DEF Holds
<1>3. ASSUME NEW s \in DOMAIN sections' PROVE Holds(sections[s], SettingsTo(at, s))'
  BY <1>3 DEF Holds
<1> QED BY <1>1, <1>3 DEF HeldInv

\* A line that is blank adds nothing.
LEMMA SkipStep == ASSUME LoadInv, Skip PROVE LoadInv'
<1>1. /\ PlaceInv /\ SectionInv /\ LinesInv /\ NamedInv /\ HeldInv
      /\ loading = "parse" /\ at < Len(file) /\ Line.kind = "blank" /\ at' = at + 1
      /\ UNCHANGED <<file, isConfig, current, sections, loading>>
  BY DEF LoadInv, Skip, LineIs
<1>2. HeadersTo(at)' = HeadersTo(at) /\ \A s : SettingsTo(at, s)' = SettingsTo(at, s)
  BY <1>1, SameFile, OneLine
<1>3. PlaceInv'
  BY <1>1, OneLine DEF PlaceInv
<1>4. SectionInv'
  BY <1>1, <1>2, SameFile DEF SectionInv
<1>5. LinesInv'
  <2>1. 1..at' = 1..at \cup {at + 1} /\ file[at + 1].kind = "blank"
    BY <1>1, OneLine DEF Line
  <2> QED BY <1>1, <2>1, SameFile DEF LinesInv
<1>6. HeldInv'
  BY <1>1, <1>2, HeldOn DEF HeldInv
<1>7. NamedInv'
  <2>1. 1..at' = 1..at \cup {at + 1} /\ file[at + 1].kind = "blank"
    BY <1>1, OneLine DEF Line
  <2> QED BY <1>1, <2>1 DEF NamedInv
<1> QED BY <1>3, <1>4, <1>5, <1>6, <1>7 DEF LoadInv

\* A header opens its section, or one that is there again.
LEMMA HeaderStep == ASSUME LoadInv, Header PROVE LoadInv'
<1>1. /\ PlaceInv /\ SectionInv /\ LinesInv /\ NamedInv /\ HeldInv
      /\ loading = "parse" /\ at < Len(file) /\ Line.kind = "header" /\ Line.closed
      /\ current' = SectionName(Line.name) /\ current' # NoSection
      /\ sections' = [s \in DOMAIN sections \cup {current'} |->
                        IF s \in DOMAIN sections THEN sections[s] ELSE EmptyFile]
      /\ at' = at + 1 /\ UNCHANGED <<file, isConfig, loading>>
  BY DEF LoadInv, Header, LineIs, OpenSection
<1>2. at \in Nat /\ at + 1 \in 1..Len(file) /\ 1..at' = 1..at \cup {at + 1}
  BY <1>1, OneLine
<1>3. HeadersTo(at)' = HeadersTo(at) \cup {at + 1} /\ \A s : SettingsTo(at, s)' = SettingsTo(at, s)
  BY <1>1, SameFile, OneLine
<1>4. current' = Names(at + 1)
  BY <1>1 DEF Names, SectionName, Line
<1>5. PlaceInv'
  BY <1>1, <1>2 DEF PlaceInv
<1>6. SectionInv'
  <2>1. \A j \in HeadersTo(at) : j \in Nat /\ j <= at + 1
    BY <1>2 DEF HeadersTo, Headers
  <2>2. at + 1 <= at + 1
    BY <1>2
  <2>3. \A j \in HeadersTo(at)' : j <= at + 1
    BY <1>3, <2>1, <2>2
  <2> QED BY <1>1, <1>3, <1>4, <2>3, SameFile DEF SectionInv
<1>7. LinesInv'
  <2>1. file[at + 1].kind = "header" /\ file[at + 1].closed
    BY <1>1 DEF Line
  <2>2. DOMAIN sections \subseteq DOMAIN sections'
    BY <1>1
  <2> QED BY <1>1, <1>2, <2>1, <2>2, SameFile DEF LinesInv
<1>8. DOMAIN sections' = {Names(h) : h \in HeadersTo(at)'}
  BY <1>1, <1>3, <1>4, SameFile DEF HeldInv
<1>9. ASSUME NEW s \in DOMAIN sections'
      PROVE  Holds(sections'[s], SettingsTo(at, s))
  <2>1. CASE s \in DOMAIN sections
    BY <1>1, <2>1 DEF HeldInv
  <2>2. CASE s \notin DOMAIN sections
    <3>1. sections'[s] = EmptyFile /\ DOMAIN EmptyFile = {}
      BY <1>1, <2>2 DEF EmptyFile
    <3>2. \A h \in HeadersTo(at) : Names(h) # s
      BY <1>1, <2>2 DEF HeldInv
    <3>3. SettingsTo(at, s) = {}
      <4>1. SUFFICES ASSUME NEW k \in SettingsTo(at, s) PROVE FALSE
        OBVIOUS
      <4>2. PICK h \in Headers : h < k /\ Names(h) = s
        BY <4>1 DEF SettingsTo, Settings, InSection
      <4>3. h \in HeadersTo(at)
        BY <1>2, <4>1, <4>2 DEF HeadersTo, Headers, SettingsTo, Settings
      <4> QED BY <3>2, <4>2, <4>3
    <3> QED BY <3>1, <3>3 DEF Holds
  <2> QED BY <2>1, <2>2
<1>10. HeldInv'
  BY <1>1, <1>3, <1>8, <1>9, HeldOn
<1>11. NamedInv'
  <2>1. file[at + 1].kind = "header" /\ NoSection \notin DOMAIN sections'
    BY <1>1 DEF Line, NamedInv
  <2> QED BY <1>1, <1>2, <2>1 DEF NamedInv
<1> QED BY <1>5, <1>6, <1>7, <1>10, <1>11 DEF LoadInv

\* A setting goes to the open section, over any that its key had there.
LEMMA PairStep == ASSUME LoadInv, Pair PROVE LoadInv'
<1> DEFINE key == Line.key
           old == sections[current]
           new == [k \in DOMAIN old \cup {key} |-> IF k = key THEN Line.val ELSE old[k]]
<1>1. /\ PlaceInv /\ SectionInv /\ LinesInv /\ NamedInv /\ HeldInv
      /\ loading = "parse" /\ at < Len(file) /\ Line.kind = "pair" /\ current # NoSection /\ Line.key # NoKey
      /\ sections' = [sections EXCEPT ![current] = new]
      /\ at' = at + 1 /\ UNCHANGED <<file, isConfig, current, loading>>
  BY DEF LoadInv, Pair, LineIs
<1>2. at \in Nat /\ at + 1 \in 1..Len(file) /\ 1..at' = 1..at \cup {at + 1}
  BY <1>1, OneLine
<1>3. /\ HeadersTo(at)' = HeadersTo(at)
      /\ SettingsTo(at, current)' = SettingsTo(at, current) \cup {at + 1}
      /\ \A s : s # current => SettingsTo(at, s)' = SettingsTo(at, s)
  <2>1. \A s : InSection(at + 1, s) <=> s = current
    BY <1>1, HereInSection
  <2>2. HeadersTo(at + 1) = HeadersTo(at)
    BY <1>1, OneLine
  <2>3. \A s : SettingsTo(at + 1, s) =
          IF s = current THEN SettingsTo(at, s) \cup {at + 1} ELSE SettingsTo(at, s)
    BY <1>1, <2>1, OneLine
  <2> QED BY <1>1, <2>2, <2>3, SameFile
<1>4. current \in DOMAIN sections /\ DOMAIN sections' = DOMAIN sections
  BY <1>1 DEF SectionInv, HeldInv
<1>5. PlaceInv'
  BY <1>1, <1>2 DEF PlaceInv
<1>6. SectionInv'
  BY <1>1, <1>3, SameFile DEF SectionInv
<1>7. LinesInv'
  <2>1. at + 1 \in Settings(current)
    BY <1>3, SameFile, <1>1 DEF SettingsTo
  <2> QED BY <1>1, <1>2, <1>4, <2>1, SameFile DEF LinesInv
<1>8. file[at + 1].key = key /\ file[at + 1].val = Line.val
  BY DEF Line
<1>9. ASSUME NEW s \in DOMAIN sections
      PROVE  Holds(sections'[s], SettingsTo(at, s)')
  <2>1. CASE s # current
    <3>1. sections'[s] = sections[s] /\ SettingsTo(at, s)' = SettingsTo(at, s)
      BY <1>1, <1>3, <2>1
    <3> QED BY <1>1, <3>1 DEF HeldInv
  <2>2. CASE s = current
    <3> DEFINE S == SettingsTo(at, current)
    <3>1. sections'[s] = new /\ SettingsTo(at, s)' = S \cup {at + 1}
      BY <1>1, <1>3, <1>4, <2>2
    <3>2. /\ DOMAIN old = {file[k].key : k \in S}
          /\ \A k \in S : (\A j \in S : file[j].key = file[k].key => j <= k)
                            => old[file[k].key] = file[k].val
      BY <1>1, <1>4 DEF HeldInv, Holds
    <3>3. \A k \in S : k \in Nat /\ ~(at + 1 <= k)
      BY <1>2 DEF SettingsTo, Settings
    <3>4. DOMAIN new = DOMAIN old \cup {key} /\ new[key] = Line.val
          /\ \A k \in DOMAIN old : k # key => new[k] = old[k]
      OBVIOUS
    <3> HIDE DEF old, new, key, S
    <3>5. DOMAIN new = {file[k].key : k \in S \cup {at + 1}}
      BY <1>8, <3>2, <3>4
    <3>6. ASSUME NEW k \in S \cup {at + 1},
                 \A j \in S \cup {at + 1} : file[j].key = file[k].key => j <= k
          PROVE  new[file[k].key] = file[k].val
      <4>1. CASE k = at + 1
        BY <1>8, <3>4, <4>1
      <4>2. CASE k # at + 1
        <5>1. k \in S /\ file[k].key # key
          BY <1>8, <3>3, <3>6, <4>2
        <5>2. old[file[k].key] = file[k].val /\ file[k].key \in DOMAIN old
          BY <3>2, <3>6, <5>1
        <5> QED BY <3>4, <5>1, <5>2
      <4> QED BY <4>1, <4>2
    <3> QED BY <3>1, <3>5, <3>6 DEF Holds
  <2> QED BY <2>1, <2>2
<1>10. HeldInv'
  <2>1. DOMAIN sections' = {Names(h) : h \in HeadersTo(at)'}
    BY <1>1, <1>3, <1>4 DEF HeldInv
  <2> QED BY <1>1, <1>4, <1>9, <2>1, HeldOn
<1>11. NamedInv'
  <2>1. file[at + 1].key # NoKey
    BY <1>1 DEF Line
  <2> HIDE DEF key, old, new
  <2> QED BY <1>1, <1>2, <1>4, <2>1 DEF NamedInv
<1> QED BY <1>5, <1>6, <1>7, <1>10, <1>11 DEF LoadInv

\* Every step of a load keeps the invariant.
LEMMA LoadStep == LoadInv /\ [LoadNext]_iniVars => LoadInv'
<1> SUFFICES ASSUME LoadInv, [LoadNext]_iniVars PROVE LoadInv'
  OBVIOUS
<1>1. CASE Skip
  BY <1>1, SkipStep
<1>2. CASE Header
  BY <1>2, HeaderStep
<1>3. CASE Pair
  BY <1>3, PairStep
<1>4. CASE OpenFile \/ Malformed \/ Loaded \/ UNCHANGED iniVars
  <2>1. UNCHANGED <<file, isConfig, at, current, sections>>
    BY <1>4 DEF OpenFile, Malformed, Loaded, iniVars
  <2>2. PlaceInv'
    <3>1. PlaceInv /\ Missing # Unreadable
      BY DEF LoadInv, Missing, Unreadable
    <3>2. loading = "open" => file \in Files \cup {Missing, Unreadable}
      BY DEF LoadInv, PlaceInv
    <3> QED BY <1>4, <2>1, <3>1 DEF OpenFile, Malformed, LineIs, Loaded, iniVars, PlaceInv
  <2>3. HeadersTo(at)' = HeadersTo(at) /\ \A s : SettingsTo(at, s)' = SettingsTo(at, s)
    BY <2>1, SameFile
  <2>4. SectionInv' /\ LinesInv' /\ NamedInv'
    BY <2>1, <2>3, SameFile DEF LoadInv, SectionInv, LinesInv, NamedInv
  <2>5. HeldInv'
    BY <2>1, <2>3, HeldOn DEF LoadInv, HeldInv
  <2> QED BY <2>2, <2>4, <2>5 DEF LoadInv
<1> QED BY <1>1, <1>2, <1>3, <1>4 DEF LoadNext

\* At every step of a load, what has been read is held as it was written.
THEOREM LoadInvariance == LoadSpec => []LoadInv
BY LoadStarts, LoadStep, PTL DEF LoadSpec

\* The last of the settings that give a key its value in a section, among the lines
\* read so far.
LEMMA LastSetting ==
  ASSUME PlaceInv, NEW section, NEW s, Holds(section, SettingsTo(at, s)), NEW key \in DOMAIN section
  PROVE  \E k \in SettingsTo(at, s) : /\ file[k].key = key /\ section[key] = file[k].val
<1> DEFINE T == {j \in SettingsTo(at, s) : file[j].key = key}
<1>1. T # {}
  BY DEF Holds
<1>2. Len(file) \in Nat /\ T \subseteq 0..Len(file)
  BY DEF PlaceInv, SettingsTo, Settings
<1>3. PICK k \in T : \A j \in T : j <= k
  <2> HIDE DEF T
  <2> QED BY <1>1, <1>2, Largest
<1>4. section[file[k].key] = file[k].val
  BY <1>3 DEF Holds
<1> QED BY <1>3, <1>4

\* The variables of the parser have their types at every step of a load: the open
\* section exists, and what is loaded maps named sections to maps of named keys
\* to values, each of them the value that a line of the file gives that key (File).
THEOREM LoaderTyped == LoadSpec => []LoadTypeOK
<1>1. LoadInv => LoadTypeOK
  <2> SUFFICES ASSUME LoadInv PROVE LoadTypeOK
    OBVIOUS
  <2>1. PlaceInv /\ SectionInv /\ NamedInv /\ HeldInv
    BY DEF LoadInv
  <2>2. ASSUME NEW s \in DOMAIN sections, NEW key \in DOMAIN sections[s]
        PROVE  /\ key # NoKey
               /\ \E k \in 1..at : /\ file[k].kind = "pair" /\ file[k].key = key
                                 /\ sections[s][key] = file[k].val
    <3>1. Holds(sections[s], SettingsTo(at, s))
      BY <2>1 DEF HeldInv
    <3>2. PICK k \in SettingsTo(at, s) : file[k].key = key /\ sections[s][key] = file[k].val
      BY <2>1, <3>1, LastSetting
    <3>3. k \in 1..at /\ file[k].kind = "pair"
      BY <2>1 DEF PlaceInv, SettingsTo, Settings
    <3> QED BY <2>1, <3>2, <3>3 DEF NamedInv
  <2> QED BY <2>1, <2>2 DEF PlaceInv, SectionInv, NamedInv, HeldInv, LoadTypeOK
<1> QED BY LoadInvariance, <1>1, PTL

\* A file is loaded as it is written: no line is passed over, a section that comes
\* twice goes on, and the last value of a key counts (parse).
THEOREM FileHeld == LoadSpec => []LoadedAsWritten
<1>1. LoadInv => LoadedAsWritten
  <2> SUFFICES ASSUME LoadInv, loading = "loaded", file # Missing PROVE LoadedAsWritten
    BY DEF LoadedAsWritten
  <2>1. Len(file) \in Nat /\ at = Len(file) /\ LinesInv /\ HeldInv
    BY DEF LoadInv, PlaceInv
  <2>2. HeadersTo(at) = Headers /\ \A s : SettingsTo(at, s) = Settings(s)
    BY <2>1 DEF HeadersTo, SettingsTo, Headers, Settings
  <2>3. ASSUME NEW s \in DOMAIN sections, NEW key \in DOMAIN sections[s]
        PROVE  sections[s][key] = file[Max({j \in Settings(s) : file[j].key = key})].val
    <3> DEFINE T == {j \in Settings(s) : file[j].key = key}
    <3>1. T # {} /\ T \subseteq 0..Len(file)
      <4>1. \E k \in Settings(s) : key = file[k].key
        BY <2>1, <2>2, <2>3 DEF HeldInv, Holds
      <4>2. Settings(s) \subseteq 0..Len(file)
        BY <2>1 DEF Settings
      <4> QED BY <4>1, <4>2
    <3>2. \E m \in T : \A k \in T : m >= k
      <4>1. PICK m \in T : \A k \in T : k <= m
        <5> HIDE DEF T
        <5> QED BY <2>1, <3>1, Largest
      <4>2. \A k \in T : k \in Int
        BY <2>1, <3>1
      <4> QED BY <4>1, <4>2
    <3>3. Max(T) \in T /\ \A k \in T : Max(T) >= k
      <4> HIDE DEF T
      <4> QED BY <3>2 DEF Max
    <3>4. Max(T) \in Settings(s) /\ file[Max(T)].key = key
      BY <3>3
    <3>5. \A j \in Settings(s) : file[j].key = file[Max(T)].key => j <= Max(T)
      <4>1. \A j \in T : j \in Int
        BY <2>1, <3>1
      <4>2. \A j \in T : j <= Max(T)
        BY <3>3, <4>1
      <4> QED BY <3>4, <4>2
    <3>6. Holds(sections[s], Settings(s))
      BY <2>1, <2>2 DEF HeldInv
    <3> HIDE DEF T
    <3>7. sections[s][key] = file[Max(T)].val
      BY <3>4, <3>5, <3>6 DEF Holds
    <3> QED BY <3>7 DEF T
  <2> QED BY <2>1, <2>2, <2>3 DEF LoadedAsWritten, LinesInv, HeldInv, Holds
<1> QED BY LoadInvariance, <1>1, PTL

-----------------------------------------------------------------------------
(* CmdLine: what has been scanned of a command line. *)

\* Character k ends a word.
Parts(k) == cmdline[k] = "blank" /\ ~Quoted(k)

\* The characters scanned that a word has or will have.
KeptTo(n) == {k \in Kept : k <= n}

\* All that has been kept, the word under way included.
Chars == FlattenSeq(args) \o word

ScanInv ==
  /\ Len(cmdline) \in Nat /\ cmdline \in CmdLines
  /\ \A k \in 1..Len(cmdline) : cmdline[k] \in {"quote", "blank", "other"}
  /\ scanned \in 0..Len(cmdline)
  /\ inQuote \in BOOLEAN /\ (inQuote <=> Quoted(scanned + 1))
  /\ word \in Seq(1..scanned) /\ args \in Seq(Seq(1..scanned) \ {<<>>})
  /\ FlattenSeq(args) \in Seq(1..scanned)
  /\ process \in {"split", "runs", "panics"}

\* They are those to keep, in their order.
Listed(chars, n) ==
  /\ ToSet(chars) = KeptTo(n)
  /\ \A j, k \in 1..Len(chars) : j < k => chars[j] < chars[k]

\* Between characters k and l no word ends.
Together(k, l) == \A m \in k..l : ~Parts(m)

\* In a word none of words ends, and one ends before the next.
Apart(words) ==
  \A x \in 1..Len(words) : \A k \in ToSet(words[x]) :
    /\ \A l \in ToSet(words[x]) : Together(k, l)
    /\ \A y \in 1..Len(words) : x < y =>
         \A l \in ToSet(words[y]) : k < l /\ ~Together(k, l)

\* No word has ended since the one under way began, and one has since each of
\* the others.
WordInv ==
  /\ Apart(args)
  /\ \A k \in ToSet(word) : Together(k, scanned)
  /\ \A x \in 1..Len(args) : \A k \in ToSet(args[x]) :
       /\ ~Together(k, scanned)
       /\ \A l \in ToSet(word) : k < l /\ ~Together(k, l)

SplitInv ==
  /\ ScanInv /\ WordsAsQuoted
  /\ process = "split" => Listed(Chars, scanned) /\ WordInv

\* A quote turns quoting on or off for what follows it.
LEMMA QuotedNext ==
  /\ ~Quoted(1)
  /\ \A k \in Nat \ {0} : Quoted(k + 1) <=> (IF cmdline[k] = "quote" THEN ~Quoted(k) ELSE Quoted(k))
<1> DEFINE Q(k) == {j \in 1..(k - 1) : cmdline[j] = "quote"}
<1>1. \A k \in Nat \ {0} : IsFiniteSet(Q(k)) /\ Cardinality(Q(k)) \in Nat
  <2> TAKE k \in Nat \ {0}
  <2>1. IsFiniteSet(1..(k - 1)) /\ Q(k) \subseteq 1..(k - 1)
    BY FS_Interval
  <2> HIDE DEF Q
  <2> QED BY <2>1, FS_Subset, FS_CardinalityType
<1>2. ~Quoted(1)
  <2>1. Q(1) = {}
    OBVIOUS
  <2>2. Cardinality(Q(1)) = 0
    BY <2>1, FS_EmptySet
  <2> QED BY <2>2 DEF Quoted
<1>3. ASSUME NEW k \in Nat \ {0}
      PROVE  Quoted(k + 1) <=> (IF cmdline[k] = "quote" THEN ~Quoted(k) ELSE Quoted(k))
  <2>1. /\ cmdline[k] = "quote" => Q(k + 1) = Q(k) \cup {k} /\ k \notin Q(k)
        /\ cmdline[k] # "quote" => Q(k + 1) = Q(k)
    <3>1. 1..((k + 1) - 1) = 1..(k - 1) \cup {k} /\ k \notin 1..(k - 1)
      OBVIOUS
    <3> QED BY <3>1
  <2>2. Quoted(k + 1) <=> Cardinality(Q(k + 1)) % 2 = 1
    BY DEF Quoted
  <2>3. Quoted(k) <=> Cardinality(Q(k)) % 2 = 1
    BY DEF Quoted
  <2> HIDE DEF Q
  <2>4. CASE cmdline[k] = "quote"
    <3>1. Cardinality(Q(k + 1)) = Cardinality(Q(k)) + 1
      BY <1>1, <2>1, <2>4, FS_AddElement
    <3>2. \A n \in Nat : (n + 1) % 2 = 1 <=> ~(n % 2 = 1)
      OBVIOUS
    <3>3. Cardinality(Q(k)) \in Nat
      BY <1>1
    <3> QED BY <2>2, <2>3, <2>4, <3>1, <3>2, <3>3
  <2>5. CASE cmdline[k] # "quote"
    BY <2>1, <2>2, <2>3, <2>5
  <2> QED BY <2>4, <2>5
<1> QED BY <1>2, <1>3

\* What the characters of a command line mean does not change while it is split.
LEMMA SameLine ==
  ASSUME UNCHANGED cmdline
  PROVE  /\ \A k : Quoted(k)' <=> Quoted(k)
         /\ \A k : Parts(k)' <=> Parts(k)
         /\ Kept' = Kept
         /\ \A n : KeptTo(n)' = KeptTo(n)
         /\ \A k, l : Together(k, l)' <=> Together(k, l)
         /\ \A words : Apart(words)' <=> Apart(words)
<1>1. \A k : Quoted(k)' <=> Quoted(k)
  BY DEF Quoted
<1>2. \A k : Parts(k)' <=> Parts(k)
  BY <1>1 DEF Parts
<1>3. Kept' = Kept
  BY <1>1 DEF Kept
<1>4. \A n : KeptTo(n)' = KeptTo(n)
  BY <1>3 DEF KeptTo
<1>5. \A k, l : Together(k, l)' <=> Together(k, l)
  BY <1>2 DEF Together
<1>6. \A words : Apart(words)' <=> Apart(words)
  BY <1>5 DEF Apart
<1> QED BY <1>1, <1>2, <1>3, <1>4, <1>5, <1>6

\* One character further.
LEMMA OneCharacter ==
  ASSUME ScanInv, scanned < Len(cmdline)
  PROVE  /\ scanned \in Nat /\ scanned + 1 \in 1..Len(cmdline)
         /\ KeptTo(scanned + 1) =
              IF scanned + 1 \in Kept THEN KeptTo(scanned) \cup {scanned + 1} ELSE KeptTo(scanned)
         /\ \A k \in 1..scanned :
              Together(k, scanned + 1) <=> Together(k, scanned) /\ ~Parts(scanned + 1)
<1>1. scanned \in Nat /\ scanned + 1 \in 1..Len(cmdline)
  BY DEF ScanInv
<1>2. \A k \in Kept : k \in Nat /\ (k <= scanned + 1 <=> (k <= scanned \/ k = scanned + 1))
  BY <1>1 DEF Kept, ScanInv
<1>3. \A k \in 1..scanned : k..(scanned + 1) = k..scanned \cup {scanned + 1}
  BY <1>1
<1> QED BY <1>1, <1>2, <1>3 DEF KeptTo, Together

\* The word under way, put with the others.
LEMMA Completed ==
  ASSUME ScanInv, WordInv
  PROVE  /\ Complete(args) \in Seq(Seq(1..scanned) \ {<<>>})
         /\ FlattenSeq(Complete(args)) = Chars /\ Chars \in Seq(1..scanned)
         /\ Apart(Complete(args))
         /\ \A x \in 1..Len(Complete(args)) :
              Complete(args)[x] = word \/ \E y \in 1..Len(args) : Complete(args)[x] = args[y]
<1>1. /\ word \in Seq(1..scanned) /\ args \in Seq(Seq(1..scanned) \ {<<>>})
      /\ FlattenSeq(args) \in Seq(1..scanned) /\ scanned \in Nat
  BY DEF ScanInv
<1>2. CASE word = <<>>
  <2>1. Complete(args) = args
    BY <1>2 DEF Complete
  <2>2. Chars = FlattenSeq(args)
    BY <1>1, <1>2, ConcatEmptySeq DEF Chars
  <2> QED BY <1>1, <2>1, <2>2 DEF WordInv
<1>3. CASE word # <<>>
  <2> DEFINE n == Len(args)
             words == Append(args, word)
  <2>1. Complete(args) = words
    BY <1>3 DEF Complete
  <2>2. /\ n \in Nat /\ words \in Seq(Seq(1..scanned) \ {<<>>}) /\ Len(words) = n + 1
        /\ words[n + 1] = word /\ \A x \in 1..n : words[x] = args[x]
    BY <1>1, <1>3
  <2>3. Chars \in Seq(1..scanned)
    BY <1>1 DEF Chars
  <2>4. FlattenSeq(words) = Chars
    <3>1. args \in Seq(Seq(1..scanned))
      BY <1>1
    <3>2. CASE args = <<>>
      <4>1. words = <<word>>
        BY <1>1, <3>2
      <4>2. FlattenSeq(args) = <<>>
        BY <3>2, Flatten
      <4>3. Chars = word
        BY <1>1, <4>2, ConcatEmptySeq DEF Chars
      <4>4. FlattenSeq(<<word>>) = word
        BY <1>1, Flatten
      <4> QED BY <4>1, <4>3, <4>4
    <3>3. CASE args # <<>>
      BY <1>1, <3>1, <3>3, Flatten DEF Chars
    <3> QED BY <3>2, <3>3
  <2> HIDE DEF n, words
  <2>5. ASSUME NEW k \in ToSet(word), NEW l \in ToSet(word) PROVE Together(k, l)
    <3>1. k \in 1..scanned /\ l \in 1..scanned
      BY <1>1 DEF ToSet
    <3>2. k..l \subseteq k..scanned
      BY <1>1, <3>1
    <3> QED BY <3>2 DEF WordInv, Together
  <2>6. ASSUME NEW x \in 1..(n + 1), NEW k \in ToSet(words[x]),
               NEW y \in 1..(n + 1), NEW l \in ToSet(words[y])
        PROVE  (x = y => Together(k, l)) /\ (x < y => k < l /\ ~Together(k, l))
    <3>1. CASE x \in 1..n /\ y \in 1..n
      BY <2>2, <2>6, <3>1 DEF WordInv, Apart, n
    <3>2. CASE x \in 1..n /\ y = n + 1
      BY <2>2, <2>6, <3>2 DEF WordInv, n
    <3>3. CASE x = n + 1
      <4>1. ~(x < y) /\ (x = y => k \in ToSet(word) /\ l \in ToSet(word))
        BY <2>2, <2>6, <3>3
      <4> QED BY <2>5, <4>1
    <3>4. x \in 1..n \/ x = n + 1
      BY <2>2
    <3>5. y \in 1..n \/ y = n + 1
      BY <2>2
    <3> QED BY <3>1, <3>2, <3>3, <3>4, <3>5
  <2>7. Apart(words)
    BY <2>2, <2>6 DEF Apart
  <2>8. \A x \in 1..(n + 1) : words[x] = word \/ \E y \in 1..n : words[x] = args[y]
    BY <2>2
  <2> QED BY <2>1, <2>2, <2>3, <2>4, <2>7, <2>8 DEF n
<1> QED BY <1>2, <1>3

\* Before the first character the invariant holds.
LEMMA SplitStarts == SplitInit => SplitInv
<1> SUFFICES ASSUME SplitInit PROVE SplitInv
  OBVIOUS
<1>1. Len(cmdline) \in Nat /\ \A k \in 1..Len(cmdline) : cmdline[k] \in {"quote", "blank", "other"}
  <2>1. PICK m \in 0..MaxChars : cmdline \in [1..m -> {"quote", "blank", "other"}]
    BY DEF SplitInit, CmdLines, BoundedSeq, SeqOf
  <2>2. m \in Nat /\ cmdline \in Seq({"quote", "blank", "other"})
    BY <2>1, CmdLineAssumption
  <2> QED BY <2>2
<1>2. /\ scanned = 0 /\ inQuote = FALSE /\ word = <<>> /\ args = <<>> /\ process = "split"
      /\ cmdline \in CmdLines
  BY DEF SplitInit
<1>3. FlattenSeq(args) = <<>>
  BY <1>2, Flatten
<1>4. ~Quoted(scanned + 1)
  BY <1>2, QuotedNext
<1>5. ScanInv
  <2>1. \A S : <<>> \in Seq(S)
    OBVIOUS
  <2>2. scanned \in 0..Len(cmdline)
    BY <1>1, <1>2
  <2> QED BY <1>1, <1>2, <1>3, <1>4, <2>1, <2>2 DEF ScanInv
<1>6. Chars = <<>>
  BY <1>2, <1>3 DEF Chars
<1>7. Listed(Chars, scanned)
  <2>1. KeptTo(0) = {}
    BY <1>1 DEF KeptTo, Kept
  <2> QED BY <1>2, <1>6, <2>1 DEF Listed, ToSet
<1>8. WordInv
  BY <1>2 DEF WordInv, Apart, ToSet
<1> QED BY <1>2, <1>5, <1>7, <1>8 DEF SplitInv, WordsAsQuoted

\* What a step that scans a character starts from.
LEMMA ScanStarts ==
  ASSUME SplitInv, Scan
  PROVE  /\ ScanInv /\ WordInv /\ Listed(Chars, scanned) /\ process = "split"
         /\ scanned < Len(cmdline) /\ scanned' = scanned + 1 /\ Char = cmdline[scanned + 1]
         /\ (inQuote <=> Quoted(scanned + 1))
         /\ Quoted((scanned + 1) + 1) <=>
              (IF Char = "quote" THEN ~Quoted(scanned + 1) ELSE Quoted(scanned + 1))
<1>1. /\ ScanInv /\ WordInv /\ Listed(Chars, scanned) /\ process = "split"
      /\ scanned < Len(cmdline) /\ scanned' = scanned + 1 /\ Char = cmdline[scanned + 1]
  BY DEF SplitInv, Scan, Char
<1>2. scanned + 1 \in Nat \ {0}
  BY <1>1, OneCharacter
<1> QED BY <1>1, <1>2, QuotedNext DEF ScanInv

\* Sequences of offsets up to n are sequences of offsets up to n + 1.
LEMMA OffsetsGrow ==
  ASSUME NEW n \in Nat
  PROVE  /\ Seq(1..n) \subseteq Seq(1..(n + 1))
         /\ Seq(Seq(1..n) \ {<<>>}) \subseteq Seq(Seq(1..(n + 1)) \ {<<>>})
<1>1. 1..n \subseteq 1..(n + 1)
  OBVIOUS
<1>2. \A S, T : S \subseteq T => Seq(S) \subseteq Seq(T)
  OBVIOUS
<1>3. Seq(1..n) \subseteq Seq(1..(n + 1))
  BY <1>1, <1>2
<1> QED BY <1>2, <1>3

\* Words are made of characters that have been scanned.
LEMMA WordsScanned ==
  ASSUME ScanInv
  PROVE  /\ \A k \in ToSet(word) : k \in 1..scanned
         /\ \A x \in 1..Len(args) : \A k \in ToSet(args[x]) : k \in 1..scanned
<1>1. \A w \in Seq(1..scanned) : \A k \in ToSet(w) : k \in 1..scanned
  <2> TAKE w \in Seq(1..scanned)
  <2>1. DOMAIN w = 1..Len(w) /\ \A j \in 1..Len(w) : w[j] \in 1..scanned
    BY LenProperties
  <2> QED BY <2>1 DEF ToSet
<1>2. word \in Seq(1..scanned) /\ \A x \in 1..Len(args) : args[x] \in Seq(1..scanned)
  BY DEF ScanInv
<1> QED BY <1>1, <1>2

\* A quote is dropped.
LEMMA QuoteStep == ASSUME SplitInv, Quote PROVE SplitInv'
<1>1. /\ Scan /\ Char = "quote" /\ inQuote' = ~inQuote
      /\ UNCHANGED <<cmdline, word, args, process>>
  BY DEF Quote
<1> DEFINE n == scanned + 1
<1>2. ~Parts(n) /\ n \notin Kept
  BY <1>1, ScanStarts DEF Parts, Kept
<1>3. Chars' = Chars
  BY <1>1 DEF Chars
<1>4. ScanInv'
  <2>1. scanned \in Nat /\ n \in 0..Len(cmdline)
    BY <1>1, ScanStarts, OneCharacter
  <2>2. word \in Seq(1..n) /\ args \in Seq(Seq(1..n) \ {<<>>}) /\ FlattenSeq(args) \in Seq(1..n)
    BY <1>1, <2>1, ScanStarts, OffsetsGrow DEF ScanInv
  <2>3. inQuote' <=> Quoted(scanned' + 1)
    BY <1>1, ScanStarts DEF ScanInv
  <2> HIDE DEF n
  <2>4. scanned' = n
    BY <1>1, ScanStarts DEF n
  <2> QED BY <1>1, <2>1, <2>2, <2>3, <2>4, ScanStarts, SameLine DEF ScanInv
<1>5. Listed(Chars, scanned)'
  BY <1>1, <1>2, <1>3, ScanStarts, OneCharacter, SameLine DEF Listed
<1>6. WordInv'
  <2>1. \A k \in 1..scanned : Together(k, n) <=> Together(k, scanned)
    BY <1>1, <1>2, ScanStarts, OneCharacter
  <2>2. /\ \A k \in ToSet(word) : k \in 1..scanned
        /\ \A x \in 1..Len(args) : \A k \in ToSet(args[x]) : k \in 1..scanned
    BY <1>1, ScanStarts, WordsScanned
  <2>3. WordInv /\ scanned' = n
    BY <1>1, ScanStarts
  <2> HIDE DEF n
  <2> QED BY <1>1, <2>1, <2>2, <2>3, SameLine DEF WordInv
<1> QED BY <1>1, <1>4, <1>5, <1>6, ScanStarts DEF SplitInv, WordsAsQuoted

\* A blank outside quotes ends the word.
LEMMA SeparatorStep == ASSUME SplitInv, Separator PROVE SplitInv'
<1>1. /\ Scan /\ Char = "blank" /\ ~inQuote /\ args' = Complete(args) /\ word' = <<>>
      /\ UNCHANGED <<cmdline, inQuote, process>>
  BY DEF Separator, Separates
<1> DEFINE n == scanned + 1
<1>2. /\ ScanInv /\ WordInv /\ Listed(Chars, scanned) /\ scanned' = n
      /\ scanned \in Nat /\ n \in 1..Len(cmdline) /\ Parts(n) /\ n \notin Kept
  BY <1>1, ScanStarts, OneCharacter DEF Parts, Kept
<1>3. /\ args' \in Seq(Seq(1..scanned) \ {<<>>}) /\ FlattenSeq(args') = Chars
      /\ Chars \in Seq(1..scanned) /\ Apart(args')
      /\ \A x \in 1..Len(args') :
           args'[x] = word \/ \E y \in 1..Len(args) : args'[x] = args[y]
  BY <1>1, <1>2, Completed
<1>4. Chars' = Chars
  BY <1>1, <1>3, ConcatEmptySeq DEF Chars
<1>5. ScanInv'
  <2>1. n \in 0..Len(cmdline) /\ Len(cmdline) \in Nat
    BY <1>2 DEF ScanInv
  <2>2. args' \in Seq(Seq(1..n) \ {<<>>}) /\ FlattenSeq(args') \in Seq(1..n)
    BY <1>2, <1>3, OffsetsGrow
  <2>3. inQuote' <=> Quoted(scanned' + 1)
    BY <1>1, ScanStarts
  <2>4. <<>> \in Seq(1..n)
    OBVIOUS
  <2> HIDE DEF n
  <2> QED BY <1>1, <1>2, <2>1, <2>2, <2>3, <2>4, SameLine DEF ScanInv
<1>6. Listed(Chars, scanned)'
  BY <1>1, <1>2, <1>4, ScanStarts, OneCharacter, SameLine DEF Listed
<1>7. WordInv'
  <2>1. \A x \in 1..Len(args') : \A k \in ToSet(args'[x]) : k \in 1..scanned
    BY <1>2, <1>3, WordsScanned
  <2>2. \A k \in 1..scanned : ~Together(k, n)
    BY <1>1, <1>2, ScanStarts, OneCharacter
  <2>3. ToSet(word') = {}
    BY <1>1 DEF ToSet
  <2> HIDE DEF n
  <2> QED BY <1>1, <1>2, <1>3, <2>1, <2>2, <2>3, SameLine DEF WordInv
<1> QED BY <1>1, <1>5, <1>6, <1>7, ScanStarts DEF SplitInv, WordsAsQuoted

\* Every other character goes to the word.
LEMMA LetterStep == ASSUME SplitInv, Letter PROVE SplitInv'
<1> DEFINE n == scanned + 1
<1>1. /\ Scan /\ Char # "quote" /\ ~(Char = "blank" /\ ~inQuote) /\ word' = Append(word, n)
      /\ UNCHANGED <<cmdline, inQuote, args, process>>
  BY DEF Letter, Separates
<1>2. /\ ScanInv /\ WordInv /\ Listed(Chars, scanned) /\ scanned' = n
      /\ scanned \in Nat /\ n \in 1..Len(cmdline)
  BY <1>1, ScanStarts, OneCharacter
<1>3. ~Parts(n) /\ n \in Kept
  <2>1. Char \in {"quote", "blank", "other"} /\ Char = cmdline[n] /\ (inQuote <=> Quoted(n))
    BY <1>1, <1>2, ScanStarts DEF ScanInv
  <2> HIDE DEF n
  <2> QED BY <1>1, <1>2, <2>1 DEF Parts, Kept
<1>4. word \in Seq(1..scanned) /\ FlattenSeq(args) \in Seq(1..scanned) /\ Chars \in Seq(1..scanned)
  BY <1>2 DEF ScanInv, Chars
<1>5. word' \in Seq(1..n) /\ ToSet(word') = ToSet(word) \cup {n}
  <2>1. word \in Seq(1..n) /\ n \in 1..n
    BY <1>2, <1>4, OffsetsGrow
  <2> HIDE DEF n
  <2> QED BY <1>1, <2>1 DEF ToSet
<1>6. Chars' = Append(Chars, n)
  <2>1. FlattenSeq(args) \in Seq(Nat) /\ word \in Seq(Nat) /\ n \in Nat
    BY <1>2, <1>4
  <2>2. \A s, t \in Seq(Nat) : \A x \in Nat : s \o Append(t, x) = Append(s \o t, x)
    OBVIOUS
  <2> HIDE DEF n
  <2> QED BY <1>1, <2>1, <2>2 DEF Chars
<1>7. ScanInv'
  <2>1. n \in 0..Len(cmdline) /\ Len(cmdline) \in Nat
    BY <1>2 DEF ScanInv
  <2>2. args \in Seq(Seq(1..n) \ {<<>>}) /\ FlattenSeq(args) \in Seq(1..n)
    BY <1>2, <1>4, OffsetsGrow DEF ScanInv
  <2>3. inQuote' <=> Quoted(scanned' + 1)
    BY <1>1, ScanStarts
  <2> HIDE DEF n
  <2> QED BY <1>1, <1>2, <1>5, <2>1, <2>2, <2>3, SameLine DEF ScanInv
<1>8. Listed(Chars, scanned)'
  <2>1. KeptTo(n) = KeptTo(scanned) \cup {n}
    BY <1>1, <1>2, <1>3, ScanStarts, OneCharacter
  <2>2. Len(Chars) \in Nat /\ \A j \in 1..Len(Chars) : Chars[j] \in Nat /\ Chars[j] < n
    BY <1>2, <1>4
  <2>3. /\ Len(Chars') = Len(Chars) + 1 /\ Chars'[Len(Chars) + 1] = n
        /\ \A j \in 1..Len(Chars) : Chars'[j] = Chars[j]
    BY <1>4, <1>6
  <2> DEFINE m == Len(Chars)
  <2>4. \A j, k \in 1..(m + 1) : j < k => Chars'[j] < Chars'[k]
    <3> SUFFICES ASSUME NEW j \in 1..(m + 1), NEW k \in 1..(m + 1), j < k
                 PROVE  Chars'[j] < Chars'[k]
      OBVIOUS
    <3>1. j \in 1..m /\ (k \in 1..m \/ k = m + 1)
      BY <2>2
    <3>2. CASE k \in 1..m
      BY <1>2, <2>3, <3>1, <3>2 DEF Listed
    <3>3. CASE k = m + 1
      BY <2>2, <2>3, <3>1, <3>3
    <3> QED BY <3>1, <3>2, <3>3
  <2>5. ToSet(Chars') = ToSet(Chars) \cup {n}
    <3>1. DOMAIN Chars' = 1..(m + 1) /\ DOMAIN Chars = 1..m
      BY <1>4, <1>6, <2>2, <2>3
    <3>2. 1..(m + 1) = 1..m \cup {m + 1}
      BY <2>2
    <3> HIDE DEF m, n
    <3> QED BY <2>3, <3>1, <3>2 DEF ToSet, m
  <2> HIDE DEF n
  <2> QED BY <1>1, <1>2, <2>1, <2>3, <2>4, <2>5, SameLine DEF Listed
<1>9. WordInv'
  <2>1. \A k \in 1..scanned : Together(k, n) <=> Together(k, scanned)
    BY <1>1, <1>3, ScanStarts, OneCharacter
  <2>2. /\ \A k \in ToSet(word) : k \in 1..scanned
        /\ \A x \in 1..Len(args) : \A k \in ToSet(args[x]) : k \in 1..scanned
    BY <1>2, WordsScanned
  <2>3. Together(n, n)
    BY <1>2, <1>3 DEF Together
  <2>4. \A k \in 1..scanned : k < n
    BY <1>2
  <2>5. \A k \in ToSet(word') : Together(k, n)
    BY <1>2, <1>5, <2>1, <2>2, <2>3 DEF WordInv
  <2>6. \A x \in 1..Len(args) : \A k \in ToSet(args[x]) :
          ~Together(k, n) /\ \A l \in ToSet(word') : k < l /\ ~Together(k, l)
    BY <1>2, <1>5, <2>1, <2>2, <2>4 DEF WordInv
  <2> HIDE DEF n
  <2> QED BY <1>1, <1>2, <2>5, <2>6, SameLine DEF WordInv
<1> QED BY <1>1, <1>7, <1>8, <1>9, ScanStarts DEF SplitInv, WordsAsQuoted

\* The end of the line completes the words.
LEMMA RunStep == ASSUME SplitInv, Run PROVE SplitInv'
<1>1. /\ process = "split" /\ scanned = Len(cmdline) /\ args' = Complete(args) /\ word' = <<>>
      /\ process' \in {"runs", "panics"} /\ UNCHANGED <<cmdline, scanned, inQuote>>
  BY DEF Run
<1>2. ScanInv /\ WordInv /\ Listed(Chars, scanned)
  BY <1>1 DEF SplitInv
<1>3. /\ args' \in Seq(Seq(1..scanned) \ {<<>>}) /\ FlattenSeq(args') = Chars
      /\ Chars \in Seq(1..scanned) /\ Apart(args')
      /\ \A x \in 1..Len(args') :
           args'[x] = word \/ \E y \in 1..Len(args) : args'[x] = args[y]
  BY <1>1, <1>2, Completed
<1>4. ScanInv'
  <2>1. <<>> \in Seq(1..scanned)
    OBVIOUS
  <2> QED BY <1>1, <1>2, <1>3, <2>1, SameLine DEF ScanInv
<1>5. Len(cmdline) \in Nat /\ KeptTo(scanned) = Kept
  BY <1>1, <1>2 DEF KeptTo, Kept, ScanInv
<1>6. \A k, l : Together(k, l) <=> \A m \in k..l : cmdline[m] = "blank" => Quoted(m)
  BY DEF Together, Parts
<1>7. ASSUME NEW x \in 1..Len(args'), NEW y \in 1..Len(args'),
             NEW k \in ToSet(args'[x]), NEW l \in ToSet(args'[y]), k < l
      PROVE  x = y <=> Together(k, l)
  <2>1. x \in Nat /\ y \in Nat
    BY <1>3
  <2>2. k \in Nat /\ l \in Nat
    <3>1. \A z \in 1..Len(args') : \A j \in ToSet(args'[z]) : j \in 1..scanned
      BY <1>2, <1>3, WordsScanned
    <3>2. k \in 1..scanned /\ l \in 1..scanned
      BY <1>7, <3>1
    <3> QED BY <3>2
  <2>3. CASE x = y
    BY <1>3, <1>7, <2>3 DEF Apart
  <2>4. CASE x < y
    BY <1>3, <1>7, <2>1, <2>4 DEF Apart
  <2>5. CASE y < x
    <3>1. l < k
      BY <1>3, <1>7, <2>5 DEF Apart
    <3> QED BY <1>7, <2>2, <3>1
  <2> QED BY <2>1, <2>3, <2>4, <2>5
<1>8. WordsAsQuoted'
  <2>1. ToSet(FlattenSeq(args')) = Kept
    BY <1>2, <1>3, <1>5 DEF Listed
  <2>2. \A j, k \in 1..Len(FlattenSeq(args')) : j < k => FlattenSeq(args')[j] < FlattenSeq(args')[k]
    BY <1>2, <1>3 DEF Listed
  <2> QED BY <1>1, <1>6, <1>7, <2>1, <2>2, SameLine DEF WordsAsQuoted
<1> QED BY <1>1, <1>4, <1>8 DEF SplitInv

\* Every step of splitCmdline keeps the invariant.
LEMMA SplitStep == SplitInv /\ [SplitNext]_cmdVars => SplitInv'
<1> SUFFICES ASSUME SplitInv, [SplitNext]_cmdVars PROVE SplitInv'
  OBVIOUS
<1>1. CASE UNCHANGED cmdVars
  <2>1. UNCHANGED <<cmdline, scanned, inQuote, word, args, process>>
    BY <1>1 DEF cmdVars
  <2>2. ScanInv'
    BY <2>1, SameLine DEF SplitInv, ScanInv
  <2>3. WordsAsQuoted'
    BY <2>1, SameLine DEF SplitInv, WordsAsQuoted
  <2>4. process' = "split" => Listed(Chars, scanned)' /\ WordInv'
    BY <2>1, SameLine DEF SplitInv, Listed, Chars, WordInv
  <2> QED BY <2>2, <2>3, <2>4 DEF SplitInv
<1> QED BY <1>1, QuoteStep, SeparatorStep, LetterStep, RunStep DEF SplitNext

\* At every character of a command line, of whatever length, what has been scanned
\* is in its place.
THEOREM SplitInvariance == SplitSpec => []SplitInv
BY SplitStarts, SplitStep, PTL DEF SplitSpec

\* The variables of splitCmdline have their types: no word is empty.
THEOREM SplitterTyped == SplitSpec => []SplitTypeOK
<1>1. SplitInv => SplitTypeOK
  BY DEF SplitInv, ScanInv, SplitTypeOK
<1> QED BY SplitInvariance, <1>1, PTL

\* The words that splitCmdline returns keep every character that is no quote and no
\* blank outside quotes, once, in order, and parted where such a blank stands.
THEOREM EveryCharacterKept == SplitSpec => []WordsAsQuoted
<1>1. SplitInv => WordsAsQuoted
  BY DEF SplitInv
<1> QED BY SplitInvariance, <1>1, PTL

-----------------------------------------------------------------------------
(* How long the two take. *)

LinesLeft ==
  CASE loading = "open" -> Len(file) + 2
    [] loading = "parse" -> Len(file) - at + 1
    [] OTHER -> 0

CharactersLeft == IF process = "split" THEN Len(cmdline) - scanned + 1 ELSE 0

\* loadFile takes a step for each line and two more, whatever the lines are.
THEOREM LoaderEnds ==
  LoadSpec => /\ [](LinesLeft \in 0..(Len(file) + 2))
              /\ [][LinesLeft' < LinesLeft]_iniVars
<1>1. LoadInv => LinesLeft \in 0..(Len(file) + 2)
  BY DEF LoadInv, PlaceInv, LinesLeft
<1>2. ASSUME LoadInv, LoadNext PROVE LinesLeft' < LinesLeft
  <2>1. Len(file) \in Nat /\ at \in 0..Len(file) /\ file' = file
    BY <1>2 DEF LoadInv, PlaceInv, LoadNext, OpenFile, Skip, Header, Pair, Malformed, Loaded
  <2>2. CASE OpenFile
    BY <2>1, <2>2 DEF OpenFile, LinesLeft
  <2>3. CASE Skip \/ Header \/ Pair
    BY <2>1, <2>3 DEF Skip, Header, Pair, LineIs, LinesLeft
  <2>4. CASE Malformed \/ Loaded
    BY <2>1, <2>4 DEF Malformed, Loaded, LineIs, LinesLeft
  <2> QED BY <1>2, <2>2, <2>3, <2>4 DEF LoadNext
<1>3. LoadInv /\ [LoadNext]_iniVars => [LinesLeft' < LinesLeft]_iniVars
  BY <1>2
<1> QED BY LoadInvariance, <1>1, <1>3, PTL DEF LoadSpec

\* splitCmdline takes a step for each character and one more.
THEOREM SplitterEnds ==
  SplitSpec => /\ [](CharactersLeft \in 0..(Len(cmdline) + 1))
               /\ [][CharactersLeft' < CharactersLeft]_cmdVars
<1>1. SplitInv => CharactersLeft \in 0..(Len(cmdline) + 1)
  BY DEF SplitInv, ScanInv, CharactersLeft
<1>2. ASSUME SplitInv, SplitNext PROVE CharactersLeft' < CharactersLeft
  BY <1>2 DEF SplitInv, ScanInv, SplitNext, Quote, Separator, Letter, Scan, Run, CharactersLeft
<1>3. SplitInv /\ [SplitNext]_cmdVars => [CharactersLeft' < CharactersLeft]_cmdVars
  BY <1>2
<1> QED BY SplitInvariance, <1>1, <1>3, PTL DEF SplitSpec

-----------------------------------------------------------------------------
(* Formats. *)

\* A step of Formats is one of the parser that runs, and none of the others.
LEMMA OneParserSteps ==
  [FormatsNext]_formatVars => [DecodeNext]_decodeVars /\ [LoadNext]_iniVars /\ [SplitNext]_cmdVars
BY DEF FormatsNext, formatVars

\* Each parser behaves as it does alone.
THEOREM ParsersApart == FormatsSpec => DecodeSpec /\ LoadSpec /\ SplitSpec
<1>1. FormatsInit => DecodeInit /\ LoadInit /\ SplitInit
  BY DEF FormatsInit
<1> QED BY <1>1, OneParserSteps, PTL DEF FormatsSpec, DecodeSpec, LoadSpec, SplitSpec

\* The variables of all three have their types, whatever they are given to read.
THEOREM FormatsTyped == FormatsSpec => []TypesOK
<1>1. DecodeTypeOK /\ LoadTypeOK /\ SplitTypeOK => TypesOK
  BY DEF TypesOK
<1> QED BY <1>1, ParsersApart, DecoderTyped, LoaderTyped, SplitterTyped, PTL

\* What is proved of each parser holds of it here.
THEOREM FormatsRight ==
  FormatsSpec => [](IndexInRange /\ ReadExactly /\ NoHeaderRefused /\ RoundTrip
                    /\ LoadedAsWritten /\ WordsAsQuoted)
BY ParsersApart, DecoderInRange, EveryByteRead, RefusedIsNoHeader, WhatIsWrittenComesBack,
   FileHeld, EveryCharacterKept, PTL
==============================================================================
