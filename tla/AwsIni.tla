------------------------------- MODULE AwsIni -------------------------------
(***************************************************************************)
(* The parser of the shared config and credentials files: loadFile and the *)
(* loop of parse, one line a step.  A line is what TrimSpace leaves of it, *)
(* reduced to its kind and its parts; the name in a section header is a    *)
(* sequence of words, because `[profile x]` means x in the config file.    *)
(***************************************************************************)
EXTENDS Naturals, Sequences, FiniteSetsExt

CONSTANTS
  Files,    \* what may stand in a file: sequences of lines
  ProfileWord,  \* the word "profile"
  NoKey     \* an empty key

ASSUME IniAssumption == \A f \in Files :
  Len(f) \in Nat /\ \A k \in 1..Len(f) :
    \/ f[k].kind \in {"blank", "bare", "toolong"}
    \/ f[k].kind = "header" /\ DOMAIN f[k] = {"kind", "name", "closed"}
    \/ f[k].kind = "pair" /\ DOMAIN f[k] = {"kind", "key", "val"}

VARIABLES
  file,     \* what is on disk: its lines, or "missing" or "unreadable" alone
  isConfig, \* ParseConfig or ParseCredentials
  at,       \* lines consumed
  current,  \* the open section, NoSection before the first
  sections, \* the File: section -> key -> value
  loading   \* "open", "parse", then "loaded" or an error

iniVars == <<file, isConfig, at, current, sections, loading>>

NoSection == <<>>
EmptyFile == <<>>
Missing == <<[kind |-> "missing"]>>
Unreadable == <<[kind |-> "unreadable"]>>

LoadInit ==
  /\ file \in Files \cup {Missing, Unreadable}
  /\ isConfig \in BOOLEAN
  /\ at = 0
  /\ current = NoSection
  /\ sections = EmptyFile
  /\ loading = "open"

-----------------------------------------------------------------------------
\* os.Open: a file that does not exist is an empty File, and no error.
OpenFile ==
  /\ loading = "open"
  /\ loading' = CASE file = Missing -> "loaded"
                  [] file = Unreadable -> "unreadable"
                  [] OTHER -> "parse"
  /\ UNCHANGED <<file, isConfig, at, current, sections>>

\* In the config file the word profile in front of a name is dropped; alone it
\* is a name, and other words ("sso-session x") stay.
SectionName(words) ==
  IF isConfig /\ Len(words) > 1 /\ words[1] = ProfileWord THEN Tail(words) ELSE words

Line == file[at + 1]

\* The scanner has a line, and it is of this kind.
LineIs(kind) == loading = "parse" /\ at < Len(file) /\ Line.kind = kind

Skip ==
  /\ LineIs("blank")
  /\ at' = at + 1
  /\ UNCHANGED <<file, isConfig, current, sections, loading>>

\* A faulty header that starts its section anew.
OpenSectionAfresh(name) ==
  [s \in DOMAIN sections \cup {name} |-> IF s = name THEN EmptyFile ELSE sections[s]]

\* A section that comes twice goes on where it stopped.
OpenSection(name) ==
  [s \in DOMAIN sections \cup {name} |->
     IF s \in DOMAIN sections THEN sections[s] ELSE EmptyFile]

Header ==
  /\ LineIs("header") /\ Line.closed /\ SectionName(Line.name) # NoSection
  /\ current' = SectionName(Line.name)
  /\ sections' = OpenSection(current')
  /\ at' = at + 1
  /\ UNCHANGED <<file, isConfig, loading>>

\* The last value of a key counts.
Pair ==
  /\ LineIs("pair") /\ current # NoSection /\ Line.key # NoKey
  /\ LET old == sections[current]
         new == [k \in DOMAIN old \cup {Line.key} |-> IF k = Line.key THEN Line.val ELSE old[k]]
     IN sections' = [sections EXCEPT ![current] = new]
  /\ at' = at + 1
  /\ UNCHANGED <<file, isConfig, current, loading>>

\* One bad line, and the whole file is an error.
Malformed ==
  /\ \/ LineIs("header") /\ (~Line.closed \/ SectionName(Line.name) = NoSection)
     \/ LineIs("bare")
     \/ LineIs("pair") /\ (current = NoSection \/ Line.key = NoKey)
     \/ LineIs("toolong")   \* sc.Err after the scanner has given up
  /\ loading' = "malformed"
  /\ UNCHANGED <<file, isConfig, at, current, sections>>

Loaded ==
  /\ loading = "parse" /\ at = Len(file)
  /\ loading' = "loaded"
  /\ UNCHANGED <<file, isConfig, at, current, sections>>

LoadNext == OpenFile \/ Skip \/ Header \/ Pair \/ Malformed \/ Loaded

LoadSpec == LoadInit /\ [][LoadNext]_iniVars
-----------------------------------------------------------------------------
\* The variables of a load, at every step of it: no section and no key is without
\* a name, and a section maps its keys to values that lines already read give them.
LoadTypeOK ==
  /\ at \in 0..Len(file) /\ isConfig \in BOOLEAN
  /\ loading \in {"open", "parse", "loaded", "unreadable", "malformed"}
  /\ current = NoSection \/ current \in DOMAIN sections
  /\ \A s \in DOMAIN sections :
       /\ s # NoSection
       /\ \A key \in DOMAIN sections[s] :
            /\ key # NoKey
            /\ \E k \in 1..at : /\ file[k].kind = "pair" /\ file[k].key = key
                              /\ sections[s][key] = file[k].val

\* How the files are to be read.  Line k is in the section that the last header
\* before it names; in the config file `[profile x]` names x, and every other
\* header, as every one in the credentials file, names what it says.
Names(k) ==
  IF isConfig /\ Len(file[k].name) > 1 /\ file[k].name[1] = ProfileWord
    THEN Tail(file[k].name) ELSE file[k].name

Headers == {k \in 1..Len(file) : file[k].kind = "header"}

InSection(k, s) ==
  \E h \in Headers : /\ h < k /\ Names(h) = s
                     /\ \A j \in Headers : j <= h \/ j >= k

Settings(s) == {k \in 1..Len(file) : file[k].kind = "pair" /\ InSection(k, s)}

\* What a loaded file holds is what its lines say: every line is blank, a header
\* or a setting; the sections are those that headers name, however often; and
\* a key has the value its section gives it last, wherever in the file that
\* section goes on.
LoadedAsWritten ==
  loading = "loaded" /\ file # Missing =>
    /\ \A k \in 1..Len(file) :
         \/ file[k].kind = "blank"
         \/ file[k].kind = "header" /\ file[k].closed
         \/ \E s \in DOMAIN sections : k \in Settings(s)
    /\ DOMAIN sections = {Names(h) : h \in Headers}
    /\ \A s \in DOMAIN sections :
         /\ DOMAIN sections[s] = {file[k].key : k \in Settings(s)}
         /\ \A key \in DOMAIN sections[s] :
              LET k == Max({j \in Settings(s) : file[j].key = key})
              IN sections[s][key] = file[k].val
==============================================================================
