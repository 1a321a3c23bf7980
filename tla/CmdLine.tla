------------------------------- MODULE CmdLine -------------------------------
(***************************************************************************)
(* splitCmdline, character by character, and the command that              *)
(* runCredentialProcess makes of its words.  A character is a double quote,*)
(* a blank (space or tab) or anything else; words hold the offsets of the  *)
(* characters that went into them.  The value comes from a file, so it is  *)
(* not empty and has no blanks around it.                                  *)
(***************************************************************************)
EXTENDS Naturals, Sequences, FiniteSets, SequencesExt

CONSTANT MaxChars   \* bound: length of a command line

ASSUME CmdLineAssumption == MaxChars \in Nat

VARIABLES
  cmdline,   \* the value of credential_process
  scanned,   \* characters scanned
  inQuote,   \* between two quotes
  word,      \* the word being built
  args,      \* the words that are complete
  process    \* "split", then "runs" or "panics"

cmdVars == <<cmdline, scanned, inQuote, word, args, process>>

CmdLines ==
  {s \in BoundedSeq({"quote", "blank", "other"}, MaxChars) :
     s # <<>> /\ s[1] # "blank" /\ s[Len(s)] # "blank"}

SplitInit ==
  /\ cmdline \in CmdLines
  /\ scanned = 0
  /\ inQuote = FALSE
  /\ word = <<>>
  /\ args = <<>>
  /\ process = "split"

-----------------------------------------------------------------------------
Char == cmdline[scanned + 1]

Scan == process = "split" /\ scanned < Len(cmdline) /\ scanned' = scanned + 1

\* A faulty splitter that knows no quotes.
SeparatesAlways == Char = "blank"

\* A blank outside quotes ends a word.
Separates == Char = "blank" /\ ~inQuote

\* Nothing is appended for an empty word, `""` included.
Complete(words) == IF word = <<>> THEN words ELSE Append(words, word)

Quote ==
  /\ Scan /\ Char = "quote"
  /\ inQuote' = ~inQuote
  /\ UNCHANGED <<cmdline, word, args, process>>

Separator ==
  /\ Scan /\ Char # "quote" /\ Separates
  /\ args' = Complete(args)
  /\ word' = <<>>
  /\ UNCHANGED <<cmdline, inQuote, process>>

Letter ==
  /\ Scan /\ Char # "quote" /\ ~Separates
  /\ word' = Append(word, scanned + 1)
  /\ UNCHANGED <<cmdline, inQuote, args, process>>

\* The end of the line, quoted or not, ends the last word; the first word is the
\* program.  args[0] of no words panics.
Run ==
  /\ process = "split" /\ scanned = Len(cmdline)
  /\ args' = Complete(args)
  /\ word' = <<>>
  /\ process' = IF args' = <<>> THEN "panics" ELSE "runs"
  /\ UNCHANGED <<cmdline, scanned, inQuote>>

SplitNext == Quote \/ Separator \/ Letter \/ Run

SplitSpec == SplitInit /\ [][SplitNext]_cmdVars
-----------------------------------------------------------------------------
SplitTypeOK ==
  /\ cmdline \in CmdLines /\ scanned \in 0..Len(cmdline) /\ inQuote \in BOOLEAN
  /\ word \in Seq(1..scanned) /\ args \in Seq(Seq(1..scanned) \ {<<>>})
  /\ process \in {"split", "runs", "panics"}

\* An odd number of quotes stands before character k.
Quoted(k) == Cardinality({j \in 1..(k - 1) : cmdline[j] = "quote"}) % 2 = 1

Kept == {k \in 1..Len(cmdline) : cmdline[k] = "other" \/ (cmdline[k] = "blank" /\ Quoted(k))}

\* The words are the command line: every character that is no quote and no
\* blank outside quotes is in them, once and in order, and two such characters
\* are in one word unless a blank outside quotes stands between them.
WordsAsQuoted ==
  process # "split" =>
    /\ LET chars == FlattenSeq(args)
       IN ToSet(chars) = Kept /\ \A j, k \in 1..Len(chars) : j < k => chars[j] < chars[k]
    /\ \A x, y \in 1..Len(args) : \A k \in ToSet(args[x]), l \in ToSet(args[y]) :
         k < l => (x = y <=> \A m \in k..l : cmdline[m] = "blank" => Quoted(m))

\* The README says of credential_process that it "executes a command": a value
\* that is set is run.
CommandRuns == process # "panics"
==============================================================================
