------------------------------- MODULE Formats -------------------------------
(***************************************************************************)
(* The parsers of the formats that others write: the headers of a frame,   *)
(* the shared config files and the command line of credential_process.     *)
(* They share nothing: a behaviour runs one of them, on any of its inputs, *)
(* and leaves the others at a small one.                                   *)
(***************************************************************************)
EXTENDS HeaderCodec, AwsIni, CmdLine

VARIABLE subject   \* the parser that runs

formatVars == <<subject, decodeVars, iniVars, cmdVars>>

FormatsInit ==
  /\ \/ subject = "headers" /\ file = Missing /\ isConfig = TRUE /\ cmdline = <<"other">>
     \/ subject = "file" /\ b = <<>> /\ written = NoHeaders /\ cmdline = <<"other">>
     \/ subject = "command" /\ b = <<>> /\ written = NoHeaders /\ file = Missing /\ isConfig = TRUE
  /\ DecodeInit /\ LoadInit /\ SplitInit

FormatsNext ==
  /\ UNCHANGED subject
  /\ \/ subject = "headers" /\ DecodeNext /\ UNCHANGED <<iniVars, cmdVars>>
     \/ subject = "file" /\ LoadNext /\ UNCHANGED <<decodeVars, cmdVars>>
     \/ subject = "command" /\ SplitNext /\ UNCHANGED <<decodeVars, iniVars>>

FormatsSpec == FormatsInit /\ [][FormatsNext]_formatVars
-----------------------------------------------------------------------------
\* Each parser's variables have their types.
TypesOK == DecodeTypeOK /\ LoadTypeOK /\ SplitTypeOK
==============================================================================
