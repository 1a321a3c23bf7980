----------------------------- MODULE RequestBody -----------------------------
(***************************************************************************)
(* buildRequestBody: what is refused, and what is left of an input in the  *)
(* JSON that is sent.  A block is the set of its pointer fields that are   *)
(* not nil and whether it has a text; a tool is the kind of its schema.    *)
(* An input is a record [model, messages, schemas, choice, raw]: the text  *)
(* of the model's ID, the blocks of each message, the tools, the           *)
(* ToolChoice (or NoChoice) and the JSON that the caller has brought along.*)
(***************************************************************************)
EXTENDS Naturals, Sequences, FiniteSets, SequencesExt

\* In the order of the switch in Block.MarshalJSON.
PointerFields == <<"image", "toolUse", "toolResult", "reasoning", "cachePoint">>

Block == [fields : SUBSET ToSet(PointerFields), text : BOOLEAN]

ToolChoice == [type : {"auto", "any", "tool", "unknown"}, named : BOOLEAN]
NoChoice == [type |-> "nil", named |-> FALSE]

Schema == {"missing", "invalid", "object", "other"}

Input == [model : Seq(STRING), messages : Seq(Seq(Block)), schemas : Seq(Schema),
          choice : ToolChoice \cup {NoChoice}, raw : {"none", "valid", "invalid"}]

RefusedBody == [error |-> TRUE]

\* A faulty count that was not told of cache points.
CountForgetful(b) == Cardinality(b.fields \ {"cachePoint"})

\* The pointer fields that are set, as MarshalJSON counts them.
Count(b) == Cardinality(b.fields)

\* The member of the union that a block becomes, and whether its text goes with it:
\* beside a pointer field it does not.
Member(b) ==
  IF b.fields = {} THEN [member |-> "text", text |-> b.text]
  ELSE [member |-> PointerFields[SelectInSeq(PointerFields, LAMBDA f : f \in b.fields)],
        text |-> FALSE]

\* ToolChoice.MarshalJSON has a form for it.
ChoiceMarshals(tc) ==
  tc = NoChoice \/ tc.type \in {"auto", "any"} \/ (tc.type = "tool" /\ tc.named)

\* A faulty rule that replaces what is missing or broken only.
NormalizeBroken(s) == IF s \in {"missing", "invalid"} THEN "empty" ELSE s

\* normalizeToolSchema: the schema of an empty object for whatever is no object.
Normalize(s) == IF s = "object" THEN s ELSE "empty"

\* json.Marshal also checks the values that are RawMessages: in.raw is "none",
\* "valid" or "invalid".
Marshals(in) ==
  /\ \A m \in ToSet(in.messages) : \A b \in ToSet(m) : Count(b) <= 1
  /\ ChoiceMarshals(in.choice)
  /\ in.raw # "invalid"

\* toolConfig is sent if there are tools or there is a choice.
ToolConfig(in) ==
  [present |-> in.schemas # <<>> \/ in.choice # NoChoice,
   schemas |-> [k \in 1..Len(in.schemas) |-> Normalize(in.schemas[k])],
   choice |-> in.choice]

\* buildRequestBody, RefusedBody for any of its errors.
Build(in) ==
  IF in.model = <<>> \/ in.messages = <<>> \/ ~Marshals(in) THEN RefusedBody
  ELSE [error |-> FALSE,
        messages |-> [k \in 1..Len(in.messages) |->
                        [j \in 1..Len(in.messages[k]) |-> Member(in.messages[k][j])]],
        tools |-> ToolConfig(in), raw |-> in.raw]
==============================================================================
