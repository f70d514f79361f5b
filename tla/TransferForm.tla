---------------------------- MODULE TransferForm ----------------------------
(***************************************************************************)
(* The explorer's submit form on one tab, together with the sign-in of     *)
(* ExplorerSession: the contract picked, the schema last fetched for a     *)
(* contract, the contract's own fields, and the submission, whose call is  *)
(* the session's.  A field is empty or filled; of the payload only where   *)
(* each field's value comes from is kept.  Amount and address are left out:*)
(* an invalid one ends the handler before it changes anything; so is the   *)
(* empty choice of the contract list.                                      *)
(***************************************************************************)
EXTENDS ExplorerSession

CONSTANTS
  Contracts,    \* the deployed contracts
  Preferred,    \* the one selected first
  NoContract,   \* nothing selected, no schema
  NeedsFrom,    \* contracts whose schema says needs_from
  SchemaFields, \* per contract with a schema, the names of its fields
  Required,     \* the names of required fields
  RawPayloads,  \* the payloads typed as JSON, each the set of its names
  Page          \* the tab the form is on

ASSUME FormNames == /\ Page \in Tabs /\ Preferred \in Contracts
                    /\ NoContract \notin Contracts
                    /\ DOMAIN SchemaFields \subseteq Contracts
                    /\ NeedsFrom \subseteq DOMAIN SchemaFields

VARIABLES
  selected,     \* selectedContract
  schema,       \* the contract whose schema contractSchema is
  values,       \* contractFields: field name |-> filled
  raw,          \* the names in rawPayloadJson
  submitting,   \* the id of the submission under way, or 0
  fetching,     \* the schema fetches not yet answered, in order
  overtaken,    \* answers since the selection came out of order, or one failed
  sent          \* the payloads handed in

formVars == <<selected, schema, values, raw, submitting, fetching,
              overtaken, sent>>

\* What the server answers for c: its schema, or null.
SchemaOf(c) == IF c \in DOMAIN SchemaFields THEN c ELSE NoContract

Common == {"amount", "to", "address"}
CustomFields(c) == IF c = NoContract THEN {} ELSE SchemaFields[c] \ Common
NeedsAccount(c) == c \in NeedsFrom

\* The inputs shown: the schema's own fields, or a memo for a contract that
\* needs an account and has none.
Fallback(c) == NeedsAccount(c) /\ CustomFields(c) = {}
Inputs(c) == IF Fallback(c) THEN {"memo"} ELSE CustomFields(c)

NoValues == [f \in {} |-> FALSE]
Blank ==
  /\ selected' = NoContract /\ schema' = NoContract
  /\ values' = NoValues /\ raw' = {}
  /\ submitting' = 0 /\ fetching' = <<>> /\ overtaken' = FALSE

\* A selection starts a fetch of that contract's schema.
Choose_FirstOnly(c) ==
  /\ selected' = c
  /\ fetching' = IF selected = NoContract THEN <<c>> ELSE fetching
  /\ UNCHANGED <<schema, values, raw, submitting, sent>>
Choose(c) ==
  /\ selected' = c
  /\ fetching' = Append(fetching, c)
  /\ UNCHANGED <<schema, values, raw, submitting, sent>>

ContractsArrive ==
  /\ selected = NoContract
  /\ Choose(Preferred)
  /\ UNCHANGED <<vars, overtaken>>

Select(c) ==
  /\ selected \notin {NoContract, c}
  /\ Edit
  /\ Choose(c)
  /\ overtaken' = FALSE

Rest(i) == SubSeq(fetching, 1, i - 1) \o SubSeq(fetching, i + 1, Len(fetching))

\* No schema fetch is ever cancelled: whichever answer comes sets the schema
\* and starts its fields afresh; the memo is added when it was not shown before.
SchemaArrives(i) ==
  /\ schema' = SchemaOf(fetching[i])
  /\ values' = IF Fallback(schema) /\ Fallback(schema')
                 THEN NoValues ELSE [f \in Inputs(schema') |-> FALSE]
  /\ raw' = {}
  /\ fetching' = Rest(i)
  /\ overtaken' = (overtaken \/ i # 1)
  /\ UNCHANGED <<vars, selected, submitting, sent>>

SchemaFails(i) ==
  /\ fetching' = Rest(i)
  /\ overtaken' = TRUE
  /\ UNCHANGED <<vars, selected, schema, values, raw, submitting, sent>>

Fill(f) ==
  /\ Edit
  /\ values' = [g \in DOMAIN values \cup {f} |-> g = f \/ values[g]]
  /\ UNCHANGED <<selected, schema, raw, submitting, fetching, overtaken, sent>>

\* The JSON editor, for a contract without fields of its own.
FillRaw(names) ==
  /\ selected # NoContract /\ Inputs(schema) = {}
  /\ Edit
  /\ raw' = names
  /\ UNCHANGED <<selected, schema, values, submitting, fetching,
                 overtaken, sent>>

Filled == {f \in DOMAIN values : values[f]}

\* fieldsArg: the contract's part, then amount and to, then from, each
\* replacing what came before it.
CustomPart == IF Inputs(schema) # {} THEN DOMAIN values ELSE raw \ Common
Source_CustomLast(f, signedIn) ==
  IF f \in CustomPart THEN "custom" ELSE IF f = "from" THEN "account" ELSE "common"
Source(f, signedIn) ==
  IF f = "from" /\ signedIn THEN "account"
  ELSE IF f \in {"amount", "to"} THEN "common" ELSE "custom"
FieldsArg(signedIn) ==
  [f \in CustomPart \cup {"amount", "to"} \cup (IF signedIn THEN {"from"} ELSE {})
     |-> Source(f, signedIn)]

HandleSubmit ==
  /\ selected # NoContract
  /\ submitting = 0
  /\ NeedsAccount(schema) => tab[Page].account # NoUser
  /\ Inputs(schema) \cap Required \subseteq Filled
  /\ Submit(Page)
  /\ submitting' = clicks'
  /\ sent' = sent \cup {[contract |-> selected, schema |-> schema,
                         settled |-> ~overtaken /\ fetching = <<>>,
                         signedIn |-> tab[Page].account # NoUser,
                         fields |-> FieldsArg(tab[Page].account # NoUser)]}
  /\ UNCHANGED <<selected, schema, values, raw, fetching, overtaken>>

\* The answer clears the contract's fields, an error nothing;
\* a form that is gone ignores it.
SubmitReturns(c) ==
  /\ c.op = "submit"
  /\ Receive(c)
  /\ IF c.by = Page /\ c.id = submitting
       THEN /\ submitting' = 0
            /\ IF c.at = "ok" THEN values' = NoValues /\ raw' = {}
                              ELSE UNCHANGED <<values, raw>>
       ELSE UNCHANGED <<submitting, values, raw>>
  /\ UNCHANGED <<selected, schema, fetching, overtaken, sent>>

FormInit ==
  /\ selected = NoContract /\ schema = NoContract
  /\ values = NoValues /\ raw = {}
  /\ submitting = 0 /\ fetching = <<>> /\ overtaken = FALSE
  /\ sent = {}

FormStep ==
  \/ ContractsArrive
  \/ \E c \in Contracts : Select(c)
  \/ \E i \in DOMAIN fetching : SchemaArrives(i) \/ SchemaFails(i)
  \/ \E f \in Inputs(schema) : Fill(f)
  \/ \E names \in RawPayloads : FillRaw(names)
  \/ HandleSubmit

(* --- Properties --------------------------------------------------------- *)

\* Amount, recipient and, when signed in, sender are never taken from the
\* contract's own fields or the JSON editor (customFieldsFromSchema, fieldsArg).
CommonFields ==
  \A p \in sent :
    /\ p.fields["amount"] = "common" /\ p.fields["to"] = "common"
    /\ p.signedIn => p.fields["from"] = "account"
    /\ "address" \notin DOMAIN p.fields

\* The schema a payload is made by is that of the contract it is handed to, and
\* its own fields are that schema's, unless schema answers overtook each other,
\* one failed, or one is still on its way.
OwnFields ==
  \A p \in sent : p.settled =>
    /\ p.schema = SchemaOf(p.contract)
    /\ Inputs(p.schema) # {} =>
         DOMAIN p.fields \ {"amount", "to", "from"} \subseteq Inputs(p.schema)
=============================================================================
