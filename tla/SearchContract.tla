--------------------------- MODULE SearchContract ---------------------------
(***************************************************************************)
(* What a caller of POST /api/v1/search is promised, without nodes,        *)
(* retries, budgets or timers.  The query is understood once; some rows of *)
(* the companies table are vetted, all at one moment, against the hard     *)
(* filters of what was understood; the answer is a bounded selection of    *)
(* the vetted rows, together with that same understanding.  Or the call    *)
(* fails and answers nothing.                                              *)
(***************************************************************************)
EXTENDS Integers, FiniteSets

CONSTANTS
  Understandings,  \* mandates a query can be read as
  Tables,          \* contents the companies table can have
  Admits(_, _),    \* Admits(m, row): row satisfies the hard filters of m
  MaxAnswer,       \* most companies in an answer
  Unknown          \* no understanding yet

VARIABLES status, understood, vetted, answer, table

contractVars == <<status, understood, vetted, answer, table>>

ContractInit ==
  /\ status = "open" /\ understood = Unknown
  /\ vetted = {} /\ answer = {} /\ table \in Tables

UnderstandQuery ==
  /\ status = "open" /\ understood = Unknown
  /\ understood' \in Understandings
  /\ UNCHANGED <<status, vetted, answer, table>>

\* All vetted rows are rows of one and the same table.
Vet ==
  /\ status = "open" /\ understood # Unknown /\ vetted = {}
  /\ \E ids \in SUBSET DOMAIN table :
        /\ \A c \in ids : Admits(understood, table[c])
        /\ vetted' = {[id |-> c, company |-> table[c]] : c \in ids}
  /\ UNCHANGED <<status, understood, answer, table>>

Answer ==
  /\ status = "open" /\ understood # Unknown
  /\ answer' \in SUBSET vetted /\ Cardinality(answer') <= MaxAnswer
  /\ status' = "answered"
  /\ UNCHANGED <<understood, vetted, table>>

Fail ==
  /\ status = "open"
  /\ status' = "failed"
  /\ UNCHANGED <<understood, vetted, answer, table>>

ReplaceTable ==
  /\ status = "open"
  /\ table' \in Tables
  /\ UNCHANGED <<status, understood, vetted, answer>>

ContractNext == UnderstandQuery \/ Vet \/ Answer \/ Fail \/ ReplaceTable

ContractSpec == ContractInit /\ [][ContractNext]_contractVars
=============================================================================
