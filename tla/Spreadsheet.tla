---------------------------- MODULE Spreadsheet -----------------------------
(***************************************************************************)
(* What the kernel promises its callers, without caches, dirty flags,      *)
(* leaf lists or walks: a sheet of cells, each with the cells it reads,    *)
(* edited one call at a time, every edit keeping the sheet sound and every *)
(* read answering what the cell means in the sheet as it is now.  StatKernel*)
(* is shown to implement this module.                                      *)
(***************************************************************************)
EXTENDS Functions, FiniteSets

CONSTANTS NodeId, NodeValue, Zero, Formula, Refs, Operation, Apply(_, _),
          NoFormula, NoNode, SameValue(_, _)

VARIABLES
    sheet,     \* the cells, by name
    asked,     \* the cell a read that has not answered yet asks for, or NoNode
    reply      \* what the last call answered, or Running while one runs

vars == <<sheet, asked, reply>>

\* The three kinds of cell.
ValueCell(v) == [type |-> "Value", formula |-> NoFormula, inputs |-> {}, number |-> v]
FormulaCell(f) == [type |-> "Formula", formula |-> f, inputs |-> Range(Refs[f]), number |-> Zero]
CollectionCell(op, S) == [type |-> "Collection", formula |-> op, inputs |-> S, number |-> Zero]

\* A sheet is sound when its cells read cells of the sheet and can be computed
\* one after the other, inputs first.
Sound(s) ==
    /\ \A n \in DOMAIN s : s[n].inputs \subseteq DOMAIN s
    /\ \E rank \in [DOMAIN s -> 1 .. Cardinality(DOMAIN s)] :
          \A n \in DOMAIN s : \A m \in s[n].inputs : rank[m] < rank[n]

\* The cell n means v: some cells that read only each other, n among them, can
\* be given numbers that fit all their formulas, and n's is v.  In a sound
\* sheet there is at most one such v.
Means(s, n, v) ==
    \E S \in SUBSET DOMAIN s :
        /\ n \in S
        /\ \A m \in S : s[m].inputs \subseteq S
        /\ \E number \in [S -> NodeValue] :
              /\ number[n] = v
              /\ \A m \in S : number[m] =
                    IF s[m].type = "Value" THEN s[m].number
                    ELSE Apply(s[m].formula, Restrict(number, s[m].inputs))

Init == sheet = << >> /\ asked = NoNode /\ reply = [code |-> "OK", value |-> Zero]

\* The outcome of an edit: the sheet it leaves is sound.
Edited(s) ==
    /\ asked = NoNode
    /\ sheet' = s
    /\ Sound(s)
    /\ reply' = [code |-> "OK", value |-> Zero]
    /\ UNCHANGED asked

With(s, n, cell) == [m \in DOMAIN s \cup {n} |-> IF m = n THEN cell ELSE s[m]]

Create(n, cell) == n \notin DOMAIN sheet /\ Edited(With(sheet, n, cell))

\* A cell that a formula reads stays.  A collection lets go of a removed cell.
Remove(n) ==
    /\ n \in DOMAIN sheet
    /\ \A m \in DOMAIN sheet : n \in sheet[m].inputs => sheet[m].type = "Collection"
    /\ Edited([m \in DOMAIN sheet \ {n} |-> [sheet[m] EXCEPT !.inputs = @ \ {n}]])

\* A number is kept when the new one compares equal to it.
SetNumber(n, v) ==
    /\ n \in DOMAIN sheet
    /\ sheet[n].type = "Value"
    /\ Edited(IF SameValue(sheet[n].number, v) THEN sheet
              ELSE With(sheet, n, ValueCell(v)))

SetFormula(n, f) ==
    /\ n \in DOMAIN sheet
    /\ sheet[n].type = "Formula"
    /\ Edited(With(sheet, n, FormulaCell(f)))

SetInputs(n, S) ==
    /\ n \in DOMAIN sheet
    /\ sheet[n].type = "Collection"
    /\ Edited(With(sheet, n, [sheet[n] EXCEPT !.inputs = S]))

Clear == Edited(<< >>)

\* A call that is refused.
Refuse ==
    /\ asked = NoNode
    /\ reply'.code # "OK"
    /\ UNCHANGED <<sheet, asked>>

Running == [code |-> "running", value |-> Zero]

\* A read that answers at once, or asks now and answers later.
Answer(n) ==
    /\ n \in DOMAIN sheet
    /\ reply'.code = "OK"
    /\ Means(sheet, n, reply'.value)
    /\ asked' = NoNode
    /\ UNCHANGED sheet

Read(n) == asked = NoNode /\ Answer(n)

Ask(n) == asked = NoNode /\ asked' = n /\ reply' = Running /\ UNCHANGED sheet

AnswerAsked == asked # NoNode /\ Answer(asked)

\* A call that recomputes some cells, which nobody can see, and returns.
BeginRecompute ==
    /\ asked = NoNode
    /\ reply' = Running
    /\ UNCHANGED <<sheet, asked>>

EndRecompute ==
    /\ asked = NoNode
    /\ reply = Running
    /\ reply' = [code |-> "OK", value |-> Zero]
    /\ UNCHANGED <<sheet, asked>>

Next ==
    \/ \E n \in NodeId :
          \/ \E v \in NodeValue : Create(n, ValueCell(v)) \/ SetNumber(n, v)
          \/ \E f \in Formula : Create(n, FormulaCell(f)) \/ SetFormula(n, f)
          \/ \E op \in Operation, S \in SUBSET NodeId : Create(n, CollectionCell(op, S))
          \/ \E S \in SUBSET NodeId : SetInputs(n, S)
          \/ Remove(n) \/ Read(n) \/ Ask(n)
    \/ Clear \/ Refuse \/ AnswerAsked \/ BeginRecompute \/ EndRecompute

Spec == Init /\ [][Next]_vars
=============================================================================
