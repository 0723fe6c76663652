-------------------------------- MODULE CApi --------------------------------
(***************************************************************************)
(* The C interface (src/api/c.cpp), the engine objects behind it           *)
(* (src/runtime/engine.cpp) and the error channel all engines of a process *)
(* share (src/error/error.c).  A sheet is opaque here: the kernel of an    *)
(* engine either edits it and returns OK or refuses with an error code and *)
(* leaves it alone, which is what Spreadsheet promises.                    *)
(***************************************************************************)
EXTENDS Naturals, Sequences

CONSTANTS Engine,        \* the engine objects a process can create
          Null,          \* a null pointer
          Sheet, Empty,  \* the sheets an engine can hold, and a new one
          KernelError,   \* the codes the kernel refuses with
          Number         \* what nodes hold

ASSUME ApiConstants ==
    /\ Null \notin Engine
    /\ Empty \in Sheet
    /\ {"OK", "none"} \cap KernelError = {}
    /\ 0 \in Number

VARIABLES
    sheets,      \* the sheet of every live engine
    message,     \* sf_error_msg, the one message buffer
    buffer,      \* msg_buffer, which the pointers of sf_last_error point to
    returned,    \* what the last function returned, and to which call
    out          \* the variable the caller passes as out_value

vars == <<sheets, message, buffer, returned, out>>

Live == DOMAIN sheets

\* The functions that edit, and the strings they take.
Edits == [create_collection_node |-> {"name"},
          create_formula_node |-> {"name", "formula"},
          create_value_node |-> {"name"},
          remove_node |-> {"name"},
          set_node_value |-> {"name"},
          set_node_formula |-> {"name", "formula"},
          set_node_dependency |-> {"name", "dependencies"}]

\* A message, by the call it is about.
About(engine, code) == [engine |-> engine, code |-> code]
NoMessage == About(Null, "none")

Init ==
    /\ sheets = << >>
    /\ message = NoMessage
    /\ buffer = NoMessage
    /\ returned = [function |-> "none", engine |-> Null, code |-> "OK", value |-> 0]
    /\ out = 0

\* A function returns.  On an error, and only then, sf_set_error overwrites the
\* message, whoever it was about.
Return(function, engine, code, v) ==
    /\ returned' = [function |-> function, engine |-> engine, code |-> code, value |-> v]
    /\ message' = IF code = "OK" THEN message ELSE About(engine, code)
    /\ UNCHANGED buffer

\* The code validateEngine and validateStringArg find, before the engine is
\* called: the handle first, then the strings.
ArgumentCode(engine, nulls) ==
    CASE engine = Null -> "INVALID_ENGINE_HANDLE"
      [] engine # Null /\ nulls # {} -> "INTERNAL_INVALID_ENGINE_STATE"
      [] OTHER -> "OK"

CreateEngine(engine) ==
    /\ engine \notin Live
    /\ sheets' = [e \in Live \cup {engine} |-> IF e = engine THEN Empty ELSE sheets[e]]
    /\ Return("create_engine", engine, "OK", 0)
    /\ UNCHANGED out

DestroyEngine(engine) ==
    /\ sheets' = [e \in Live \ {engine} |-> sheets[e]]
    /\ Return("destroy_engine", engine, "OK", 0)
    /\ UNCHANGED out

\* Wrong variant: the kernel has edited the sheet when it refuses.
KernelEdits_EditsFirst(function, engine) ==
    \E sheet \in Sheet, code \in KernelError \cup {"OK"} :
        sheets' = [sheets EXCEPT ![engine] = sheet] /\ Return(function, engine, code, 0)

\* The kernel's answer to an edit (extractErrorCode hands its code on).
KernelEdits(function, engine) ==
    \/ \E sheet \in Sheet :
          sheets' = [sheets EXCEPT ![engine] = sheet] /\ Return(function, engine, "OK", 0)
    \/ \E code \in KernelError :
          UNCHANGED sheets /\ Return(function, engine, code, 0)

Edit(function, engine, nulls) ==
    /\ IF ArgumentCode(engine, nulls) = "OK" THEN KernelEdits(function, engine)
       ELSE UNCHANGED sheets /\ Return(function, engine, ArgumentCode(engine, nulls), 0)
    /\ UNCHANGED out

\* Wrong variant: the caller's variable is written before the code is looked at.
GetNodeValue_WritesAlways(engine, nulls) ==
    LET argumentCode == ArgumentCode(engine, nulls)
    IN  /\ UNCHANGED sheets
        /\ \/ /\ argumentCode # "OK"
              /\ UNCHANGED out
              /\ Return("get_node_value", engine, argumentCode, 0)
           \/ /\ argumentCode = "OK"
              /\ \E code \in {"OK", "NODE_NOT_FOUND"}, v \in Number :
                    out' = v /\ Return("get_node_value", engine, code, 0)

\* sf_get_node_value: out_value is a pointer like the strings, and is written
\* only when the kernel returns a value.
GetNodeValue(engine, nulls) ==
    LET argumentCode == ArgumentCode(engine, nulls)
    IN  /\ UNCHANGED sheets
        /\ \/ /\ argumentCode # "OK"
              /\ UNCHANGED out
              /\ Return("get_node_value", engine, argumentCode, 0)
           \/ /\ argumentCode = "OK"
              /\ \/ \E v \in Number : out' = v /\ Return("get_node_value", engine, "OK", 0)
                 \/ UNCHANGED out /\ Return("get_node_value", engine, "NODE_NOT_FOUND", 0)

\* sf_get_node_value2: the same with a variable of its own for the value.
GetNodeValue2(engine, nulls) ==
    LET argumentCode == ArgumentCode(engine, nulls)
    IN  /\ UNCHANGED <<sheets, out>>
        /\ \/ argumentCode # "OK" /\ Return("get_node_value2", engine, argumentCode, 0)
           \/ /\ argumentCode = "OK"
              /\ \/ \E v \in Number : Return("get_node_value2", engine, "OK", v)
                 \/ Return("get_node_value2", engine, "NODE_NOT_FOUND", 0)

\* sf_reset_engine and sf_evaluate_engine return nothing; a null handle still
\* leaves its message.
ResetEngine(engine) ==
    /\ sheets' = IF engine = Null THEN sheets ELSE [sheets EXCEPT ![engine] = Empty]
    /\ Return("reset_engine", engine, ArgumentCode(engine, {}), 0)
    /\ UNCHANGED out

EvaluateEngine(engine) ==
    /\ Return("evaluate_engine", engine, ArgumentCode(engine, {}), 0)
    /\ UNCHANGED <<sheets, out>>

\* Wrong variant: the message is not consumed.
LastError_Keeps ==
    /\ buffer' = message
    /\ returned' = [function |-> "last_error", engine |-> Null, code |-> "OK", value |-> 0]
    /\ UNCHANGED <<sheets, message, out>>

\* sf_last_error, and Engine::getLastError of every engine.
LastError ==
    /\ buffer' = message
    /\ message' = NoMessage
    /\ returned' = [function |-> "last_error", engine |-> Null, code |-> "OK", value |-> 0]
    /\ UNCHANGED <<sheets, out>>

Next ==
    \/ \E engine \in Live \cup {Null} :
          \/ \E function \in DOMAIN Edits : \E nulls \in SUBSET Edits[function] :
                Edit(function, engine, nulls)
          \/ \E nulls \in SUBSET {"name", "out_value"} : GetNodeValue(engine, nulls)
          \/ \E nulls \in SUBSET {"name"} : GetNodeValue2(engine, nulls)
          \/ DestroyEngine(engine)
          \/ ResetEngine(engine)
          \/ EvaluateEngine(engine)
    \/ \E engine \in Engine : CreateEngine(engine)
    \/ LastError

Spec == Init /\ [][Next]_vars

-----------------------------------------------------------------------------
\* A failure of one engine, whatever is done with the others afterwards, is told
\* by the next sf_last_error, or a later failure is, or it was told before:
\* success never hides an error, and no error is told twice.
\* (doc/design_document.md:45: "Call sf_last_error() to get additional
\* information on the last error.")
ErrorToldOnce ==
    [][/\ message # NoMessage => message' # NoMessage \/ buffer' = message
       /\ buffer' # buffer /\ buffer' # NoMessage => message' = NoMessage]_vars

\* A failed read hands out no number: the caller's variable keeps what it had,
\* and an SF_Value holds 0.0 (c.cpp:139).
FailedReadGivesNothing ==
    [][returned'.code # "OK" => out' = out /\ returned'.value = 0]_vars

\* A call that returns an error, for its arguments or for the kernel's reasons,
\* changes no sheet, and no call changes the sheet of another engine.
SheetsApart ==
    [][\A e \in Live \cap DOMAIN sheets' :
        sheets'[e] # sheets[e] => returned'.engine = e /\ returned'.code = "OK"]_vars

\* A call with a null string never reaches the engine, so it cannot succeed;
\* error.h:69 then says of the code it returns: "Causes the engine to enter an
\* invalid state. THIS CANNOT BE HEALED".  So no engine is used successfully
\* right after a call on it returned that code.
InvalidStateIsFinal ==
    [][returned.code = "INTERNAL_INVALID_ENGINE_STATE" /\ returned'.engine = returned.engine
        => returned'.code # "OK"]_returned

\* error.h:93: the pointer sf_last_error returns "is valid until a new error is
\* written".  So the text under it changes only when an error was written.
PointerValidUntilNewError ==
    [][buffer # NoMessage /\ message = NoMessage => buffer' = buffer]_vars
=============================================================================
