--------------------------- MODULE DependencyText ---------------------------
(***************************************************************************)
(* parseDependencies (src/runtime/engine.cpp): the comma- or               *)
(* space-separated text callers pass becomes the vector of names that      *)
(* StatKernel::setNodeDependencies checks.  One step is one character.     *)
(* A character is one of a name or a separator; which separator it is,     *)
(* and which of a name, makes no difference to the loop.                   *)
(***************************************************************************)
EXTENDS Naturals, SequencesExt

CONSTANTS NameCharacter, \* characters of names
          Separator,     \* ',' and what std::isspace accepts
          MaxLength      \* the longest text explored (a bound)

ASSUME TextConstants == NameCharacter \cap Separator = {} /\ MaxLength \in Nat

VARIABLES
    dependencies, \* the argument
    next,         \* how many characters the loop has seen
    current,      \* the name being read
    parsed,       \* the names read so far
    done          \* the function has returned parsed

textVars == <<dependencies, next, current, parsed, done>>

Texts == UNION {[1 .. n -> NameCharacter \cup Separator] : n \in 0 .. MaxLength}

TextInit ==
    /\ dependencies \in Texts
    /\ next = 0
    /\ current = << >>
    /\ parsed = << >>
    /\ done = FALSE

\* flushCurrent.
FlushCurrent ==
    /\ parsed' = IF current = << >> THEN parsed ELSE Append(parsed, current)
    /\ current' = << >>

ReadSeparator ==
    /\ next < Len(dependencies)
    /\ dependencies[next + 1] \in Separator
    /\ FlushCurrent
    /\ next' = next + 1
    /\ UNCHANGED <<dependencies, done>>

ReadCharacter ==
    /\ next < Len(dependencies)
    /\ dependencies[next + 1] \notin Separator
    /\ current' = Append(current, dependencies[next + 1])
    /\ next' = next + 1
    /\ UNCHANGED <<dependencies, parsed, done>>

\* Wrong variant: the name the text ends in is forgotten.
Finish_NoFlush ==
    /\ next = Len(dependencies) /\ ~done
    /\ done' = TRUE
    /\ UNCHANGED <<dependencies, next, current, parsed>>

\* The flush after the loop, and the return.
Finish ==
    /\ next = Len(dependencies) /\ ~done
    /\ FlushCurrent
    /\ done' = TRUE
    /\ UNCHANGED <<dependencies, next>>

TextNext == ReadSeparator \/ ReadCharacter \/ Finish

TextSpec == TextInit /\ [][TextNext]_textVars

-----------------------------------------------------------------------------
\* The longest stretches of characters of names in the text, as intervals.
Names ==
    LET inName(i) == i \in DOMAIN dependencies /\ dependencies[i] \notin Separator
    IN  {w \in (DOMAIN dependencies) \X (DOMAIN dependencies) :
            /\ w[1] <= w[2]
            /\ \A i \in w[1] .. w[2] : inName(i)
            /\ ~inName(w[1] - 1) /\ ~inName(w[2] + 1)}

\* The returned vector holds exactly these stretches, in the
\* order of the text: no empty name, no name lost at either end or split, and
\* a name given twice is there twice, for the kernel to refuse.
ParsesNames ==
    done => parsed = [k \in 1 .. Cardinality(Names) |->
                        LET name == CHOOSE w \in Names :
                                      Cardinality({u \in Names : u[1] < w[1]}) = k - 1
                        IN  SubSeq(dependencies, name[1], name[2])]
=============================================================================
