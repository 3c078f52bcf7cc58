---- MODULE LikeMatcher ----
(***************************************************************************)
(* A pushed down LIKE or ILIKE.  The writer turns a LIKE whose pattern is   *)
(* a constant into SQLite's GLOB; every other one becomes a call of         *)
(* duckdb_like or duckdb_ilike, whose matching loop is modelled one         *)
(* iteration per step.  Text is a sequence of bytes: "L" starts a           *)
(* character of two bytes, "C" continues it.  Indices are those of the      *)
(* code: the byte at index i is text[i + 1].                                *)
(***************************************************************************)
EXTENDS Integers, Sequences

CONSTANTS
    Strings,      \* the texts that are matched
    Patterns,     \* the patterns
    Escapes,      \* the escape strings, beside none at all and NULL
    Null,         \* SQL NULL
    NoArgument    \* the two-argument form

Bytes == {"a", "b", "A", "L", "C", "%", "_", "*", "?", "[", "]"}

\* Inputs are texts, and NULL is not a text.
ASSUME TextAssumption ==
    /\ Strings \subseteq Seq(Bytes) /\ Patterns \subseteq Seq(Bytes) /\ Escapes \subseteq Seq(Bytes)
    /\ Null \notin Seq(Bytes) /\ NoArgument \notin Seq(Bytes) /\ NoArgument # Null

VARIABLES
    call,          \* the expression: string, pattern, escape, is it ILIKE, is the pattern a constant
    pc,            \* "write", "call", "match", "tail" or "done"
    sdata, pdata,  \* the text and the pattern that are matched (lower case for ILIKE)
    escape,        \* the escape byte, or NoArgument
    sidx, pidx,
    has_percentage, retry_sidx, retry_pidx,
    result         \* "none", "true", "false", "null" or "error"

vars == <<call, pc, sdata, pdata, escape, sidx, pidx, has_percentage, retry_sidx, retry_pidx, result>>

slen == Len(sdata)
plen == Len(pdata)
pchar == pdata[pidx + 1]
schar == sdata[sidx + 1]

Calls == [str : Strings \union {Null}, pattern : Patterns \union {Null},
          escape : Escapes \union {Null, NoArgument}, insensitive : BOOLEAN, constant : BOOLEAN]

Init ==
    /\ call \in Calls
    /\ pc = "write"
    /\ sdata = <<>> /\ pdata = <<>> /\ escape = NoArgument
    /\ sidx = 0 /\ pidx = 0
    /\ has_percentage = FALSE /\ retry_sidx = 0 /\ retry_pidx = 0
    /\ result = "none"

Answer(r) == result' = r /\ pc' = "done"

-----------------------------------------------------------------------------
(* What LIKE means: a pattern element at a time, over characters.           *)

Continues(s, i) == i <= Len(s) /\ s[i] = "C"

\* The position after the character that starts at position i.
AfterCharacter(s, i) == IF Continues(s, i + 1) THEN i + 2 ELSE i + 1

\* Does s match p, "%" standing for any text, "_" for one character, and the
\* byte after the escape byte for itself.
Like(s, p, esc) ==
    LET m[i \in 1..(Len(s) + 2), j \in 1..(Len(p) + 2)] ==
          IF j > Len(p) THEN i > Len(s)
          ELSE IF p[j] = esc THEN i <= Len(s) /\ p[j + 1] = s[i] /\ m[i + 1, j + 2]
          ELSE IF p[j] = "%" THEN m[i, j + 1] \/ (i <= Len(s) /\ m[AfterCharacter(s, i), j])
          ELSE IF p[j] = "_" THEN i <= Len(s) /\ m[AfterCharacter(s, i), j + 1]
          ELSE i <= Len(s) /\ p[j] = s[i] /\ m[i + 1, j + 1]
    IN m[1, 1]

\* The pattern ends with an escape byte that escapes nothing.
Dangling(p, esc) ==
    LET d[j \in 1..(Len(p) + 2)] ==
          IF j > Len(p) THEN FALSE
          ELSE IF p[j] = esc THEN j = Len(p) \/ d[j + 2]
          ELSE d[j + 1]
    IN d[1]

-----------------------------------------------------------------------------
(* The writer: LIKE as GLOB.                                                 *)

\* The GLOB text of one literal byte.
GlobLiteral(c) == IF c \in {"*", "?", "["} THEN <<"[", c, "]">> ELSE <<c>>

\* The GLOB pattern of a LIKE pattern that has no dangling escape.
LikeToGlob(p, esc) ==
    LET g[j \in 1..(Len(p) + 1)] ==
          IF j > Len(p) THEN <<>>
          ELSE IF p[j] = esc THEN GlobLiteral(p[j + 1]) \o g[j + 2]
          ELSE IF p[j] = "%" THEN <<"*">> \o g[j + 1]
          ELSE IF p[j] = "_" THEN <<"?">> \o g[j + 1]
          ELSE GlobLiteral(p[j]) \o g[j + 1]
    IN g[1]

\* SQLite's GLOB: "*" any text, "?" one character, "[c]" the byte c.
Glob(s, p) ==
    LET m[i \in 1..(Len(s) + 2), j \in 1..(Len(p) + 2)] ==
          IF j > Len(p) THEN i > Len(s)
          ELSE IF p[j] = "*" THEN m[i, j + 1] \/ (i <= Len(s) /\ m[AfterCharacter(s, i), j])
          ELSE IF p[j] = "?" THEN i <= Len(s) /\ m[AfterCharacter(s, i), j + 1]
          ELSE IF p[j] = "[" THEN i <= Len(s) /\ p[j + 1] = s[i] /\ m[i + 1, j + 3]
          ELSE i <= Len(s) /\ p[j] = s[i] /\ m[i + 1, j + 1]
    IN m[1, 1]

\* has_escape and escape of a call, when the escape string is no longer than a byte.
EscapeByte(e) == IF e \in {NoArgument, Null, <<>>} THEN NoArgument ELSE e[1]

BecomesGlob ==
    /\ call.constant /\ ~call.insensitive
    /\ call.pattern # Null /\ call.escape # Null
    /\ call.escape # NoArgument => Len(call.escape) <= 1
    /\ ~Dangling(call.pattern, EscapeByte(call.escape))

\* WriteLike, and for a GLOB its evaluation in SQLite.
WriteLike ==
    /\ pc = "write"
    /\ IF BecomesGlob
       THEN Answer(IF call.str = Null THEN "null"
                   ELSE IF Glob(call.str, LikeToGlob(call.pattern, EscapeByte(call.escape)))
                        THEN "true" ELSE "false")
       ELSE pc' = "call" /\ UNCHANGED result
    /\ UNCHANGED <<call, sdata, pdata, escape, sidx, pidx, has_percentage, retry_sidx, retry_pidx>>

-----------------------------------------------------------------------------
(* duckdb_like and duckdb_ilike.                                             *)

LowerByte(c) == IF c = "A" THEN "a" ELSE c
LowerCase(s) == [i \in 1..Len(s) |-> LowerByte(s[i])]

\* duckdb_ilike matches lower case text against a lower case pattern.
Fold(s) == IF call.insensitive THEN LowerCase(s) ELSE s
EscapeOf == IF call.insensitive THEN LowerByte(EscapeByte(call.escape)) ELSE EscapeByte(call.escape)

LikeFunction ==
    /\ pc = "call"
    /\ \/ /\ Null \in {call.str, call.pattern, call.escape}
          /\ Answer("null")
          /\ UNCHANGED <<sdata, pdata, escape>>
       \/ /\ Null \notin {call.str, call.pattern, call.escape}
          /\ call.escape # NoArgument /\ Len(call.escape) > 1
          /\ Answer("error")
          /\ UNCHANGED <<sdata, pdata, escape>>
       \/ /\ Null \notin {call.str, call.pattern, call.escape}
          /\ call.escape # NoArgument => Len(call.escape) <= 1
          /\ sdata' = Fold(call.str) /\ pdata' = Fold(call.pattern) /\ escape' = EscapeOf
          /\ pc' = "match"
          /\ UNCHANGED result
    /\ UNCHANGED <<call, sidx, pidx, has_percentage, retry_sidx, retry_pidx>>

Inputs == <<call, sdata, pdata, escape>>
Retry == <<has_percentage, retry_sidx, retry_pidx>>

InPattern == pc = "match" /\ sidx < slen /\ pidx < plen

EscapeAtEnd ==
    /\ InPattern /\ pchar = escape /\ pidx + 1 = plen
    /\ Answer("error")
    /\ UNCHANGED <<Inputs, Retry, sidx, pidx>>

EscapedByte ==
    /\ InPattern /\ pchar = escape /\ pidx + 1 < plen
    /\ pdata[pidx + 2] = schar
    /\ pidx' = pidx + 2 /\ sidx' = sidx + 1
    /\ UNCHANGED <<Inputs, Retry, pc, result>>

\* Faulty variant: every character has two bytes.
SkipCharacterTwo(s, i) == i + 2

\* The first index after i that does not hold a continuation byte.
SkipCharacter(s, i) == CHOOSE k \in (i + 1)..Len(s) :
    /\ k = Len(s) \/ s[k + 1] # "C"
    /\ \A h \in (i + 1)..(k - 1) : s[h + 1] = "C"

Underscore ==
    /\ InPattern /\ pchar # escape /\ pchar = "_"
    /\ pidx' = pidx + 1 /\ sidx' = SkipCharacter(sdata, sidx)
    /\ UNCHANGED <<Inputs, Retry, pc, result>>

\* The first index at or after i that does not hold a "%".
SkipPercent(p, i) == CHOOSE k \in i..Len(p) :
    /\ k = Len(p) \/ p[k + 1] # "%"
    /\ \A h \in i..(k - 1) : p[h + 1] = "%"

Percent ==
    /\ InPattern /\ pchar # escape /\ pchar = "%"
    /\ pidx' = SkipPercent(pdata, pidx + 1)
    /\ IF pidx' = plen
       THEN Answer("true") /\ UNCHANGED Retry
       ELSE /\ has_percentage' = TRUE /\ retry_pidx' = pidx' /\ retry_sidx' = sidx
            /\ UNCHANGED <<pc, result>>
    /\ UNCHANGED <<Inputs, sidx>>

SameByte ==
    /\ InPattern /\ pchar \notin {escape, "_", "%"} /\ pchar = schar
    /\ pidx' = pidx + 1 /\ sidx' = sidx + 1
    /\ UNCHANGED <<Inputs, Retry, pc, result>>

\* Nothing in the pattern takes the byte at sidx.
Mismatch ==
    /\ pc = "match" /\ sidx < slen
    /\ pidx < plen =>
         IF pchar = escape THEN pidx + 1 < plen /\ pdata[pidx + 2] # schar
         ELSE pchar \notin {"_", "%"} /\ pchar # schar

\* Faulty variant: the loop resumes after the mismatch.
RetryAtMismatch == sidx + 1

\* Faulty variant: the retry position does not move.
RetryAtSame == retry_sidx

\* Where matching resumes after a "%".
RetryAt == retry_sidx + 1

Backtrack ==
    /\ Mismatch
    /\ IF ~has_percentage
       THEN Answer("false") /\ UNCHANGED <<sidx, pidx, retry_sidx>>
       ELSE /\ pidx' = retry_pidx /\ retry_sidx' = RetryAt /\ sidx' = RetryAt
            /\ UNCHANGED <<pc, result>>
    /\ UNCHANGED <<Inputs, has_percentage, retry_pidx>>

StringDone ==
    /\ pc = "match" /\ sidx >= slen
    /\ pc' = "tail"
    /\ UNCHANGED <<Inputs, Retry, sidx, pidx, result>>

RestEscapes == pidx < plen /\ pchar = escape

\* The loop over the rest of the pattern.
PatternRest ==
    /\ pc = "tail"
    /\ \/ /\ RestEscapes
          /\ Answer(IF pidx + 1 = plen THEN "error" ELSE "false")
          /\ UNCHANGED pidx
       \/ /\ pidx < plen /\ ~RestEscapes /\ pchar = "%"
          /\ pidx' = pidx + 1
          /\ UNCHANGED <<pc, result>>
       \/ /\ pidx < plen /\ ~RestEscapes /\ pchar # "%"
          /\ Answer("false")
          /\ UNCHANGED pidx
       \/ /\ pidx = plen
          /\ Answer(IF sidx = slen THEN "true" ELSE "false")
          /\ UNCHANGED pidx
    /\ UNCHANGED <<Inputs, Retry, sidx>>

LikeMatches ==
    EscapeAtEnd \/ EscapedByte \/ Underscore \/ Percent \/ SameByte \/ Backtrack \/ StringDone \/ PatternRest

Next == WriteLike \/ LikeFunction \/ LikeMatches

\* A call runs on the thread that evaluates the query, and nothing blocks it.
Spec == Init /\ [][Next]_vars /\ WF_vars(Next)

-----------------------------------------------------------------------------
(* Properties                                                                *)

\* The types of the variables; both indices and the retry positions stay
\* within the buffers SQLiteLikeMatches reads.
TypeOK ==
    /\ call \in Calls
    /\ pc \in {"write", "call", "match", "tail", "done"}
    /\ sdata \in Seq(Bytes) /\ pdata \in Seq(Bytes) /\ escape \in Bytes \union {NoArgument}
    /\ sidx \in 0..slen /\ pidx \in 0..plen
    /\ retry_sidx \in 0..slen /\ retry_pidx \in 0..plen
    /\ has_percentage \in BOOLEAN
    /\ result \in {"none", "true", "false", "null", "error"}

\* What DuckDB computes for the expression: NULL if an argument is NULL, an
\* error for an escape string of several bytes, otherwise LIKE.
Expected ==
    IF Null \in {call.str, call.pattern, call.escape} THEN "null"
    ELSE IF call.escape # NoArgument /\ Len(call.escape) > 1 THEN "error"
    ELSE IF Like(Fold(call.str), Fold(call.pattern), EscapeOf) THEN "true" ELSE "false"

WellFormed == call.pattern # Null => ~Dangling(Fold(call.pattern), EscapeOf)

\* Whichever way the writer takes, GLOB for a constant pattern or the matching
\* loop with its single retry position, the answer is the one LIKE defines.  A
\* pattern whose escape byte escapes nothing is an error where the loop reaches
\* that byte, or a mismatch found before, and never matches.
LikeCorrect == pc = "done" => IF WellFormed THEN result = Expected ELSE result # "true"

\* Every iteration moves on: the retry position grows, or it stays and the
\* pattern index grows, until the call is answered.  So a call takes at most
\* (slen + 1) * (plen + 1) iterations, whatever the pattern.
MovesOn ==
    \/ retry_sidx' > retry_sidx
    \/ retry_sidx' = retry_sidx /\ pidx' > pidx
    \/ pc' # pc

\* Every iteration of the matching loop moves on in that order.
Progress == [][MovesOn]_vars
====
