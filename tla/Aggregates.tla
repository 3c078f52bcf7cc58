----------------------------- MODULE Aggregates -----------------------------
(***************************************************************************)
(* The aggregate and window functions that the extension registers in      *)
(* SQLite (duckdb_arg_max, duckdb_quantile_cont, ...), as SQLite calls     *)
(* them: Step for every row, Inverse for a row that leaves the frame of a  *)
(* window function, Value for the result of a frame and Final once, also   *)
(* after an error, of the callback or of another part of the query.  Any   *)
(* allocation may fail.                                                    *)
(*                                                                         *)
(* Numbers are integers and the results of divisions fractions.  An object *)
(* of the heap (a state, a copy of a value) is a number.                   *)
(***************************************************************************)
EXTENDS Integers, Sequences, SequencesExt, FiniteSets, Bitwise

CONSTANTS
    Null,
    Kinds,       \* the functions
    Values,      \* values of the first argument, without Null
    Keys,        \* values of the second argument, without Null
    Orders,      \* orders of duckdb_string_agg: [descending, nulls_first]
    Quantiles,   \* quantiles <<integral, scaling>>, from 0 to 1
    MaxRows      \* bound on the rows of a group

VARIABLES
    kind,
    param,     \* the order, or the quantile
    rows,      \* the rows that were stepped, <<value, key>>
    first,     \* rows before it have left the frame
    st,        \* the aggregate context, Null until a callback has asked for it
    heap,      \* live objects
    fresh,     \* the next object
    misused,   \* an object was freed twice, or used after it was freed
    phase,
    result

vars == <<kind, param, rows, first, st, heap, fresh, misused, phase, result>>

Window == {"avg", "frame_sum", "frame_avg"}
Variance == {"var_samp", "var_pop"}
Bits == {"bit_and", "bit_or", "bit_xor"}
Args == {"arg_min", "arg_max"}
Quantile == {"quantile_cont", "quantile_disc"}
Binary == Args \cup {"string_agg"}

Fraction(n, d) == [num |-> n, den |-> d]
Equal(a, b) == IF "num" \in DOMAIN a /\ "num" \in DOMAIN b
               THEN a.num * b.den = b.num * a.den ELSE a = b
Plus(a, b) == Fraction(a.num * b.den + b.num * a.den, a.den * b.den)
Minus(a, b) == Fraction(a.num * b.den - b.num * a.den, a.den * b.den)
Times(a, b) == Fraction(a.num * b.num, a.den * b.den)

NoResult == [null |-> TRUE]
Number(v) == IF v = Null THEN NoResult ELSE Fraction(v, 1)

Total(s) == FoldSeq(LAMBDA x, y : x + y, 0, s)

-----------------------------------------------------------------------------
(* What the functions are to compute.                                      *)

\* The values of the frame that are not ignored
Frame == SelectSeq(SubSeq(rows, first, Len(rows)), LAMBDA r : r[1] # Null)
Column(s, i) == [j \in 1..Len(s) |-> s[j][i]]
FrameValues == Column(Frame, 1)

\* Rows with a value and a key
Paired == SelectSeq(rows, LAMBDA r : r[1] # Null /\ r[2] # Null)

\* The i-th smallest value
Nth(s, i) ==
    LET below(x) == Cardinality({j \in DOMAIN s : s[j] < x})
        upto(x) == Cardinality({j \in DOMAIN s : s[j] <= x})
    IN  CHOOSE x \in Range(s) : below(x) < i /\ i <= upto(x)

\* The rows of string_agg come in the order of the keys, and of the input for equal keys.
KeyBefore(j, k) ==
    \/ j = k
    \/ (j = Null) # (k = Null) /\ (j = Null) = param.nulls_first
    \/ j # Null /\ k # Null /\ (IF param.descending THEN j > k ELSE j < k)

IsOrderOf(p, s) ==
    \A i, j \in DOMAIN s : i < j =>
        KeyBefore(s[p[i]][2], s[p[j]][2]) /\ (s[p[i]][2] = s[p[j]][2] => p[i] < p[j])

Ordered(s) ==
    LET p == CHOOSE p \in [DOMAIN s -> DOMAIN s] : IsInjective(p) /\ IsOrderOf(p, s)
    IN  [i \in DOMAIN s |-> s[p[i]][1]]

Best(s) ==
    CHOOSE i \in DOMAIN s :
        /\ \A j \in DOMAIN s : IF kind = "arg_max" THEN s[j][2] <= s[i][2] ELSE s[j][2] >= s[i][2]
        /\ \A j \in 1..(i - 1) : s[j][2] # s[i][2]

CeilDiv(a, b) == (a + b - 1) \div b

Interpolated(s) ==
    LET p == (Len(s) - 1) * param[1]
        lo == Nth(s, p \div param[2] + 1)
        hi == Nth(s, CeilDiv(p, param[2]) + 1)
    IN  Fraction(lo * param[2] + (hi - lo) * (p % param[2]), param[2])

SumOfSquares(s) ==   \* n times the sum of the squared differences from the mean
    Len(s) * Total([i \in DOMAIN s |-> s[i] * s[i]]) - Total(s) * Total(s)

BitsOf(s) ==
    FoldSeq(LAMBDA x, y : CASE kind = "bit_and" -> x & y [] kind = "bit_or" -> x | y
                            [] OTHER -> x ^^ y, s[1], Tail(s))

Reference ==
    LET s == FrameValues
        n == Len(s)
    IN  CASE kind = "scalar_subquery" -> IF rows = <<>> THEN NoResult ELSE Number(rows[1][1])
          [] kind \in Args -> IF Paired = <<>> THEN NoResult ELSE Number(Paired[Best(Paired)][1])
          [] n = 0 \/ (kind = "var_samp" /\ n = 1) -> NoResult
          [] kind = "var_samp" -> Fraction(SumOfSquares(s), n * (n - 1))
          [] kind = "var_pop" -> Fraction(SumOfSquares(s), n * n)
          [] kind = "product" -> Number(FoldSeq(LAMBDA x, y : x * y, 1, s))
          [] kind \in Bits -> Number(BitsOf(s))
          [] kind \in {"avg", "frame_avg"} -> Fraction(Total(s), n)
          [] kind = "frame_sum" -> Number(Total(s))
          [] kind = "quantile_disc" ->
                Number(Nth(s, IF param[1] = 0 THEN 1 ELSE CeilDiv(n * param[1], param[2])))
          [] kind = "quantile_cont" -> Interpolated(s)
          [] OTHER -> [text |-> Ordered(Frame)]

-----------------------------------------------------------------------------
Init ==
    /\ kind \in Kinds
    /\ param \in CASE kind = "string_agg" -> Orders [] kind \in Quantile -> Quantiles
                   [] OTHER -> {Null}
    /\ rows = <<>>
    /\ first = 1
    /\ st = Null
    /\ heap = {}
    /\ fresh = 1
    /\ misused = FALSE
    /\ phase = "step"
    /\ result = NoResult

\* A free of objs: each must be live, and be freed once.
Free(objs) ==
    /\ heap' = heap \ Range(objs)
    /\ misused' = (misused \/ ~IsInjective(objs) \/ ~(Range(objs) \subseteq heap))

Allocate(n) ==
    /\ heap' = heap \cup (fresh..(fresh + n - 1))
    /\ fresh' = fresh + n
    /\ UNCHANGED misused

NoAllocation == UNCHANGED <<heap, fresh, misused>>

\* The callback throws, or reports an error: SQLite ends the query.
Error(state) == phase' = "error" /\ st' = state
Continue(state) == phase' = "step" /\ st' = state

-----------------------------------------------------------------------------
(* The functions whose state is the aggregate context itself.  SQLite      *)
(* fills it with zeros.                                                    *)

Plain == Variance \cup Bits \cup {"product", "avg"}

ZeroState ==
    CASE kind \in Variance -> [count |-> 0, mean |-> Fraction(0, 1), dsquared |-> Fraction(0, 1)]
      [] kind = "avg" -> [count |-> 0, integer_sum |-> 0]
      [] OTHER -> [has_value |-> FALSE, value |-> 0]

State == IF st = Null THEN ZeroState ELSE st

\* SQLiteVarianceStep: the algorithm of Welford
VarianceStep(s, v) ==
    LET n == s.count + 1
        difference == Minus(Fraction(v, 1), s.mean)
        mean == Plus(s.mean, Times(difference, Fraction(1, n)))
    IN  [count |-> n, mean |-> mean,
         dsquared |-> Plus(s.dsquared, Times(Minus(Fraction(v, 1), mean), difference))]

FirstOr(s, v, combined) == [has_value |-> TRUE, value |-> IF s.has_value THEN combined ELSE v]

PlainStep(s, v) ==
    CASE kind \in Variance -> VarianceStep(s, v)
      [] kind = "avg" -> [count |-> s.count + 1, integer_sum |-> s.integer_sum + v]
      [] kind = "product" -> FirstOr(s, v, s.value * v)
      [] kind = "bit_and" -> FirstOr(s, v, s.value & v)
      [] kind = "bit_or" -> FirstOr(s, v, s.value | v)
      [] OTHER -> FirstOr(s, v, s.value ^^ v)

StepPlain(v, failure) ==
    /\ kind \in Plain
    /\ IF v = Null THEN Continue(st)
       ELSE IF failure = "context" THEN Error(Null) ELSE Continue(PlainStep(State, v))
    /\ NoAllocation

PlainResult ==
    CASE st = Null -> NoResult
      [] kind \in Variance ->
            IF st.count = 0 \/ (kind = "var_samp" /\ st.count <= 1) THEN NoResult
            ELSE IF kind = "var_samp" THEN Times(st.dsquared, Fraction(1, st.count - 1))
            ELSE IF st.count > 1 THEN Times(st.dsquared, Fraction(1, st.count)) ELSE Number(0)
      [] kind = "avg" -> IF st.count = 0 THEN NoResult ELSE Fraction(st.integer_sum, st.count)
      [] OTHER -> IF st.has_value THEN Number(st.value) ELSE NoResult

-----------------------------------------------------------------------------
(* SQLiteScalarSubqueryStep keeps a copy of the value of the only row.     *)

StepSubquery(v, failure) ==
    /\ kind = "scalar_subquery"
    /\ IF st # Null \/ failure \in {"context", "copy"} THEN Error(st) /\ NoAllocation
       ELSE Continue([obj |-> fresh, value |-> v]) /\ Allocate(1)

-----------------------------------------------------------------------------
(* The functions whose context points to a state on the heap (SQLiteGet-   *)
(* PointerState, SQLiteGetFrameState).  Creating it may fail twice.        *)

EmptyState(obj) ==
    CASE kind \in Args -> [obj |-> obj, arg |-> Null, val |-> Null, copies |-> <<>>]
      [] OTHER -> [obj |-> obj, values |-> <<>>, copies |-> <<>>]

Created == IF st = Null THEN EmptyState(fresh) ELSE st
New == IF st = Null THEN 1 ELSE 0

\* SQLiteFrameStep: a copy of a number is no object.
StepFrame(v, failure) ==
    /\ kind \in {"frame_sum", "frame_avg"}
    /\ IF v = Null THEN Continue(st) /\ NoAllocation
       ELSE IF failure \in {"context", "state"} /\ st = Null THEN Error(Null) /\ NoAllocation
       ELSE /\ IF failure = "append" THEN Error(Created)
               ELSE Continue([Created EXCEPT !.values = Append(@, v)])
            /\ Allocate(New)

\* SQLiteArgStep: a better row replaces the copies.  A failed copy leaves the state with what
\* has been copied.
Better(k) == IF kind = "arg_max" THEN k > st.val ELSE k < st.val

\* Faulty variant: the pointers to the freed copies are kept.
HalfCopiedDangling(v, copied) == Created

\* The state when not all copies were made
HalfCopied(v, copied) ==
    [Created EXCEPT !.arg = IF copied = 1 THEN v ELSE Null, !.val = Null,
                    !.copies = IF copied = 1 THEN <<fresh + New>> ELSE <<>>]

StepArg(v, k, failure) ==
    /\ kind \in Args
    /\ IF v = Null \/ k = Null THEN Continue(st) /\ NoAllocation
       ELSE IF failure \in {"context", "state"} /\ st = Null THEN Error(Null) /\ NoAllocation
       ELSE IF st # Null /\ st.val # Null /\ ~Better(k) THEN Continue(st) /\ NoAllocation
       ELSE LET next == fresh + New
                dropped == IF st = Null THEN {} ELSE Range(st.copies)
                copied == CASE failure = "copy" -> 0 [] failure = "second copy" -> 1 [] OTHER -> 2
            IN  /\ heap' = (heap \ dropped) \cup (fresh..(next + copied - 1))
                /\ misused' = (misused \/ ~(dropped \subseteq heap))
                /\ fresh' = next + copied
                /\ IF copied = 2
                   THEN Continue([Created EXCEPT !.arg = v, !.val = k, !.copies = <<next, next + 1>>])
                   ELSE Error(HalfCopied(v, copied))

\* SQLiteAppendValue: the copy is freed if it cannot be appended.
AppendValue(state, row, failure) ==
    CASE failure \in {"copy", "append"} -> Error(state) /\ Allocate(New)
      [] OTHER -> /\ Continue([state EXCEPT !.values = Append(@, row), !.copies = Append(@, fresh + New)])
                  /\ Allocate(New + 1)

\* SQLiteQuantileStep keeps a copy of the value, SQLiteOrderedStringAggStep the text and a
\* copy of the key.
StepAppend(v, k, failure) ==
    /\ kind \in Quantile \cup {"string_agg"}
    /\ IF v = Null THEN Continue(st) /\ NoAllocation
       ELSE IF failure \in {"context", "state"} /\ st = Null THEN Error(Null) /\ NoAllocation
       ELSE AppendValue(Created, <<v, k>>, failure)

\* SQLiteQuantileFinal: the index from n - floor(n - n * q), with integers
DiscreteIndex(n) ==
    LET floored == (n * param[2] - n * param[1]) \div param[2]
        k == n - floored
    IN  (IF k > 1 THEN k ELSE 1) - 1

QuantileResult ==
    LET values == SortSeq(Column(st.values, 1), LAMBDA x, y : x < y)
        n == Len(values)
        rn == (n - 1) * param[1]
        frn == rn \div param[2]
        crn == CeilDiv(rn, param[2])
        lo == values[frn + 1]
    IN  IF kind = "quantile_disc" THEN Number(values[DiscreteIndex(n) + 1])
        ELSE IF frn = crn THEN Fraction(lo, 1)
        ELSE Plus(Fraction(lo, 1),
                  Times(Minus(Fraction(rn, param[2]), Fraction(frn, 1)), Fraction(values[crn + 1] - lo, 1)))

\* The comparator of SQLiteOrderedStringAggFinal
RowLess(l, r) ==
    IF l[2] = Null \/ r[2] = Null
    THEN (l[2] = Null) # (r[2] = Null) /\ (IF l[2] = Null THEN param.nulls_first ELSE ~param.nulls_first)
    ELSE l[2] # r[2] /\ (IF param.descending THEN l[2] > r[2] ELSE l[2] < r[2])

\* std::stable_sort: a row goes behind the rows that are not greater.
Insert(s, r) ==
    LET i == Cardinality({j \in DOMAIN s : ~RowLess(r, s[j])})
    IN  SubSeq(s, 1, i) \o <<r>> \o SubSeq(s, i + 1, Len(s))

StringAggResult == [text |-> Column(FoldLeft(Insert, <<>>, st.values), 1)]

FrameResult ==
    IF kind = "frame_sum" THEN Number(Total(st.values)) ELSE Fraction(Total(st.values), Len(st.values))

-----------------------------------------------------------------------------
(* The calls of SQLite.                                                    *)

Failures == {"none", "context", "state", "copy", "second copy", "append"}

Step(v, k, failure) ==
    /\ phase = "step" /\ Len(rows) < MaxRows
    /\ rows' = Append(rows, <<v, k>>)
    /\ \/ StepPlain(v, failure)
       \/ StepSubquery(v, failure)
       \/ StepFrame(v, failure)
       \/ StepArg(v, k, failure)
       \/ StepAppend(v, k, failure)
    /\ UNCHANGED <<kind, param, first, result>>

\* Faulty variant: the newest value leaves the frame.
FrameInverseBack == [st EXCEPT !.values = Front(@)]

\* SQLiteFrameStep<true>: the values leave the frame in the order in which they entered it.
FrameInverse == [st EXCEPT !.values = Tail(@)]

AvgInverse(v) == [count |-> st.count - 1, integer_sum |-> st.integer_sum - v]

\* The first row of the frame leaves it (xInverse).
RowLeaves ==
    /\ phase = "step" /\ kind \in Window /\ first <= Len(rows)
    /\ first' = first + 1
    /\ st' = IF rows[first][1] = Null THEN st
             ELSE IF kind = "avg" THEN AvgInverse(rows[first][1]) ELSE FrameInverse
    /\ UNCHANGED <<kind, param, rows, heap, fresh, misused, phase, result>>

Result ==
    CASE kind \in Plain -> PlainResult
      [] st = Null -> NoResult
      [] kind = "scalar_subquery" -> Number(st.value)
      [] kind \in Args -> IF st.arg = Null THEN NoResult ELSE Number(st.arg)
      [] st.values = <<>> -> NoResult
      [] kind \in Quantile -> QuantileResult
      [] kind = "string_agg" -> StringAggResult
      [] OTHER -> FrameResult

\* The result of a frame
Value ==
    /\ phase = "step" /\ kind \in Window
    /\ result' = Result
    /\ phase' = "value"
    /\ UNCHANGED <<kind, param, rows, first, st, heap, fresh, misused>>

NextRow ==
    /\ phase = "value"
    /\ phase' = "step"
    /\ UNCHANGED <<kind, param, rows, first, st, heap, fresh, misused, result>>

\* The objects that Final frees: the state, and the copies it holds
Held == IF kind \in Plain \/ st = Null THEN <<>>
        ELSE IF kind = "scalar_subquery" THEN <<st.obj>> ELSE <<st.obj>> \o st.copies

\* The state is freed whether the result is used or not.
Final ==
    /\ phase \in {"step", "error"}
    /\ result' = IF phase = "step" THEN Result ELSE NoResult
    /\ Free(Held)
    /\ phase' = IF phase = "step" THEN "finished" ELSE "failed"
    /\ UNCHANGED <<kind, param, rows, first, st, fresh>>

\* The query ends early, by an error elsewhere or an interrupt: SQLite still calls Final.
Interrupt ==
    /\ phase = "step"
    /\ phase' = "error"
    /\ UNCHANGED <<kind, param, rows, first, st, heap, fresh, misused, result>>

Done == phase \in {"finished", "failed"} /\ UNCHANGED vars

Next ==
    \/ \E v \in Values \cup {Null}, failure \in Failures :
          \E k \in IF kind \in Binary THEN Keys \cup {Null} ELSE {Null} : Step(v, k, failure)
    \/ RowLeaves \/ Value \/ NextRow \/ Interrupt \/ Final \/ Done

Spec == Init /\ [][Next]_vars

-----------------------------------------------------------------------------
\* The types of the variables.  The count of an average never wraps below 0.
TypeOK ==
    /\ kind \in Kinds
    /\ first \in 1..(Len(rows) + 1)
    /\ heap \subseteq 1..(fresh - 1)
    /\ phase \in {"step", "value", "error", "finished", "failed"}
    /\ misused \in BOOLEAN
    /\ kind = "avg" /\ st # Null => st.count \in 0..Len(rows)   \* an unsigned number

(***************************************************************************)
(* The result of a group, and of every frame of a window, is the one of    *)
(* the DuckDB function: NULLs are ignored, ties go to the first row, the   *)
(* sums of a frame hold the rows of the frame and no others, and a scalar  *)
(* subquery with a second row has no result.  A count never gets below     *)
(* zero, whatever leaves the frame.                                        *)
(***************************************************************************)
ResultCorrect ==
    /\ TypeOK
    /\ phase \in {"finished", "value"} =>
        /\ Equal(result, Reference)
        /\ kind = "scalar_subquery" => Len(rows) <= 1

(***************************************************************************)
(* Whichever allocation fails, in whichever row, no object is freed twice, *)
(* or by no one: a state that is left half updated by an exception is one  *)
(* that Final can free, and when Final has returned nothing is left on the *)
(* heap.                                                                   *)
(***************************************************************************)
FreedExactlyOnce == ~misused /\ (phase \in {"finished", "failed"} => heap = {})

=============================================================================
