----------------------------- MODULE MCFunctions ----------------------------
(***************************************************************************)
(* The functions that SQLite calls while it executes a pushed down query.  *)
(* A behaviour is about one call: LIKE (LikeMatcher), a date function      *)
(* (DateFunctions), or an aggregate over a group or the frames of a window *)
(* (Aggregates, the instance Agg); the variables of the other components   *)
(* stay as they are initially.                                             *)
(***************************************************************************)
EXTENDS LikeMatcher, DateFunctions, SequencesExt

CONSTANTS Kinds, Values, Keys, Orders, Quantiles, MaxRows

VARIABLES
    about,   \* the function: "like", "date" or "aggregate"
    kind, param, rows, first, st, heap, fresh, misused, phase, aggregate   \* those of Aggregates

Agg == INSTANCE Aggregates WITH result <- aggregate

aggVars == <<kind, param, rows, first, st, heap, fresh, misused, phase, aggregate>>

-----------------------------------------------------------------------------
\* Texts of up to three characters, one of them of two bytes; patterns of up to four elements.
E == <<"L", "C">>
Texts(chars, n) == {FlattenSeq(t) : t \in UNION {[1..k -> chars] : k \in 0..n}}

MCStrings == Texts({<<"a">>, E}, 3) \union Texts({<<"a">>, <<"A">>, <<"*">>, <<"%">>}, 2)
MCPatterns == Texts({<<"a">>, E, <<"%">>, <<"_">>}, 3)
              \union Texts({<<"A">>, <<"%">>, <<"*">>, <<"a">>}, 2)
              \union {<<"%">> \o t : t \in Texts({<<"a">>, E, <<"%">>, <<"_">>}, 3)}
MCEscapes == {<<>>, <<"a">>, <<"%">>, E}

\* Groups of up to four rows with small numbers.
MCKinds == {"scalar_subquery", "var_samp", "var_pop", "product", "avg", "frame_sum", "frame_avg",
            "bit_and", "bit_or", "bit_xor", "arg_min", "arg_max", "quantile_cont", "quantile_disc",
            "string_agg"}
MCOrders == [descending : BOOLEAN, nulls_first : BOOLEAN]
MCQuantiles == {<<0, 1>>, <<5, 10>>, <<9, 10>>, <<1, 1>>}

\* Days on both sides of the boundaries of the calendar, each at three times.
Firsts == {FromDate(y, 1, 1) : y \in {5, 1000, 1970, 2000, 2025}}
          \union {FromDate(1969, 10, 1), FromDate(1900, 3, 1), FromDate(2000, 3, 1), FromDate(2024, 12, 30)}
MCDays == Firsts \union {d - 1 : d \in Firsts} \union {FromDate(1, 1, 1), FromDate(9999, 12, 31), FromDate(1969, 12, 24)}
MCTimestamps == {d * DAY + t : d \in MCDays, t \in {0, 2 * HOUR - 1, DAY - 1}}

-----------------------------------------------------------------------------
AnyCall == CHOOSE c \in Calls : TRUE

AnyInvocation == [function |-> "last_day", part |-> "month", start |-> 0, end |-> 0]

MCInit ==
    /\ about \in {"like", "date", "aggregate"}
    /\ IF about = "date" THEN DateInit ELSE invocation = AnyInvocation /\ answer = NoAnswer
    /\ about # "like" => call = AnyCall
    /\ Init
    /\ about # "aggregate" => kind = "avg"
    /\ Agg!Init

MCNext ==
    /\ UNCHANGED about
    /\ \/ about = "like" /\ Next /\ UNCHANGED <<dateVars, aggVars>>
       \/ about = "date" /\ DateNext /\ UNCHANGED <<vars, aggVars>>
       \/ about = "aggregate" /\ Agg!Next /\ UNCHANGED <<vars, dateVars>>

MCSpec == MCInit /\ [][MCNext]_<<about, vars, dateVars, aggVars>>

\* The properties of Aggregates: the results,
ResultCorrect == Agg!ResultCorrect
\* and every object is freed, once.
FreedExactlyOnce == Agg!FreedExactlyOnce
=============================================================================
