---------------------------- MODULE MCTableReads ----------------------------
(***************************************************************************)
(* What a query over a table reads.  A behaviour is about the threads of a *)
(* scan (ParallelScan), about its filters (FilterPushdown), or about the   *)
(* values of a column (ColumnReads); the variables of the other components *)
(* stay as they are initially.                                             *)
(*                                                                         *)
(* The scans have a string column and a column of another type, with every *)
(* filter of up to two leaves on the first and one on the second.  The     *)
(* strings differ in each order: "10" and "9" as numbers, "B" and "b" in   *)
(* case, "hi" (U+FF21) and "top" (U+1F600) in UTF-16.  The values "1" and  *)
(* "2" are integers or dates; "1" is stored as an ISO string, "2" as a     *)
(* unix timestamp, which SQLite orders before every string.                *)
(***************************************************************************)
EXTENDS ParallelScan, FilterPushdown, ColumnReads, TLC

CONSTANTS t1, t2, None

VARIABLE about   \* "threads", "filters" or "values"

-----------------------------------------------------------------------------
\* Tables with a negative row id, with gaps, and with ranges that end a row group.
MCThreads == {t1, t2}
MCRowIds == {-1, 0, 1, 3, 6}

-----------------------------------------------------------------------------
Strings == <<"10", "9", "B", "b", "hi", "top">>

Order(seq) == [s \in {seq[i] : i \in 1..Len(seq)} |-> CHOOSE i \in 1..Len(seq) : seq[i] = s]
Other == [v \in {"1", "2"} |-> IF v = "1" THEN 1 ELSE 2]

MCRank ==
    [binary |-> Order(Strings) @@ Other,
     utf16 |-> Order(<<"10", "9", "B", "b", "top", "hi">>) @@ Other,
     nocase |-> [Order(Strings) EXCEPT !["b"] = 3] @@ Other,
     numeric |-> Order(<<"9", "10", "B", "b", "hi", "top">>) @@ Other,
     storage |-> Order(Strings) @@ [v \in {"1", "2"} |-> IF v = "1" THEN 2 ELSE 1]]

MCColumns == {1, 2}

Leaf(op, constant, kind) == [op |-> op, constant |-> constant, kind |-> kind]

Leaves ==
    {Leaf(op, c, "comparison") : op \in {"<", "=", "IS NOT"}, c \in {"9", "B", "top"}}
        \cup {Leaf("IS NULL", None, "comparison"), Leaf("=", "9", "nul"),
              Leaf("<", "B", "function"), Leaf("<", "B", "internal")}

StringFilters == {{}} \cup {{l} : l \in Leaves} \cup {{l, Leaf("<", "hi", k)} : l \in Leaves,
                                                         k \in {"comparison", "internal"}}
OtherFilters == {{}, {Leaf("<", "2", "comparison")}, {Leaf("IS NULL", None, "comparison")}}

MCRows == <<<<"b", "2">>, <<"hi", "1">>, <<None, "1">>, <<"10", None>>, <<"9", "2">>, <<"B", "1">>, <<"top", "1">>>>

MCScans ==
    {[columns |-> <<[type |-> "VARCHAR", text |-> text, nocase |-> folded],
                    [type |-> other, text |-> FALSE, nocase |-> FALSE]>>,
      utf8 |-> utf8, all_varchar |-> all, rowid_name |-> TRUE,
      filter |-> <<f, g>>, rows |-> MCRows] :
        text \in BOOLEAN, folded \in BOOLEAN, utf8 \in BOOLEAN, all \in BOOLEAN,
        other \in {"BIGINT", "ROWID", "DATE"}, f \in StringFilters, g \in OtherFilters}

-----------------------------------------------------------------------------
(* One column of two rows: every declared type of one keyword, and those of
   two whose rules disagree. *)
Keywords == {"int", "bool", "text", "blob", "real", "date", "time", "dec", "other"}
MCDeclaredTypes == {{}} \union {{k} : k \in Keywords}
    \union {{"int", "text"}, {"bool", "real"}, {"blob", "text"}, {"date", "time"}, {"real", "time"}}

\* SQLite's values, in the form of ColumnReads: numbers are halves, a text has a kind.
StoredValue(class, num, kind, n) == [class |-> class, num |-> num, text |-> [kind |-> kind, n |-> n]]
StoredTexts == {<<"int", 1>>, <<"real", 2>>, <<"word", 1>>, <<"day", 9>>, <<"time", 12>>}
MCClientValues ==
    {StoredValue("NULL", 0, "word", 0), StoredValue("INTEGER", 2, "word", 0), StoredValue("FLOAT", 2, "word", 0),
     StoredValue("FLOAT", 3, "word", 0), StoredValue("BLOB", 0, "word", 1)}
    \union {StoredValue("TEXT", 0, text[1], text[2]) : text \in StoredTexts}

-----------------------------------------------------------------------------
\* The variables of FilterPushdown before a scan without filters.
Unfiltered ==
    /\ scan = [columns |-> [c \in Columns |-> [type |-> "BIGINT", text |-> FALSE, nocase |-> FALSE]],
               utf8 |-> TRUE, all_varchar |-> FALSE, rowid_name |-> TRUE, filter |-> <<{}, {}>>, rows |-> MCRows]
    /\ todo = Columns /\ conditions = {} /\ filters = {} /\ cursor = 0
    /\ output = {} /\ done = FALSE /\ emitted = {} /\ stage = "transform"

MCInit ==
    /\ about \in {"threads", "filters", "values"}
    /\ IF about = "threads" THEN ScanInit ELSE rows = {} /\ hasRowId = TRUE /\ useGlobalDB = TRUE /\ ScanInit
    /\ IF about = "filters" THEN Init ELSE Unfiltered
    /\ IF about = "values" THEN ReadInit ELSE declared = {} /\ nocase = FALSE /\ all_varchar = FALSE /\ ReadInit

MCNext ==
    /\ UNCHANGED about
    /\ \/ about = "threads" /\ ScanNext /\ UNCHANGED <<vars, readVars>>
       \/ about = "filters" /\ Next /\ UNCHANGED <<scanVars, readVars>>
       \/ about = "values" /\ ReadNext /\ UNCHANGED <<scanVars, vars>>

\* The threads run: the fairness of FairScan, for the behaviours about them.
MCSpec ==
    /\ MCInit
    /\ [][MCNext]_<<about, scanVars, vars, readVars>>
    /\ WF_scanVars(about = "threads" /\ Bind)
    /\ WF_scanVars(about = "threads" /\ InitGlobalState)
    /\ \A t \in Threads : WF_scanVars(about = "threads" /\ ThreadStep(t))

\* Every launched thread of a scan finishes or reports an error (ScanTerminates of ParallelScan).
ThreadsEnd == about = "threads" => ScanTerminates
=============================================================================
