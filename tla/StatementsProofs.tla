-------------------------- MODULE StatementsProofs --------------------------
(***************************************************************************)
(* Proofs about the statements of a transaction: for any number of them    *)
(* (RemoteQuery), and for any names, columns and sequence of DDL           *)
(* (CatalogCache).                                                         *)
(***************************************************************************)
EXTENDS RemoteQuery, CatalogCache, TLAPS

-----------------------------------------------------------------------------
(* RemoteQuery.                                                            *)

Underway == {"bind", "check", "initialize", "scan"}

(* How often the statement has been executed at each stage.                 *)
RunsInv ==
    /\ stage \in {"remote", "local", "bind", "check", "initialize"} =>
           mainRuns = 0 /\ localRuns = 0 /\ ~returned
    /\ stage \in {"remote", "local", "scan", "done"} => preliminary = 0
    /\ stage = "scan" => localRuns = 0 /\ mainRuns = IF returned THEN 1 ELSE 0
    /\ stage = "done" => mainRuns + localRuns = 1

(* A statement changes the schema at most three times.                      *)
SchemaInv ==
    /\ schema <= 3 * statements
    /\ stage \in {"remote", "local"} => schema + 3 <= 3 * statements
    /\ stage \in {"bind", "check", "initialize"} => schema + preliminary + 1 <= 3 * statements
    /\ stage = "scan" /\ ~returned => schema + 1 <= 3 * statements

(* What the parameters of sqlite_query say of the statement.                *)
ArgsInv ==
    /\ stage \in {"remote", "local"} => stmt.effect = EffectOf(stmt.kind)
    /\ stage # "idle" => stmt.kind # "none"
    /\ stage \in Underway =>
        /\ preliminary > 0 => Given("preliminary_queries") /\ stmt.kind \notin Queries
        /\ stmt.effect.writes /\ Given("column_types") => Given("modifies_database")
        /\ stmt.effect.alters \/ stmt.kind \in Definitions => Given("clear_catalog_cache")

(* A statement that goes on to write is registered as one that does.        *)
WritesInv ==
    /\ readOnlyTx \/ readOnlyAttach => ~wrote
    /\ stage \in {"check", "initialize", "scan"} =>
           (preliminary > 0 \/ stmt.effect.writes => bound.modifies)
    /\ stage \in {"initialize", "scan"} => ~(bound.modifies /\ (readOnlyTx \/ readOnlyAttach))

(* The cache is stale at most until the scan is initialized.                *)
CachedInv ==
    /\ stage \notin {"initialize", "aborted"} => cached \in {NoEntries, schema}
    /\ stage = "initialize" =>
           cached \in {NoEntries, schema} \/ (Given("preliminary_queries") /\ Given("clear_catalog_cache"))

QueryInv == QueryTypeOK /\ RunsInv /\ SchemaInv /\ ArgsInv /\ WritesInv /\ CachedInv

(* What a kind of statement does, field by field.                           *)
LEMMA EffectFields ==
  \A kind :
    /\ EffectOf(kind).columns = (kind \in {"trivial", "select", "returning"})
    /\ EffectOf(kind).writes = (kind \notin {"trivial", "select"})
    /\ EffectOf(kind).alters = (kind \in {"create view", "replace view", "drop or alter"})
  BY Zenon DEF EffectOf

(* Every kind of statement has an effect of the declared form.              *)
LEMMA EffectOfType == \A kind : EffectOf(kind) \in Effects
  <1> SUFFICES ASSUME NEW kind
               PROVE  EffectOf(kind) \in Effects
    OBVIOUS
  <1> DEFINE columns == kind \in {"trivial", "select", "returning"}
             writes == kind \notin {"trivial", "select"}
             alters == kind \in {"create view", "replace view", "drop or alter"}
  <1>1. EffectOf(kind) \in [columns : BOOLEAN, writes : BOOLEAN, alters : BOOLEAN]
    <2>1. columns \in BOOLEAN /\ writes \in BOOLEAN /\ alters \in BOOLEAN
      OBVIOUS
    <2>2. EffectOf(kind) = [columns |-> columns, writes |-> writes, alters |-> alters]
      BY Zenon DEF EffectOf
    <2> HIDE DEF columns, writes, alters
    <2>3. QED
      BY <2>1, <2>2
  <1>2. QED
    BY <1>1, EffectFields DEF Effects

(* The conjuncts of the type invariant that are about numbers.              *)
NumbersOK ==
    /\ statements \in 0..MaxStatements
    /\ preliminary \in 0..2
    /\ mainRuns \in 0..1 /\ localRuns \in 0..1
    /\ schema \in 0..3 * MaxStatements
    /\ cached \in (0..schema) \cup {NoEntries}

FlagsOK ==
    /\ readOnlyAttach \in BOOLEAN /\ readOnlyTx \in BOOLEAN /\ utf8 \in BOOLEAN /\ collation \in BOOLEAN
    /\ returned \in BOOLEAN /\ wrote \in BOOLEAN /\ replacedRead \in BOOLEAN

StatementOK ==
    /\ stage \in {"idle", "remote", "local", "bind", "check", "initialize", "scan", "done", "aborted"}
    /\ stmt \in [kind : Queries \cup Definitions \cup {"call", "none"}, source : Sources, effect : Effects]
    /\ args \subseteq Options \cup {"return_changed_rows"}
    /\ bound \in [typed : BOOLEAN, command_only : BOOLEAN, modifies : BOOLEAN]
    /\ bound.typed => ~bound.command_only

(* The type invariant in its three parts.                                   *)
LEMMA QueryTypes == QueryTypeOK <=> NumbersOK /\ FlagsOK /\ StatementOK
  BY DEF QueryTypeOK, NumbersOK, FlagsOK, StatementOK

(* The invariant holds before the first statement.                          *)
LEMMA QueryStart == QueryInit => QueryInv
  <1> SUFFICES ASSUME QueryInit
               PROVE  QueryInv
    OBVIOUS
  <1> USE StatementsAssumption DEF QueryInit
  <1>0. 0 \in 0..MaxStatements /\ 0 \in 0..2 /\ 0 \in 0..1 /\ 0 \in 0..(3 * MaxStatements)
    OBVIOUS
  <1>1. stmt \in [kind : Queries \cup Definitions \cup {"call", "none"}, source : Sources, effect : Effects]
    BY EffectOfType DEF NoStatement, Sources
  <1>2. QueryTypeOK
    BY <1>0, <1>1, Zenon DEF QueryTypeOK, NotBound
  <1>3. RunsInv /\ SchemaInv /\ WritesInv /\ CachedInv
    BY DEF RunsInv, SchemaInv, WritesInv, CachedInv
  <1>4. ArgsInv
    BY DEF ArgsInv, Underway, NoStatement
  <1>5. QED
    BY <1>2, <1>3, <1>4 DEF QueryInv

(* A statement has been executed no time when it is submitted.              *)
LEMMA SubmitKeeps ==
  ASSUME QueryInv, NEW kind \in Queries \cup Definitions, NEW reads \in Sources, NEW supported \in BOOLEAN, Submit(kind, reads, supported)
  PROVE  QueryInv'
  <1> USE StatementsAssumption DEF QueryInv
  <1>0. NumbersOK /\ FlagsOK /\ StatementOK
    BY QueryTypes
  <1>1. /\ schema' = schema /\ statements' = statements + 1 /\ statements < MaxStatements
        /\ preliminary' = 0 /\ mainRuns' = 0 /\ localRuns' = 0
        /\ cached' \in {cached, schema} /\ stage' \in {"remote", "local"}
    BY DEF RunsInv, Submit, LookupEntries, NotBound, Queries, Definitions, databaseVars
  <1>2. RunsInv'
    BY <1>1 DEF RunsInv, Submit, LookupEntries, NotBound, Queries, Definitions, databaseVars
  <1>3. SchemaInv'
    BY <1>0, <1>1 DEF SchemaInv, NumbersOK
  <1>4. NumbersOK'
    BY <1>0, <1>1, <1>3 DEF NumbersOK, SchemaInv
  <1>5. FlagsOK'
    BY <1>0 DEF FlagsOK, Submit, LookupEntries, NotBound, Queries, Definitions, databaseVars
  <1>6. StatementOK'
    BY <1>0, EffectOfType DEF StatementOK, Options, Submit, LookupEntries, NotBound, Queries, Definitions, databaseVars
  <1>7. ArgsInv'
    BY <1>0 DEF ArgsInv, Underway, Given, RunsInv, StatementOK, Submit, LookupEntries, NotBound, Queries, Definitions, databaseVars
  <1>8. WritesInv'
    BY <1>0 DEF WritesInv, ArgsInv, Underway, Given, RunsInv, FlagsOK, StatementOK, Submit, LookupEntries, NotBound, Queries, Definitions, databaseVars
  <1>9. CachedInv'
    BY <1>0 DEF CachedInv, ArgsInv, Underway, Given, RunsInv, StatementOK, Submit, LookupEntries, NotBound, Queries, Definitions, databaseVars
  <1>10. QED
    BY <1>2, <1>3, <1>4, <1>5, <1>6, <1>7, <1>8, <1>9 DEF QueryTypeOK, NumbersOK, FlagsOK, StatementOK

(* Nor has the one that a user gives to sqlite_query.                       *)
LEMMA CallKeeps ==
  ASSUME QueryInv, NEW effect \in Effects, NEW named \in SUBSET Options, NEW n \in 0..2, Call(effect, named, n)
  PROVE  QueryInv'
  <1> USE StatementsAssumption DEF QueryInv
  <1>0. NumbersOK /\ FlagsOK /\ StatementOK
    BY QueryTypes
  <1>1. /\ schema' = schema /\ statements' = statements + 1 /\ statements < MaxStatements
        /\ preliminary' = n /\ mainRuns' = 0 /\ localRuns' = 0
        /\ cached' = cached /\ stage' = "bind"
    BY DEF RunsInv, Call, NotBound, Queries, Definitions, databaseVars
  <1>2. RunsInv'
    BY <1>1 DEF RunsInv, Call, NotBound, Queries, Definitions, databaseVars
  <1>3. SchemaInv'
    BY <1>0, <1>1 DEF SchemaInv, NumbersOK
  <1>4. NumbersOK'
    BY <1>0, <1>1, <1>3 DEF NumbersOK, SchemaInv
  <1>5. FlagsOK'
    BY <1>0, Zenon DEF FlagsOK, Call, NotBound, Queries, Definitions, databaseVars
  <1>6. StatementOK'
    <2>1. (stmt \in [kind : Queries \cup Definitions \cup {"call", "none"}, source : Sources, effect : Effects])'
      BY DEF Call, Sources
    <2>2. QED
      BY <1>0, <1>1, <2>1 DEF StatementOK, Options, Call, NotBound
  <1>7. ArgsInv'
    BY <1>0 DEF ArgsInv, Underway, Given, RunsInv, StatementOK, Call, NotBound, Queries, Definitions, databaseVars
  <1>8. WritesInv'
    BY <1>0 DEF WritesInv, ArgsInv, Underway, Given, RunsInv, FlagsOK, StatementOK, Call, NotBound, Queries, Definitions, databaseVars
  <1>9. CachedInv'
    BY <1>0 DEF CachedInv, ArgsInv, Underway, Given, RunsInv, StatementOK, Call, NotBound, Queries, Definitions, databaseVars
  <1>10. QED
    BY <1>2, <1>3, <1>4, <1>5, <1>6, <1>7, <1>8, <1>9 DEF QueryTypeOK, NumbersOK, FlagsOK, StatementOK

(* The rewriting of a query sets modifies_database for every statement that *)
(* writes and gives its columns.                                            *)
LEMMA RemoteExecuteQueryKeeps ==
  ASSUME QueryInv, NEW f \in Facts, RemoteExecuteQuery(f)
  PROVE  QueryInv'
  <1> USE StatementsAssumption DEF QueryInv
  <1>0. NumbersOK /\ FlagsOK /\ StatementOK
    BY QueryTypes
  <1>2. RunsInv'
    BY <1>0 DEF RunsInv, NumbersOK, FlagsOK, RemoteExecuteQuery, Queries, Definitions, databaseVars
  <1>3. SchemaInv'
    BY <1>0 DEF SchemaInv, RunsInv, NumbersOK, RemoteExecuteQuery, Queries, Definitions, databaseVars
  <1>4. NumbersOK'
    BY <1>0, <1>3 DEF NumbersOK, RunsInv, SchemaInv, RemoteExecuteQuery, Queries, Definitions, databaseVars
  <1>5. FlagsOK'
    BY <1>0 DEF FlagsOK, RemoteExecuteQuery, Queries, Definitions, databaseVars
  <1>6. StatementOK'
    BY <1>0, EffectOfType DEF StatementOK, Options, RemoteExecuteQuery, Queries, Definitions, databaseVars
  <1>7. ArgsInv'
    <2>1. stmt' = stmt /\ stmt.kind \in Queries /\ stmt.effect = EffectOf(stmt.kind) /\ preliminary' = 0
      BY DEF ArgsInv, RunsInv, RemoteExecuteQuery
    <2>0. /\ EffectOf(stmt.kind).writes = (stmt.kind \notin {"trivial", "select"})
          /\ EffectOf(stmt.kind).alters = (stmt.kind \in {"create view", "replace view", "drop or alter"})
      BY EffectFields, Zenon
    <2>2. ~stmt.effect.alters /\ stmt.kind \notin Definitions /\ stmt.kind # "none"
      BY <2>0, <2>1 DEF Queries, Definitions
    <2>3. stage' \in {"bind", "local"}
      BY DEF RemoteExecuteQuery
    <2>4. stage' = "bind" /\ stmt.effect.writes /\ "column_types" \in args' => "modifies_database" \in args'
      <3>1. stage' = "bind" =>
               args' = CASE stmt.kind = "dml" -> {"return_changed_rows"}
                         [] stmt.kind = "returning" -> {"modifies_database", "column_types"}
                         [] OTHER -> {"column_types"}
        BY Zenon DEF RemoteExecuteQuery
      <3>2. stmt.effect.writes => stmt.kind \in {"dml", "returning"}
        BY <2>0, <2>1 DEF Queries
      <3>3. QED
        BY <3>1, <3>2
    <2>5. QED
      BY <2>1, <2>2, <2>3, <2>4 DEF ArgsInv, Underway, Given
  <1>8. WritesInv'
    BY <1>0 DEF WritesInv, ArgsInv, Underway, Given, RunsInv, FlagsOK, StatementOK, RemoteExecuteQuery, Queries, Definitions, databaseVars
  <1>9. CachedInv'
    BY <1>0 DEF CachedInv, ArgsInv, Underway, Given, RunsInv, StatementOK, RemoteExecuteQuery, Queries, Definitions, databaseVars
  <1>10. QED
    BY <1>2, <1>3, <1>4, <1>5, <1>6, <1>7, <1>8, <1>9 DEF QueryTypeOK, NumbersOK, FlagsOK, StatementOK

(* The preliminary queries and the statement fit the three changes of the   *)
(* schema that a statement makes at most.                                   *)
LEMMA RoomForStatement ==
  \A a, b \in Nat : \A p \in 0..2 : a + 3 <= 3 * b => a + p + 1 <= 3 * b
  OBVIOUS

(* A statement that is executed directly has passed the check of the access *)
(* mode, and clears the cache when it alters the schema.                    *)
LEMMA RemoteExecuteStatementKeeps ==
  ASSUME QueryInv, NEW translated \in BOOLEAN, RemoteExecuteStatement(translated)
  PROVE  QueryInv'
  <1> USE StatementsAssumption DEF QueryInv
  <1>0. NumbersOK /\ FlagsOK /\ StatementOK
    BY QueryTypes
  <1>1. /\ schema' = schema /\ statements' = statements /\ mainRuns' = mainRuns /\ localRuns' = localRuns
        /\ preliminary' \in {preliminary, 0, 1, 2} /\ preliminary = 0
        /\ cached' = cached /\ stage = "remote" /\ stage' \in {"bind", "idle"}
    BY DEF RunsInv, RemoteExecuteStatement, PreliminaryQueries, Queries, Definitions, databaseVars
  <1>2. RunsInv'
    BY <1>1 DEF RunsInv, RemoteExecuteStatement, PreliminaryQueries, Queries, Definitions, databaseVars
  <1>3. SchemaInv'
    <2>1. schema + 3 <= 3 * statements /\ schema \in Nat /\ statements \in Nat /\ preliminary' \in 0..2
      BY <1>0, <1>1 DEF SchemaInv, NumbersOK
    <2>2. schema + preliminary' + 1 <= 3 * statements
      BY <2>1, RoomForStatement, Zenon
    <2>3. QED
      BY <1>1, <2>1, <2>2, Zenon DEF SchemaInv
  <1>4. NumbersOK'
    BY <1>0, <1>1, <1>3 DEF NumbersOK, SchemaInv
  <1>5. FlagsOK'
    BY <1>0 DEF FlagsOK, RemoteExecuteStatement, PreliminaryQueries, Queries, Definitions, databaseVars
  <1>6. StatementOK'
    BY <1>0, EffectOfType DEF StatementOK, Options, RemoteExecuteStatement, PreliminaryQueries, Queries, Definitions, databaseVars
  <1>7. ArgsInv'
    <2>1. /\ stmt' = stmt /\ stmt.kind \in Definitions /\ stmt.kind \notin Queries /\ stmt.kind # "none"
          /\ stage' \in {"bind", "idle"}
      BY DEF RemoteExecuteStatement, Definitions, Queries
    <2>2. stage' = "bind" =>
             /\ preliminary' = PreliminaryQueries
             /\ args' = {"clear_catalog_cache"}
                  \cup (IF PreliminaryQueries > 0 THEN {"preliminary_queries"} ELSE {})
                  \cup (IF stmt.kind \in {"create as", "replace as"}
                        THEN {"return_changed_rows"} ELSE {"suppress_output"})
      BY Zenon DEF RemoteExecuteStatement
    <2>3. stage' = "bind" =>
             /\ "clear_catalog_cache" \in args' /\ "column_types" \notin args'
             /\ preliminary' > 0 => "preliminary_queries" \in args'
      <3>1. SUFFICES ASSUME stage' = "bind"
                     PROVE  /\ "clear_catalog_cache" \in args' /\ "column_types" \notin args'
                            /\ preliminary' > 0 => "preliminary_queries" \in args'
        OBVIOUS
      <3>2. CASE PreliminaryQueries > 0
        BY <2>2, <3>1, <3>2
      <3>3. CASE ~(PreliminaryQueries > 0)
        BY <2>2, <3>1, <3>3
      <3>4. QED
        BY <3>2, <3>3
    <2>4. QED
      BY <2>1, <2>2, <2>3 DEF ArgsInv, Underway, Given
  <1>8. WritesInv'
    BY <1>0 DEF WritesInv, ArgsInv, Underway, Given, RunsInv, FlagsOK, StatementOK, RemoteExecuteStatement, PreliminaryQueries, Queries, Definitions, databaseVars
  <1>9. CachedInv'
    BY <1>0 DEF CachedInv, ArgsInv, Underway, Given, RunsInv, StatementOK, RemoteExecuteStatement, PreliminaryQueries, Queries, Definitions, databaseVars
  <1>10. QED
    BY <1>2, <1>3, <1>4, <1>5, <1>6, <1>7, <1>8, <1>9 DEF QueryTypeOK, NumbersOK, FlagsOK, StatementOK

(* The bind prepares a statement without running it.                        *)
LEMMA SQLiteQueryBindKeeps ==
  ASSUME QueryInv, NEW valid \in BOOLEAN, SQLiteQueryBind(valid)
  PROVE  QueryInv'
  <1> USE StatementsAssumption DEF QueryInv
  <1>0. NumbersOK /\ FlagsOK /\ StatementOK
    BY QueryTypes
  <1>2. RunsInv'
    BY <1>0 DEF RunsInv, NumbersOK, FlagsOK, SQLiteQueryBind, databaseVars
  <1>3. SchemaInv'
    BY <1>0 DEF SchemaInv, RunsInv, NumbersOK, SQLiteQueryBind, databaseVars
  <1>4. NumbersOK'
    BY <1>0, <1>3 DEF NumbersOK, RunsInv, SchemaInv, SQLiteQueryBind, databaseVars
  <1>5. FlagsOK'
    BY <1>0 DEF FlagsOK, SQLiteQueryBind, databaseVars
  <1>6. StatementOK'
    <2>1. /\ Given("column_types") \in BOOLEAN /\ CommandOnly \in BOOLEAN /\ ModifiesDatabase \in BOOLEAN
          /\ Given("column_types") => ~CommandOnly
      BY DEF Given, CommandOnly, ModifiesDatabase
    <2>2. bound' \in {bound, [typed |-> Given("column_types"), command_only |-> CommandOnly,
                              modifies |-> ModifiesDatabase]}
      BY DEF SQLiteQueryBind
    <2>3. (bound \in [typed : BOOLEAN, command_only : BOOLEAN, modifies : BOOLEAN])'
          /\ (bound.typed => ~bound.command_only)'
      BY <1>0, <2>1, <2>2 DEF StatementOK
    <2>4. QED
      BY <1>0, <2>3 DEF StatementOK, SQLiteQueryBind
  <1>7. ArgsInv'
    BY <1>0 DEF ArgsInv, Underway, Given, RunsInv, StatementOK, SQLiteQueryBind, databaseVars
  <1>8. WritesInv'
    <2>1. CASE stage' = "check"
      <3>1. preliminary > 0 \/ stmt.effect.writes => ModifiesDatabase
        BY <2>1 DEF SQLiteQueryBind, ArgsInv, Underway, ModifiesDatabase, CommandOnly, HasColumns,
                    PreparedAtBind
      <3>2. bound'.modifies = ModifiesDatabase /\ UNCHANGED <<databaseVars, stmt, preliminary, wrote>>
        BY <2>1 DEF SQLiteQueryBind
      <3>3. QED
        BY <2>1, <3>1, <3>2 DEF WritesInv, databaseVars
    <2>2. CASE stage' = "idle"
      BY <2>2 DEF SQLiteQueryBind, WritesInv, databaseVars
    <2>3. QED
      BY <2>1, <2>2 DEF SQLiteQueryBind
  <1>9. CachedInv'
    BY <1>0 DEF CachedInv, ArgsInv, Underway, Given, RunsInv, StatementOK, SQLiteQueryBind, databaseVars
  <1>10. QED
    BY <1>2, <1>3, <1>4, <1>5, <1>6, <1>7, <1>8, <1>9 DEF QueryTypeOK, NumbersOK, FlagsOK, StatementOK

(* A statement that says it writes is refused in a read-only transaction.   *)
LEMMA CheckTransactionKeeps ==
  ASSUME QueryInv, CheckTransaction
  PROVE  QueryInv'
  <1> USE StatementsAssumption DEF QueryInv
  <1>0. NumbersOK /\ FlagsOK /\ StatementOK
    BY QueryTypes
  <1>2. RunsInv'
    BY <1>0 DEF RunsInv, NumbersOK, FlagsOK, CheckTransaction, databaseVars
  <1>3. SchemaInv'
    BY <1>0 DEF SchemaInv, RunsInv, NumbersOK, CheckTransaction, databaseVars
  <1>4. NumbersOK'
    BY <1>0, <1>3 DEF NumbersOK, RunsInv, SchemaInv, CheckTransaction, databaseVars
  <1>5. FlagsOK'
    BY <1>0 DEF FlagsOK, CheckTransaction, databaseVars
  <1>6. StatementOK'
    BY <1>0, EffectOfType DEF StatementOK, Options, CheckTransaction, databaseVars
  <1>7. ArgsInv'
    BY <1>0 DEF ArgsInv, Underway, Given, RunsInv, StatementOK, CheckTransaction, databaseVars
  <1>8. WritesInv'
    BY <1>0 DEF WritesInv, ArgsInv, Underway, Given, RunsInv, FlagsOK, StatementOK, CheckTransaction, databaseVars
  <1>9. CachedInv'
    BY <1>0 DEF CachedInv, ArgsInv, Underway, Given, RunsInv, StatementOK, CheckTransaction, databaseVars
  <1>10. QED
    BY <1>2, <1>3, <1>4, <1>5, <1>6, <1>7, <1>8, <1>9 DEF QueryTypeOK, NumbersOK, FlagsOK, StatementOK

(* The preliminary queries run before the statement does.                   *)
LEMMA PreliminaryKeeps ==
  ASSUME QueryInv, NEW alters \in BOOLEAN, Preliminary(alters)
  PROVE  QueryInv'
  <1> USE StatementsAssumption DEF QueryInv
  <1>0. NumbersOK /\ FlagsOK /\ StatementOK
    BY QueryTypes
  <1>2. RunsInv'
    BY <1>0 DEF RunsInv, NumbersOK, FlagsOK, Preliminary, databaseVars
  <1>3. SchemaInv'
    BY <1>0 DEF SchemaInv, RunsInv, NumbersOK, Preliminary, databaseVars
  <1>4. NumbersOK'
    BY <1>0, <1>3 DEF NumbersOK, RunsInv, SchemaInv, Preliminary, databaseVars
  <1>5. FlagsOK'
    BY <1>0 DEF FlagsOK, Preliminary, databaseVars
  <1>6. StatementOK'
    BY <1>0, EffectOfType DEF StatementOK, Options, Preliminary, databaseVars
  <1>7. ArgsInv'
    BY <1>0 DEF ArgsInv, Underway, Given, RunsInv, StatementOK, Preliminary, databaseVars
  <1>8. WritesInv'
    BY <1>0 DEF WritesInv, ArgsInv, Underway, Given, RunsInv, FlagsOK, StatementOK, Preliminary, databaseVars
  <1>9. CachedInv'
    BY <1>0 DEF CachedInv, ArgsInv, Underway, Given, RunsInv, StatementOK, Preliminary, databaseVars
  <1>10. QED
    BY <1>2, <1>3, <1>4, <1>5, <1>6, <1>7, <1>8, <1>9 DEF QueryTypeOK, NumbersOK, FlagsOK, StatementOK

(* The scan starts with a cache that is empty when it was asked to clear    *)
(* it.                                                                      *)
LEMMA InitializedKeeps ==
  ASSUME QueryInv, Initialized
  PROVE  QueryInv'
  <1> USE StatementsAssumption DEF QueryInv
  <1>0. NumbersOK /\ FlagsOK /\ StatementOK
    BY QueryTypes
  <1>2. RunsInv'
    BY <1>0 DEF RunsInv, NumbersOK, FlagsOK, Initialized, databaseVars
  <1>3. SchemaInv'
    BY <1>0 DEF SchemaInv, RunsInv, NumbersOK, Initialized, databaseVars
  <1>4. NumbersOK'
    BY <1>0, <1>3 DEF NumbersOK, RunsInv, SchemaInv, Initialized, databaseVars
  <1>5. FlagsOK'
    BY <1>0 DEF FlagsOK, Initialized, databaseVars
  <1>6. StatementOK'
    BY <1>0, EffectOfType DEF StatementOK, Options, Initialized, databaseVars
  <1>7. ArgsInv'
    BY <1>0 DEF ArgsInv, Underway, Given, RunsInv, StatementOK, Initialized, databaseVars
  <1>8. WritesInv'
    BY <1>0 DEF WritesInv, ArgsInv, Underway, Given, RunsInv, FlagsOK, StatementOK, Initialized, databaseVars
  <1>9. CachedInv'
    BY <1>0 DEF CachedInv, ArgsInv, Underway, Given, RunsInv, StatementOK, Initialized, databaseVars
  <1>10. QED
    BY <1>2, <1>3, <1>4, <1>5, <1>6, <1>7, <1>8, <1>9 DEF QueryTypeOK, NumbersOK, FlagsOK, StatementOK

(* A statement without columns is executed by its one step.                 *)
LEMMA CommandKeeps ==
  ASSUME QueryInv, Command
  PROVE  QueryInv'
  <1> USE StatementsAssumption DEF QueryInv
  <1>0. NumbersOK /\ FlagsOK /\ StatementOK
    BY QueryTypes
  <1>1. /\ schema' \in {schema, schema + 1} /\ statements' = statements
        /\ mainRuns' = mainRuns + 1 /\ mainRuns = 0 /\ localRuns' = localRuns /\ localRuns = 0
        /\ preliminary' = preliminary /\ preliminary = 0 /\ returned' /\ ~returned
        /\ cached' \in {cached, NoEntries} /\ stage' = "scan" /\ stage = "scan"
    BY DEF RunsInv, Command, Executed, databaseVars
  <1>2. RunsInv'
    BY <1>1 DEF RunsInv
  <1>3. SchemaInv'
    BY <1>0, <1>1 DEF SchemaInv, NumbersOK
  <1>4. NumbersOK'
    BY <1>0, <1>1, <1>3 DEF NumbersOK, SchemaInv
  <1>5. FlagsOK'
    BY <1>0 DEF FlagsOK, Command, Executed, databaseVars
  <1>6. StatementOK'
    BY <1>0, EffectOfType DEF StatementOK, Options, Command, Executed, databaseVars
  <1>7. ArgsInv'
    BY <1>0 DEF ArgsInv, Underway, Given, RunsInv, StatementOK, Command, Executed, databaseVars
  <1>8. WritesInv'
    BY <1>0 DEF WritesInv, ArgsInv, Underway, Given, RunsInv, FlagsOK, StatementOK, Command, Executed, databaseVars
  <1>9. CachedInv'
    BY <1>0 DEF CachedInv, ArgsInv, Underway, Given, RunsInv, StatementOK, Command, Executed, databaseVars
  <1>10. QED
    BY <1>2, <1>3, <1>4, <1>5, <1>6, <1>7, <1>8, <1>9 DEF QueryTypeOK, NumbersOK, FlagsOK, StatementOK

(* A row of the result leaves the execution the one that it is.             *)
LEMMA RowsKeeps ==
  ASSUME QueryInv, Rows
  PROVE  QueryInv'
  <1> USE StatementsAssumption DEF QueryInv
  <1>0. NumbersOK /\ FlagsOK /\ StatementOK
    BY QueryTypes
  <1>1. /\ schema' \in {schema, schema + 1} /\ statements' = statements
        /\ mainRuns' = mainRuns + 1 /\ mainRuns = 0 /\ localRuns' = localRuns /\ localRuns = 0
        /\ preliminary' = preliminary /\ preliminary = 0 /\ returned' /\ ~returned
        /\ cached' = cached /\ stage' = "scan" /\ stage = "scan"
    BY DEF RunsInv, Rows, Executed, Effects, databaseVars
  <1>2. RunsInv'
    BY <1>1 DEF RunsInv
  <1>3. SchemaInv'
    BY <1>0, <1>1 DEF SchemaInv, NumbersOK
  <1>4. NumbersOK'
    BY <1>0, <1>1, <1>3 DEF NumbersOK, SchemaInv
  <1>5. FlagsOK'
    BY <1>0 DEF FlagsOK, Rows, Executed, Effects, databaseVars
  <1>6. StatementOK'
    BY <1>0, EffectOfType DEF StatementOK, Options, Rows, Executed, Effects, databaseVars
  <1>7. ArgsInv'
    BY <1>0 DEF ArgsInv, Underway, Given, RunsInv, StatementOK, Rows, Executed, Effects, databaseVars
  <1>8. WritesInv'
    BY <1>0 DEF WritesInv, ArgsInv, Underway, Given, RunsInv, FlagsOK, StatementOK, Rows, Executed, Effects, databaseVars
  <1>9. CachedInv'
    BY <1>0 DEF CachedInv, ArgsInv, Underway, Given, RunsInv, StatementOK, Rows, Executed, Effects, databaseVars
  <1>10. QED
    BY <1>2, <1>3, <1>4, <1>5, <1>6, <1>7, <1>8, <1>9 DEF QueryTypeOK, NumbersOK, FlagsOK, StatementOK

(* The end of the result ends the execution.                                *)
LEMMA NoMoreRowsKeeps ==
  ASSUME QueryInv, NoMoreRows
  PROVE  QueryInv'
  <1> USE StatementsAssumption DEF QueryInv
  <1>0. NumbersOK /\ FlagsOK /\ StatementOK
    BY QueryTypes
  <1>2. RunsInv'
    BY <1>0 DEF RunsInv, NumbersOK, FlagsOK, NoMoreRows, databaseVars
  <1>3. SchemaInv'
    BY <1>0 DEF SchemaInv, RunsInv, NumbersOK, NoMoreRows, databaseVars
  <1>4. NumbersOK'
    BY <1>0, <1>3 DEF NumbersOK, RunsInv, SchemaInv, NoMoreRows, databaseVars
  <1>5. FlagsOK'
    BY <1>0 DEF FlagsOK, NoMoreRows, databaseVars
  <1>6. StatementOK'
    BY <1>0, EffectOfType DEF StatementOK, Options, NoMoreRows, databaseVars
  <1>7. ArgsInv'
    BY <1>0 DEF ArgsInv, Underway, Given, RunsInv, StatementOK, NoMoreRows, databaseVars
  <1>8. WritesInv'
    BY <1>0 DEF WritesInv, ArgsInv, Underway, Given, RunsInv, FlagsOK, StatementOK, NoMoreRows, databaseVars
  <1>9. CachedInv'
    BY <1>0 DEF CachedInv, ArgsInv, Underway, Given, RunsInv, StatementOK, NoMoreRows, databaseVars
  <1>10. QED
    BY <1>2, <1>3, <1>4, <1>5, <1>6, <1>7, <1>8, <1>9 DEF QueryTypeOK, NumbersOK, FlagsOK, StatementOK

(* A statement that fails leaves the cache no staler than it was.           *)
LEMMA QueryFailsKeeps ==
  ASSUME QueryInv, QueryFails
  PROVE  QueryInv'
  <1> USE StatementsAssumption DEF QueryInv
  <1>0. NumbersOK /\ FlagsOK /\ StatementOK
    BY QueryTypes
  <1>2. RunsInv'
    BY <1>0 DEF RunsInv, NumbersOK, FlagsOK, QueryFails, databaseVars
  <1>3. SchemaInv'
    BY <1>0 DEF SchemaInv, RunsInv, NumbersOK, QueryFails, databaseVars
  <1>4. NumbersOK'
    BY <1>0, <1>3 DEF NumbersOK, RunsInv, SchemaInv, QueryFails, databaseVars
  <1>5. FlagsOK'
    BY <1>0 DEF FlagsOK, QueryFails, databaseVars
  <1>6. StatementOK'
    BY <1>0, EffectOfType DEF StatementOK, Options, QueryFails, databaseVars
  <1>7. ArgsInv'
    BY <1>0 DEF ArgsInv, Underway, Given, RunsInv, StatementOK, QueryFails, databaseVars
  <1>8. WritesInv'
    BY <1>0 DEF WritesInv, ArgsInv, Underway, Given, RunsInv, FlagsOK, StatementOK, QueryFails, databaseVars
  <1>9. CachedInv'
    BY <1>0 DEF CachedInv, ArgsInv, Underway, Given, RunsInv, StatementOK, QueryFails, databaseVars
  <1>10. QED
    BY <1>2, <1>3, <1>4, <1>5, <1>6, <1>7, <1>8, <1>9 DEF QueryTypeOK, NumbersOK, FlagsOK, StatementOK

(* A statement that DuckDB executes itself leaves the remote path.          *)
LEMMA ExecuteLocallyKeeps ==
  ASSUME QueryInv, ExecuteLocally
  PROVE  QueryInv'
  <1> USE StatementsAssumption DEF QueryInv
  <1>0. NumbersOK /\ FlagsOK /\ StatementOK
    BY QueryTypes
  <1>2. RunsInv'
    BY <1>0 DEF RunsInv, NumbersOK, FlagsOK, ExecuteLocally, databaseVars
  <1>3. SchemaInv'
    BY <1>0 DEF SchemaInv, RunsInv, NumbersOK, ExecuteLocally, databaseVars
  <1>4. NumbersOK'
    BY <1>0, <1>3 DEF NumbersOK, RunsInv, SchemaInv, ExecuteLocally, databaseVars
  <1>5. FlagsOK'
    BY <1>0, Zenon DEF FlagsOK, ExecuteLocally, databaseVars
  <1>6. StatementOK'
    BY <1>0, EffectOfType DEF StatementOK, Options, ExecuteLocally, databaseVars
  <1>7. ArgsInv'
    BY <1>0 DEF ArgsInv, Underway, Given, RunsInv, StatementOK, ExecuteLocally, databaseVars
  <1>8. WritesInv'
    BY <1>0 DEF WritesInv, ArgsInv, Underway, Given, RunsInv, FlagsOK, StatementOK, ExecuteLocally, databaseVars
  <1>9. CachedInv'
    BY <1>0 DEF CachedInv, ArgsInv, Underway, Given, RunsInv, StatementOK, ExecuteLocally, databaseVars
  <1>10. QED
    BY <1>2, <1>3, <1>4, <1>5, <1>6, <1>7, <1>8, <1>9 DEF QueryTypeOK, NumbersOK, FlagsOK, StatementOK

(* The next statement starts with no execution behind it.                   *)
LEMMA FinishKeeps ==
  ASSUME QueryInv, Finish
  PROVE  QueryInv'
  <1> USE StatementsAssumption DEF QueryInv
  <1>0. NumbersOK /\ FlagsOK /\ StatementOK
    BY QueryTypes
  <1>2. RunsInv'
    BY <1>0 DEF RunsInv, NumbersOK, FlagsOK, Finish, databaseVars
  <1>3. SchemaInv'
    BY <1>0 DEF SchemaInv, RunsInv, NumbersOK, Finish, databaseVars
  <1>4. NumbersOK'
    BY <1>0, <1>3 DEF NumbersOK, RunsInv, SchemaInv, Finish, databaseVars
  <1>5. FlagsOK'
    BY <1>0 DEF FlagsOK, Finish, databaseVars
  <1>6. StatementOK'
    BY <1>0, EffectOfType DEF StatementOK, Options, Finish, databaseVars
  <1>7. ArgsInv'
    BY <1>0 DEF ArgsInv, Underway, Given, RunsInv, StatementOK, Finish, databaseVars
  <1>8. WritesInv'
    BY <1>0 DEF WritesInv, ArgsInv, Underway, Given, RunsInv, FlagsOK, StatementOK, Finish, databaseVars
  <1>9. CachedInv'
    BY <1>0 DEF CachedInv, ArgsInv, Underway, Given, RunsInv, StatementOK, Finish, databaseVars
  <1>10. QED
    BY <1>2, <1>3, <1>4, <1>5, <1>6, <1>7, <1>8, <1>9 DEF QueryTypeOK, NumbersOK, FlagsOK, StatementOK

(* Every step of a statement keeps the invariant.                           *)
LEMMA QueryInductive == QueryInv /\ [QueryNext]_queryVars => QueryInv'
  <1>1. ASSUME QueryInv, UNCHANGED queryVars
        PROVE  QueryInv'
    BY <1>1 DEF queryVars, QueryInv, QueryTypeOK, RunsInv, SchemaInv, ArgsInv, Given, WritesInv, CachedInv
  <1>2. QED
    BY <1>1, SubmitKeeps, CallKeeps, RemoteExecuteQueryKeeps, RemoteExecuteStatementKeeps,
       SQLiteQueryBindKeeps, CheckTransactionKeeps, PreliminaryKeeps, InitializedKeeps, CommandKeeps,
       RowsKeeps, NoMoreRowsKeeps, QueryFailsKeeps, ExecuteLocallyKeeps, FinishKeeps
       DEF QueryNext

(* It holds in every state of every behaviour.                              *)
LEMMA QueryInvariant == QuerySpec => []QueryInv
  BY QueryStart, QueryInductive, PTL DEF QuerySpec

(* Nothing is written to a read-only database or in a read-only             *)
(* transaction, by any sequence of statements, pushed down, called through  *)
(* sqlite_query with any parameters, or executed locally.                   *)
THEOREM ReadOnlyStaysUnwritten == QuerySpec => []ReadOnlyUnwritten
  <1>1. QueryInv => ReadOnlyUnwritten
    BY DEF QueryInv, WritesInv, ReadOnlyUnwritten
  <1>2. QED
    BY <1>1, QueryInvariant, PTL

(* A statement that ends was executed once, in one place.                   *)
THEOREM ExecutedOnce == QuerySpec => []StatementOnce
  <1>1. QueryInv => StatementOnce
    BY DEF QueryInv, RunsInv, StatementOnce
  <1>2. QED
    BY <1>1, QueryInvariant, PTL

(* The next statement never finds catalog entries of an older schema.       *)
THEOREM CacheIsCurrent == QuerySpec => []CacheShowsSchema
  <1>1. QueryInv => CacheShowsSchema
    BY DEF QueryInv, CachedInv, CacheShowsSchema
  <1>2. QED
    BY <1>1, QueryInvariant, PTL

-----------------------------------------------------------------------------
(***************************************************************************)
(* CatalogCache.                                                           *)
(***************************************************************************)
Entries == [Names -> Objects \cup {None}]

(* The cached tables are those of the database.                             *)
Fresh(master, map) == \A n \in Names : IsType(map[n], "table") => map[n] = master[n]

(* An object of the catalog is a table, or belongs to one.                  *)
LEMMA ObjectShape ==
  \A obj \in Objects :
    \/ obj.type = "table" /\ obj.of = None /\ obj.cols \in TableSchemas /\ obj = Table(obj.cols)
    \/ obj.type = "view" /\ obj.of \in Names /\ obj.cols = {} /\ obj = View(obj.of)
    \/ /\ obj.type = "index" /\ obj.of \in Names
       /\ \E c \in Columns : obj.cols = {c} /\ obj = Index(obj.of, c)
  <1> TAKE obj \in Objects
  <1>1. CASE \E cols \in TableSchemas : obj = Table(cols)
    BY <1>1 DEF Table
  <1>2. CASE \E t \in Names : obj = View(t)
    BY <1>2 DEF View
  <1>3. CASE \E t \in Names, c \in Columns : obj = Index(t, c)
    <2>1. PICK t \in Names, c \in Columns : obj = Index(t, c)
      BY <1>3
    <2>2. obj.type = "index" /\ obj.of = t /\ obj.cols = {c}
      BY <2>1 DEF Index
    <2>3. QED
      BY <2>1, <2>2
  <1>4. QED
    BY <1>1, <1>2, <1>3 DEF Objects

(* The objects that DDL makes, and their types.                             *)
LEMMA MadeObjects ==
  /\ \A cols \in TableSchemas : Table(cols) \in Objects /\ Table(cols).type = "table"
  /\ \A t \in Names : View(t) \in Objects /\ View(t).type = "view"
  /\ \A t \in Names, c \in Columns : Index(t, c) \in Objects /\ Index(t, c).type = "index"
  <1>1. \A cols \in TableSchemas : Table(cols) \in Objects /\ Table(cols).type = "table"
    BY DEF Objects, Table
  <1>2. \A t \in Names : View(t) \in Objects /\ View(t).type = "view"
    BY DEF Objects, View
  <1>3. \A t \in Names, c \in Columns : Index(t, c) \in Objects
    BY DEF Objects
  <1>4. \A t \in Names, c \in Columns : Index(t, c).type = "index"
    BY DEF Index
  <1>5. QED
    BY <1>1, <1>2, <1>3, <1>4

(* An entry read from the database keeps the cached tables fresh.           *)
LEMMA InsertFresh ==
  \A master, map \in Entries : \A n \in Names :
    Fresh(master, map) =>
      InsertEntry(map, n, master[n]) \in Entries /\ Fresh(master, InsertEntry(map, n, master[n]))
  BY DEF Entries, Fresh, InsertEntry, IsType

(* A lookup caches what the database has, and leaves a fresh cache fresh.   *)
LEMMA LookupFresh ==
  \A master, map \in Entries : \A n \in Names :
    Fresh(master, map) =>
      CacheAfterLookup(master, map, n) \in Entries /\ Fresh(master, CacheAfterLookup(master, map, n))
  <1> TAKE master, map \in Entries
  <1> TAKE n \in Names
  <1> HAVE Fresh(master, map)
  <1>1. CASE map[n] # None \/ master[n] = None
    BY <1>1, Zenon DEF CacheAfterLookup
  <1>2. CASE map[n] = None /\ master[n] # None /\ master[n].type # "index"
    BY <1>2, InsertFresh DEF CacheAfterLookup
  <1>3. CASE map[n] = None /\ master[n] # None /\ master[n].type = "index"
    <2>1. master[n].of \in Names
      BY <1>3, ObjectShape DEF Entries
    <2> DEFINE withTable == InsertEntry(map, master[n].of, master[master[n].of])
    <2>2. withTable \in Entries /\ Fresh(master, withTable)
      BY <2>1, InsertFresh
    <2>3. InsertEntry(withTable, n, master[n]) \in Entries
          /\ Fresh(master, InsertEntry(withTable, n, master[n]))
      BY <2>2, InsertFresh
    <2>4. CacheAfterLookup(master, map, n) \in {withTable, InsertEntry(withTable, n, master[n])}
      BY <1>3 DEF CacheAfterLookup
    <2>5. QED
      BY <2>2, <2>3, <2>4
  <1>4. QED
    BY <1>1, <1>2, <1>3

(* An entry may be erased while the object that it shows changes, as long   *)
(* as no other table does.                                                  *)
LEMMA EraseFresh ==
  \A master, new, map \in Entries : \A n \in Names :
    /\ Fresh(master, map)
    /\ \A m \in Names : m # n /\ IsType(master[m], "table") => new[m] = master[m]
    => EraseEntry(map, n) \in Entries /\ Fresh(new, EraseEntry(map, n))
  BY DEF Entries, Fresh, EraseEntry, IsType

(* A new object under a free name leaves the cached tables fresh.           *)
LEMMA CreateFresh ==
  \A master, map \in Entries : \A n \in Names : \A obj \in Objects :
    Fresh(master, map) /\ master[n] = None =>
      [master EXCEPT ![n] = obj] \in Entries /\ Fresh([master EXCEPT ![n] = obj], map)
  BY DEF Entries, Fresh, IsType

(* The same functions keep the types of the cache, fresh or not.            *)
LEMMA CacheTypes ==
  \A master, map \in Entries : \A n \in Names :
    CacheAfterLookup(master, map, n) \in Entries /\ EraseEntry(map, n) \in Entries
  <1> TAKE master, map \in Entries
  <1> TAKE n \in Names
  <1>1. \A m \in Names : \A from \in Entries : InsertEntry(from, m, master[m]) \in Entries
    BY DEF Entries, InsertEntry
  <1>2. EraseEntry(map, n) \in Entries
    BY DEF Entries, EraseEntry
  <1>3. CASE map[n] # None \/ master[n] = None
    BY <1>2, <1>3 DEF CacheAfterLookup
  <1>4. CASE map[n] = None /\ master[n] # None /\ master[n].type # "index"
    BY <1>1, <1>2, <1>4 DEF CacheAfterLookup
  <1>5. CASE map[n] = None /\ master[n] # None /\ master[n].type = "index"
    <2>1. master[n].of \in Names
      BY <1>5, ObjectShape DEF Entries
    <2> DEFINE withTable == InsertEntry(map, master[n].of, master[master[n].of])
    <2>2. withTable \in Entries
      BY <1>1, <2>1
    <2>3. InsertEntry(withTable, n, master[n]) \in Entries
      BY <1>1, <2>2
    <2>4. CacheAfterLookup(master, map, n) \in {withTable, InsertEntry(withTable, n, master[n])}
      BY <1>5 DEF CacheAfterLookup
    <2>5. QED
      BY <1>2, <2>2, <2>3, <2>4
  <1>6. QED
    BY <1>3, <1>4, <1>5

(* What DDL on n makes of the schema, with no other table changed.          *)
OthersKept(n, new) ==
    new \in Entries /\ \A m \in Names : m # n /\ IsType(db[m], "table") => new[m] = db[m]

(* DROP changes one entry, and the indexes that go with a table.            *)
LEMMA DroppedKeeps ==
  ASSUME db \in Entries, NEW n \in Names
  PROVE  OthersKept(n, Dropped(n))
  BY DEF OthersKept, Dropped, Entries, IsType

(* A rename changes the old name and the new one, which no entry had.       *)
LEMMA RenamedKeeps ==
  ASSUME db \in Entries, NEW t \in Names, NEW u \in Names, MayRename(t, u)
  PROVE  OthersKept(t, Renamed(t, u))
  <1> DEFINE follow(obj) == IF obj # None /\ obj.of = t THEN [obj EXCEPT !.of = u] ELSE obj
  <1>1. ASSUME NEW m \in Names
        PROVE  follow(db[m]) \in Objects \cup {None}
    <2>1. CASE db[m] # None /\ db[m].of = t
      <3>1. db[m] \in Objects
        BY <2>1 DEF Entries
      <3>2. db[m].type # "table"
        BY <2>1, <3>1, ObjectShape, CatalogAssumption
      <3>3. CASE db[m].type = "view"
        <4>1. db[m] = View(db[m].of)
          BY <3>1, <3>3, ObjectShape
        <4>2. [db[m] EXCEPT !.of = u] = View(u)
          BY <4>1 DEF View
        <4>3. QED
          BY <2>1, <4>2, MadeObjects
      <3>4. CASE db[m].type = "index"
        <4>1. PICK c \in Columns : db[m] = Index(db[m].of, c)
          BY <3>1, <3>4, ObjectShape
        <4>2. [db[m] EXCEPT !.of = u] = Index(u, c)
          BY <4>1 DEF Index
        <4>3. QED
          BY <2>1, <4>2, MadeObjects
      <3>5. QED
        BY <3>1, <3>2, <3>3, <3>4, ObjectShape
    <2>2. CASE ~(db[m] # None /\ db[m].of = t)
      BY <2>2 DEF Entries
    <2>3. QED
      BY <2>1, <2>2
  <1>2. Renamed(t, u) = [m \in Names |-> IF m = t THEN None ELSE IF m = u THEN db[t] ELSE follow(db[m])]
    BY DEF Renamed
  <1>3. Renamed(t, u) \in Entries
    BY <1>1, <1>2 DEF Entries
  <1>4. ASSUME NEW m \in Names, m # t, IsType(db[m], "table")
        PROVE  Renamed(t, u)[m] = db[m]
    <2>1. m # u /\ db[m] \in Objects /\ db[m] # None
      BY <1>4 DEF MayRename, IsType, Entries
    <2>2. db[m].of # t
      BY <1>4, <2>1, ObjectShape, CatalogAssumption DEF IsType
    <2>3. QED
      BY <1>2, <1>4, <2>1, <2>2
  <1>5. QED
    BY <1>3, <1>4 DEF OthersKept

(* Columns with one more are the columns of a table.                        *)
LEMMA WithColumn ==
  \A cols \in SUBSET Columns : \A c \in Columns : cols \cup {c} \in TableSchemas
  <1> TAKE cols \in SUBSET Columns
  <1> TAKE c \in Columns
  <1>1. c \in cols \cup {c}
    OBVIOUS
  <1>2. cols \cup {c} # {}
    BY <1>1
  <1>3. cols \cup {c} \in SUBSET Columns
    OBVIOUS
  <1>4. QED
    BY <1>2, <1>3 DEF TableSchemas

(* Renaming a column changes its table and the indexes on it.               *)
LEMMA ColumnRenamedKeeps ==
  ASSUME db \in Entries, NEW t \in Names, NEW c \in Columns, NEW d \in Columns, IsType(db[t], "table")
  PROVE  OthersKept(t, ColumnRenamed(t, c, d))
  <1> DEFINE follow(cols) == IF c \in cols THEN (cols \ {c}) \cup {d} ELSE cols
  <1>1. ColumnRenamed(t, c, d)
          = [m \in Names |-> IF m = t \/ (IsType(db[m], "index") /\ db[m].of = t)
                             THEN [db[m] EXCEPT !.cols = follow(@)] ELSE db[m]]
    BY DEF ColumnRenamed
  <1>2. ASSUME NEW m \in Names, IsType(db[m], "table")
        PROVE  [db[m] EXCEPT !.cols = follow(@)] \in Objects
    <2>1. db[m].cols \in TableSchemas /\ db[m] = Table(db[m].cols)
      BY <1>2, ObjectShape DEF IsType, Entries
    <2>2. follow(db[m].cols) \in TableSchemas
      <3>1. db[m].cols \ {c} \in SUBSET Columns
        BY <2>1 DEF TableSchemas
      <3>2. CASE c \in db[m].cols
        BY <3>1, <3>2, WithColumn, Zenon
      <3>3. CASE c \notin db[m].cols
        BY <2>1, <3>3
      <3>4. QED
        BY <3>2, <3>3
    <2>3. [db[m] EXCEPT !.cols = follow(@)] = Table(follow(db[m].cols))
      BY <2>1 DEF Table
    <2>4. QED
      BY <2>2, <2>3, MadeObjects
  <1>3. ASSUME NEW m \in Names, IsType(db[m], "index")
        PROVE  [db[m] EXCEPT !.cols = follow(@)] \in Objects
    <2>1. PICK i \in Columns : db[m].of \in Names /\ db[m].cols = {i} /\ db[m] = Index(db[m].of, i)
      BY <1>3, ObjectShape DEF IsType, Entries
    <2>2. PICK j \in Columns : follow(db[m].cols) = {j}
      BY <2>1
    <2>3. [db[m] EXCEPT !.cols = follow(@)] = Index(db[m].of, j)
      BY <2>1, <2>2 DEF Index
    <2>4. QED
      BY <2>1, <2>3, MadeObjects
  <1>4. ColumnRenamed(t, c, d) \in Entries
    BY <1>1, <1>2, <1>3 DEF Entries
  <1>5. QED
    BY <1>1, <1>4 DEF OthersKept, IsType

(* Columns added to or removed from a table, which keeps one.               *)
LEMMA ColumnsKeep ==
  ASSUME db \in Entries, NEW t \in Names, IsType(db[t], "table"),
         NEW cols \in TableSchemas
  PROVE  OthersKept(t, [db EXCEPT ![t].cols = cols])
  <1>1. db[t] = Table(db[t].cols)
    BY ObjectShape DEF IsType, Entries
  <1>2. [db[t] EXCEPT !.cols = cols] = Table(cols)
    BY <1>1 DEF Table
  <1>3. [db EXCEPT ![t].cols = cols] = [db EXCEPT ![t] = Table(cols)]
    BY <1>2, Zenon DEF Entries
  <1>4. QED
    BY <1>3, MadeObjects DEF OthersKept, Entries

(***************************************************************************)
(* The inductive invariant: types, fresh tables unless sqlite_query changed *)
(* the schema behind the cache, and the row id of the last write.          *)
(***************************************************************************)
CatalogInv == CatalogTypeOK /\ (~direct => Fresh(db, cache)) /\ WritesAddressRowIds

(* The part of the invariant that DDL of SQLiteSchemaEntry has to keep.     *)
LEMMA DDLKeeps ==
  ASSUME CatalogInv, CountDDL, UNCHANGED <<direct, write>>, drop' \in {drop, "existing", "missing"},
         (db \in Entries)', (cache \in Entries)', Fresh(db, cache) => Fresh(db, cache)'
  PROVE  CatalogInv'
  <1>1. ddl \in 0..MaxDDL /\ (ddl \in 0..MaxDDL)'
    BY CatalogAssumption DEF CatalogInv, CatalogTypeOK, CountDDL
  <1>2. CatalogTypeOK'
    BY <1>1 DEF CatalogInv, CatalogTypeOK, Entries
  <1>3. (~direct => Fresh(db, cache))'
    BY DEF CatalogInv
  <1>4. WritesAddressRowIds'
    BY DEF CatalogInv, WritesAddressRowIds
  <1>5. QED
    BY <1>2, <1>3, <1>4 DEF CatalogInv

(* The part of the invariant that every action needs.                       *)
LEMMA CatalogTypes ==
  ASSUME CatalogInv
  PROVE  db \in Entries /\ cache \in Entries /\ direct \in BOOLEAN
  BY DEF CatalogInv, CatalogTypeOK, Entries

(* DROP and ALTER: the entry is looked up and erased, the object changes.   *)
LEMMA EraseKeeps ==
  ASSUME db \in Entries, cache \in Entries, NEW n \in Names, OthersKept(n, db'),
         cache' = EraseEntry(CacheAfterLookup(db, cache, n), n)
  PROVE  /\ (db \in Entries)' /\ (cache \in Entries)'
         /\ Fresh(db, cache) => Fresh(db, cache)'
  <1>1. db' \in Entries /\ CacheAfterLookup(db, cache, n) \in Entries
    BY CacheTypes DEF OthersKept
  <1>2. cache' \in Entries
    BY <1>1, CacheTypes
  <1>3. ASSUME Fresh(db, cache)
        PROVE  Fresh(db', cache')
    <2>1. Fresh(db, CacheAfterLookup(db, cache, n))
      BY <1>3, LookupFresh
    <2>2. QED
      BY <1>1, <2>1, EraseFresh DEF OthersKept
  <1>4. Fresh(db', cache') => Fresh(db, cache)'
    BY DEF Fresh
  <1>5. QED
    BY <1>1, <1>2, <1>3, <1>4

(* Dropping an entry forgets the one that was cached.                       *)
LEMMA DropFoundKeeps ==
  ASSUME db \in Entries, cache \in Entries, NEW type, NEW n \in Names, DropFound(type, n)
  PROVE  /\ (db \in Entries)' /\ (cache \in Entries)'
         /\ Fresh(db, cache) => Fresh(db, cache)'
  <1>1. OthersKept(n, db) /\ OthersKept(n, Dropped(n))
    BY DroppedKeeps DEF OthersKept
  <1>2. OthersKept(n, db')
    BY <1>1 DEF DropFound
  <1>3. QED
    BY <1>2, EraseKeeps DEF DropFound

(* DROP keeps the invariant, whether it finds the entry or not.             *)
LEMMA DropEntryKeeps ==
  ASSUME CatalogInv, NEW type \in {"table", "view", "index"}, NEW n \in Names, DropEntry(type, n)
  PROVE  CatalogInv'
  BY CatalogTypes, DropFoundKeeps, DDLKeeps DEF DropEntry

(* Every ALTER forgets the cached table that it changes.                    *)
LEMMA AlterToKeeps ==
  ASSUME db \in Entries, cache \in Entries, NEW t \in Names, NEW master, OthersKept(t, master),
         AlterTo(t, master)
  PROVE  /\ (db \in Entries)' /\ (cache \in Entries)'
         /\ Fresh(db, cache) => Fresh(db, cache)'
  BY EraseKeeps DEF AlterTo

(* The five forms of ALTER keep the invariant.                              *)
LEMMA AlterKeeps ==
  ASSUME CatalogInv, NEW t \in Names, Alter(t)
  PROVE  CatalogInv'
  <1>0. db \in Entries /\ cache \in Entries
    BY CatalogTypes
  <1>1. PICK master : OthersKept(t, master) /\ AlterTo(t, master)
    <2>1. CASE \E u \in Names : RenameTable(t, u)
      BY <1>0, <2>1, RenamedKeeps DEF RenameTable
    <2>2. CASE \E c, d \in Columns : RenameColumn(t, c, d)
      BY <1>0, <2>2, ColumnRenamedKeeps DEF RenameColumn
    <2>3. ASSUME NEW c \in Columns, AddColumn(t, c)
          PROVE  \E master : OthersKept(t, master) /\ AlterTo(t, master)
      <3>1. db[t].cols \in SUBSET Columns
        BY <1>0, <2>3, ObjectShape DEF AddColumn, IsType, Entries, TableSchemas
      <3>2. QED
        BY <1>0, <2>3, <3>1, WithColumn, ColumnsKeep, Zenon DEF AddColumn
    <2>4. ASSUME NEW c \in Columns, RemoveColumn(t, c)
          PROVE  \E master : OthersKept(t, master) /\ AlterTo(t, master)
      <3>1. db[t].cols \in TableSchemas
        BY <1>0, <2>4, ObjectShape DEF RemoveColumn, IsType, Entries
      <3>2. db[t].cols \ {c} \in TableSchemas
        BY <2>4, <3>1 DEF RemoveColumn, MayDropColumn, TableSchemas
      <3>3. QED
        BY <1>0, <2>4, <3>2, ColumnsKeep DEF RemoveColumn
    <2>5. QED
      BY <2>1, <2>2, <2>3, <2>4 DEF Alter
  <1>2. QED
    BY <1>0, <1>1, AlterToKeeps, DDLKeeps DEF Alter

(* CREATE: an object under a free name, which is then looked up.            *)
LEMMA CreatedKeeps ==
  ASSUME db \in Entries, NEW map \in Entries, NEW n \in Names, NEW obj \in Objects,
         NEW kept, OthersKept(n, kept), kept[n] = None,
         db' = [kept EXCEPT ![n] = obj], cache' = CacheAfterLookup(db', map, n)
  PROVE  /\ (db \in Entries)' /\ (cache \in Entries)'
         /\ Fresh(kept, map) => Fresh(db, cache)'
  <1>1. db' \in Entries
    BY DEF OthersKept, Entries
  <1>2. cache' \in Entries
    BY <1>1, CacheTypes
  <1>3. ASSUME Fresh(kept, map)
        PROVE  Fresh(db', cache')
    <2>1. Fresh(db', map)
      BY <1>3, CreateFresh, Zenon DEF OthersKept
    <2>2. QED
      BY <1>1, <2>1, LookupFresh
  <1>4. Fresh(db', cache') => Fresh(db, cache)'
    BY Zenon DEF Fresh
  <1>5. QED
    BY <1>1, <1>2, <1>3, <1>4

(* CREATE adds an entry that was absent, and the cache does not have one    *)
(* either.                                                                  *)
LEMMA CreateKeeps ==
  ASSUME CatalogInv, NEW n \in Names, NEW obj \in Objects, Create(n, obj)
  PROVE  CatalogInv'
  <1>0. db \in Entries /\ cache \in Entries /\ OthersKept(n, db)
    BY CatalogTypes DEF OthersKept
  <1>1. CASE db[n] = None
    BY <1>0, <1>1, CreatedKeeps, DDLKeeps, Zenon DEF Create
  <1>2. CASE db[n] # None
    <2>1. db' = db /\ cache' \in {cache, CacheAfterLookup(db, cache, n)}
      BY <1>2 DEF Create
    <2>2. cache' \in Entries /\ (Fresh(db, cache) => Fresh(db, cache'))
      BY <1>0, <2>1, LookupFresh, CacheTypes, Zenon
    <2>3. (db \in Entries)' /\ (cache \in Entries)' /\ (Fresh(db, cache) => Fresh(db, cache)')
      BY <1>0, <2>1, <2>2 DEF Fresh
    <2>4. QED
      BY <2>3, DDLKeeps DEF Create
  <1>3. QED
    BY <1>1, <1>2

(* OR REPLACE drops what it replaces first.                                 *)
LEMMA CreateOrReplaceKeeps ==
  ASSUME CatalogInv, NEW n \in Names, NEW obj \in Objects, CreateOrReplace(n, obj)
  PROVE  CatalogInv'
  <1>0. db \in Entries /\ cache \in Entries /\ OthersKept(n, db)
    BY CatalogTypes DEF OthersKept
  <1> DEFINE found == CacheAfterLookup(db, cache, n)[n] # None
             Result == /\ (db \in Entries)' /\ (cache \in Entries)'
                       /\ Fresh(db, cache) => Fresh(db, cache)'
                       /\ drop' \in {drop, "existing", "missing"}
  <1>a. SUFFICES Result
    BY DDLKeeps DEF CreateOrReplace
  <1>1. CASE /\ ~found /\ db[n] = None
             /\ db' = [db EXCEPT ![n] = obj]
             /\ cache' = CacheAfterLookup(db', cache, n)
             /\ UNCHANGED drop
    BY <1>0, <1>1, CreatedKeeps, Zenon
  <1>2. CASE /\ found /\ IsType(db[n], obj.type)
             /\ db' = [Dropped(n) EXCEPT ![n] = obj]
             /\ cache' = CacheAfterLookup(db', EraseEntry(cache, n), n)
             /\ drop' = "existing"
    <2>1. OthersKept(n, Dropped(n)) /\ Dropped(n)[n] = None
      BY <1>0, DroppedKeeps DEF Dropped
    <2>2. EraseEntry(cache, n) \in Entries
      BY <1>0, CacheTypes
    <2>3. Fresh(db, cache) => Fresh(Dropped(n), EraseEntry(cache, n))
      BY <1>0, <2>1, EraseFresh DEF OthersKept
    <2>4. QED
      BY <1>0, <1>2, <2>1, <2>2, <2>3, CreatedKeeps, Zenon
  <1>3. CASE /\ found /\ ~IsType(db[n], obj.type)
             /\ DropFound(obj.type, n)
             /\ drop' = IF db[n] = None THEN "missing" ELSE "existing"
    BY <1>0, <1>3, DropFoundKeeps
  <1>4. QED
    BY <1>1, <1>2, <1>3 DEF CreateOrReplace

(* An index is added to the database and to no cached table.                *)
LEMMA CreateIndexKeeps ==
  ASSUME CatalogInv, NEW n \in Names, NEW t \in Names, NEW c \in Columns, CreateIndex(n, t, c)
  PROVE  CatalogInv'
  <1>0. db \in Entries /\ cache \in Entries
    BY CatalogTypes
  <1>1. cache' = CacheAfterLookup(db, cache, t)
    BY Zenon DEF CreateIndex
  <1>2. cache' \in Entries /\ (Fresh(db, cache) => Fresh(db, cache'))
    BY <1>0, <1>1, LookupFresh, CacheTypes
  <1>3. Index(t, c) \in Objects
    BY MadeObjects
  <1>4. db' \in Entries /\ (Fresh(db, cache) => Fresh(db', cache'))
    <2>1. CASE db[n] = None /\ db' = [db EXCEPT ![n] = Index(t, c)]
      BY <1>0, <1>2, <1>3, <2>1, CreateFresh, Zenon DEF Entries
    <2>2. CASE db' = db
      BY <1>0, <1>2, <2>2
    <2>3. QED
      BY <2>1, <2>2 DEF CreateIndex
  <1>5. (db \in Entries)' /\ (cache \in Entries)' /\ (Fresh(db, cache) => Fresh(db, cache)')
    BY <1>2, <1>4 DEF Fresh
  <1>6. QED
    BY <1>5, DDLKeeps DEF CreateIndex

(* sqlite_query clears the cache, or its changes are counted as direct.     *)
LEMMA SQLiteQueryDDLKeeps ==
  ASSUME CatalogInv, NEW n \in Names, NEW clear \in BOOLEAN, SQLiteQueryDDL(n, clear)
  PROVE  CatalogInv'
  <1>0. db \in Entries /\ cache \in Entries /\ direct \in BOOLEAN
    BY CatalogTypes
  <1>1. db' \in Entries
    <2>1. ASSUME NEW obj \in Objects, db' = [db EXCEPT ![n] = obj]
          PROVE  db' \in Entries
      BY <1>0, <2>1 DEF Entries
    <2>2. CASE db' = Dropped(n)
      BY <1>0, <2>2, DroppedKeeps DEF OthersKept
    <2>3. ASSUME NEW u \in Names, MayRename(n, u), db' = Renamed(n, u)
          PROVE  db' \in Entries
      BY <1>0, <2>3, RenamedKeeps DEF OthersKept
    <2>4. ASSUME NEW c \in Columns, IsType(db[n], "table"), db' = [db EXCEPT ![n].cols = @ \cup {c}]
          PROVE  db' \in Entries
      <3>1. db[n].cols \in SUBSET Columns
        BY <1>0, <2>4, ObjectShape DEF IsType, Entries, TableSchemas
      <3>2. QED
        BY <1>0, <2>4, <3>1, WithColumn, ColumnsKeep, Zenon DEF OthersKept
    <2>5. ASSUME NEW c \in Columns, MayDropColumn(n, c), db' = [db EXCEPT ![n].cols = @ \ {c}]
          PROVE  db' \in Entries
      <3>1. IsType(db[n], "table") /\ db[n].cols \in TableSchemas
        BY <1>0, <2>5, ObjectShape DEF MayDropColumn, IsType, Entries
      <3>2. db[n].cols \ {c} \in TableSchemas
        BY <2>5, <3>1 DEF MayDropColumn, TableSchemas
      <3>3. QED
        BY <1>0, <2>5, <3>1, <3>2, ColumnsKeep, Zenon DEF OthersKept
    <2>6. QED
      BY <2>1, <2>2, <2>3, <2>4, <2>5 DEF SQLiteQueryDDL
  <1>2. EmptyCache \in Entries /\ Fresh(db', EmptyCache)
    BY DEF EmptyCache, Entries, Fresh, IsType
  <1>3. cache' \in Entries
    BY <1>0, <1>2 DEF SQLiteQueryDDL, CacheAfterCommand
  <1>4. ddl \in 0..MaxDDL /\ (ddl \in 0..MaxDDL)'
    BY CatalogAssumption DEF CatalogInv, CatalogTypeOK, SQLiteQueryDDL, CountDDL
  <1>5. direct' \in BOOLEAN /\ (~direct' => clear)
    BY <1>0, Zenon DEF SQLiteQueryDDL
  <1>6. CatalogTypeOK'
    BY <1>1, <1>3, <1>4, <1>5 DEF CatalogInv, CatalogTypeOK, Entries, SQLiteQueryDDL
  <1>7. ~direct' => cache' = EmptyCache
    BY <1>5 DEF SQLiteQueryDDL, CacheAfterCommand
  <1>8. (~direct => Fresh(db, cache))'
    BY <1>2, <1>7 DEF Fresh
  <1>9. WritesAddressRowIds'
    BY DEF CatalogInv, WritesAddressRowIds, SQLiteQueryDDL
  <1>10. QED
    BY <1>6, <1>8, <1>9 DEF CatalogInv

(* Statements that only read the schema.                                    *)
LEMMA ReadKeeps ==
  ASSUME CatalogInv, UNCHANGED <<db, direct, drop, write, ddl>>, cache' \in Entries,
         Fresh(db, cache) => Fresh(db, cache')
  PROVE  CatalogInv'
  <1>1. CatalogTypeOK'
    BY DEF CatalogInv, CatalogTypeOK, Entries
  <1>2. (~direct => Fresh(db, cache))'
    BY DEF CatalogInv, Fresh
  <1>3. WritesAddressRowIds'
    BY DEF CatalogInv, WritesAddressRowIds
  <1>4. QED
    BY <1>1, <1>2, <1>3 DEF CatalogInv

(* A lookup of one entry.                                                   *)
LEMMA LookupKeeps ==
  ASSUME CatalogInv, NEW n \in Names, Lookup(n)
  PROVE  CatalogInv'
  BY CatalogTypes, CacheTypes, LookupFresh, ReadKeeps DEF Lookup

(* A scan of a schema looks up every entry of a type.                       *)
LEMMA ScanKeeps ==
  ASSUME CatalogInv, NEW type, Scan(type)
  PROVE  CatalogInv'
  <1>1. \A n \in Names : cache'[n] \in {db[n], cache[n]}
    BY DEF Scan
  <1>2. cache' \in Entries
    BY <1>1, CatalogTypes DEF Scan, Entries
  <1>3. Fresh(db, cache) => Fresh(db, cache')
    BY <1>1 DEF Fresh
  <1>4. QED
    BY <1>2, <1>3, ReadKeeps DEF Scan

(* The name GetWriteRowIdName returns is the one the scan used.             *)
LEMMA WriteRowsKeeps ==
  ASSUME CatalogInv, NEW t \in Names, WriteRows(t)
  PROVE  CatalogInv'
  <1>0. db \in Entries /\ cache \in Entries
    BY CatalogTypes
  <1> DEFINE looked == CacheAfterLookup(db, cache, t)
  <1>1. cache' = looked /\ looked \in Entries /\ (Fresh(db, cache) => Fresh(db, looked))
    BY <1>0, CacheTypes, LookupFresh DEF WriteRows
  <1>2. /\ write' = [table |-> t, rowid |-> FindRowIdName(looked[t].cols), cols |-> db[t].cols]
        /\ MayWriteRows(t, looked[t])
    BY Zenon DEF WriteRows
  <1>3. \A cols : FindRowIdName(cols) # "" => FindRowIdName(cols) \in {"rowid", "_rowid_", "oid"} \ cols
    BY DEF FindRowIdName
  <1>4. write'.table = t /\ write'.cols = db[t].cols /\ write'.rowid = FindRowIdName(db[t].cols)
    BY <1>2, Zenon DEF MayWriteRows
  <1>5. WritesAddressRowIds'
    BY <1>2, <1>3, <1>4 DEF WritesAddressRowIds, MayWriteRows
  <1>6. CatalogTypeOK'
    BY <1>1, <1>4 DEF CatalogInv, CatalogTypeOK, Entries, WriteRows
  <1>7. (~direct => Fresh(db, cache))'
    BY <1>1, Zenon DEF CatalogInv, Fresh, WriteRows
  <1>8. QED
    BY <1>5, <1>6, <1>7 DEF CatalogInv

(* The cache goes with its transaction.                                     *)
LEMMA EndTransactionKeeps ==
  ASSUME CatalogInv, EndTransaction
  PROVE  CatalogInv'
  <1>1. EmptyCache \in Entries /\ Fresh(db, EmptyCache)
    BY DEF EmptyCache, Entries, Fresh, IsType
  <1>2. CatalogTypeOK'
    BY <1>1, Zenon DEF CatalogInv, CatalogTypeOK, Entries, EndTransaction, NoWrite
  <1>3. (~direct => Fresh(db, cache))' /\ WritesAddressRowIds'
    BY <1>1 DEF Fresh, WritesAddressRowIds, EndTransaction
  <1>4. QED
    BY <1>2, <1>3 DEF CatalogInv

(* The invariant holds in a transaction that has cached nothing.            *)
LEMMA CatalogStart == CatalogInit => CatalogInv
  <1> SUFFICES ASSUME CatalogInit
               PROVE  CatalogInv
    OBVIOUS
  <1>0. ddl \in 0..MaxDDL /\ write.table = None
    BY CatalogAssumption DEF CatalogInit, NoWrite
  <1>1. CatalogTypeOK
    BY <1>0, Zenon DEF CatalogInit, CatalogTypeOK, EmptyCache
  <1>2. Fresh(db, cache) /\ WritesAddressRowIds
    BY DEF CatalogInit, Fresh, IsType, EmptyCache, WritesAddressRowIds
  <1>3. QED
    BY <1>1, <1>2 DEF CatalogInv

(* Every statement and every lookup keeps the invariant.                    *)
LEMMA CatalogInductive == CatalogInv /\ [CatalogNext]_catalogVars => CatalogInv'
  <1>1. ASSUME CatalogInv, UNCHANGED catalogVars
        PROVE  CatalogInv'
    BY <1>1 DEF catalogVars, CatalogInv, CatalogTypeOK, Fresh, WritesAddressRowIds
  <1>2. QED
    BY <1>1, LookupKeeps, AlterKeeps, WriteRowsKeeps, SQLiteQueryDDLKeeps, ScanKeeps, DropEntryKeeps,
       CreateKeeps, CreateOrReplaceKeeps, CreateIndexKeeps, EndTransactionKeeps, MadeObjects
       DEF CatalogNext

(* It holds in every state of every behaviour.                              *)
LEMMA CatalogInvariant == CatalogSpec => []CatalogInv
  BY CatalogStart, CatalogInductive, PTL DEF CatalogSpec

(* A cached table is the table of the database, until sqlite_query changes  *)
(* the schema without clearing the cache.                                   *)
THEOREM CachedTablesAreFresh == CatalogSpec => []TableEntriesFresh
  <1>1. CatalogInv => TableEntriesFresh
    BY DEF CatalogInv, Fresh, TableEntriesFresh
  <1>2. QED
    BY <1>1, CatalogInvariant, PTL

(* UPDATE and DELETE find their rows by row id, whatever sqlite_query did   *)
(* to the columns that the cache shows.                                     *)
THEOREM RowIdsAreAddressed == CatalogSpec => []WritesAddressRowIds
  <1>1. CatalogInv => WritesAddressRowIds
    BY DEF CatalogInv
  <1>2. QED
    BY <1>1, CatalogInvariant, PTL
=============================================================================
