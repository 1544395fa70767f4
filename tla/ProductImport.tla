--------------------------- MODULE ProductImport ---------------------------
(***************************************************************************)
(* The import of products from a CSV file.  One request creates a job,     *)
(* validates its file and imports it, in three transactions; the import is *)
(* one transaction with a savepoint per row.  Requests of one store run    *)
(* side by side, and the merchant adds, edits and deletes products         *)
(* meanwhile: only the unique constraint on the SKU, which makes an insert *)
(* wait for an uncommitted one, stands between them.  Processes die,       *)
(* storage fails, and the database breaks deadlocks.                       *)
(***************************************************************************)
EXTENDS Integers, Sequences, FiniteSets, FiniteSetsExt

CONSTANTS
  Jobs,       \* requests, each with the job it creates
  Names,      \* what SKUs are generated from
  Files,      \* the files that can be uploaded
  MaxSuffix,  \* bound on the number that ends a SKU
  Manual,     \* SKUs the merchant may give a product by hand
  NoJob       \* stands for the merchant where a product names its job

Skus == Names \X (1 .. MaxSuffix)

\* A row has a name, the number of its explicit SKU (0: it has none), and is
\* otherwise well formed or not.
Rows == [name : Names, number : 0 .. MaxSuffix, valid : BOOLEAN]

ASSUME FilesAssumption == Files \subseteq Seq(Rows)
ASSUME ManualAssumption == Manual \subseteq Skus
ASSUME JobsAssumption == NoJob \notin Jobs

VARIABLES
  products,   \* the committed products of the store
  status,     \* per job: ImportJob.status
  counts,     \* per job: total_rows, success_rows, failed_rows
  errors,     \* per job: numbers of the rows that have an ImportRowError
  file,       \* per job: the file at original_file_path
  pc,         \* per job: where its request is
  run,        \* per job: the locals and the uncommitted rows of its import
  taken,      \* history, per job: SKUs refused as those of other products
  lost,       \* history, per job: SKUs of inserts that failed otherwise
  freed,      \* history, per job: SKUs that products gave up after it had come to know them
  removed     \* history: the imported products that were deleted

vars == <<products, status, counts, errors, file, pc, run, taken, lost, freed, removed>>
merchant == <<freed, removed>>

Statuses == {"none", "CREATED", "VALIDATING", "COMPLETED", "FAILED"}
NoCounts == [total |-> 0, success |-> 0, failed |-> 0]
Products == [sku : Skus, job : Jobs \cup {NoJob}, row : Nat]

\* existing_skus, the row at hand and its SKU, what the transaction inserted.
NoRun == [known |-> {}, row |-> 0, inserted |-> {}, failed |-> {}, counted |-> 0]
Runs == [known : SUBSET Skus, row : Nat, inserted : SUBSET Products,
         failed : SUBSET Nat, counted : Nat]

Goto(j, where) == pc' = [pc EXCEPT ![j] = where]
SkusOf(set) == {p.sku : p \in set}

Explicit(row) == <<row.name, row.number>>
Generated(row, known) ==
  <<row.name, Min({n \in 1 .. MaxSuffix : <<row.name, n>> \notin known})>>

-----------------------------------------------------------------------------
(* The request: create and validate *)

\* A job that cannot be stored leaves no row behind.
CreateJob(j, f) ==
  /\ pc[j] = "idle"
  /\ file' = [file EXCEPT ![j] = f]
  /\ status' = [status EXCEPT ![j] = "CREATED"]
  /\ Goto(j, "created")
  /\ UNCHANGED <<products, counts, errors, run, taken, lost, merchant>>

\* A row is refused for its content, or for a SKU that a product or an
\* earlier row of the file has: a row that is itself refused for its content
\* keeps its SKU for itself.
Invalid(f, existing) ==
  {i \in DOMAIN f :
     \/ ~f[i].valid
     \/ /\ f[i].number # 0
        /\ \/ Explicit(f[i]) \in existing
           \/ \E h \in 1 .. i - 1 : f[h].number # 0 /\ Explicit(f[h]) = Explicit(f[i])}

Validate(j) ==
  LET bad == Invalid(file[j], SkusOf(products)) IN
  /\ pc[j] = "created"
  /\ errors' = [errors EXCEPT ![j] = bad]
  /\ status' = [status EXCEPT ![j] = "VALIDATING"]
  /\ counts' = [counts EXCEPT ![j] =
       [total |-> Len(file[j]), success |-> Len(file[j]) - Cardinality(bad),
        failed |-> Cardinality(bad)]]
  /\ Goto(j, "validated")
  /\ UNCHANGED <<products, file, run, taken, lost, merchant>>

\* The columns are missing: FAILED is written, and rolled back by the
\* exception that reports it.
RefuseFile(j) ==
  /\ pc[j] = "created"
  /\ Goto(j, "over")
  /\ UNCHANGED <<products, status, counts, errors, file, run, taken, lost, merchant>>

-----------------------------------------------------------------------------
(* RunImportJobUseCase.execute *)

StartRun(j) ==
  /\ pc[j] = "validated"
  /\ run' = [run EXCEPT ![j] =
       [NoRun EXCEPT !.known = SkusOf(products), !.row = 1, !.counted = counts[j].failed]]
  /\ Goto(j, "row")
  /\ UNCHANGED <<products, status, counts, errors, file, taken, lost, merchant>>

Current(j) == file[j][run[j].row]

\* Fault: the search for a free SKU tries the first one again and again.
HasRowSearching(j) ==
  /\ pc[j] = "row" /\ run[j].row <= Len(file[j])
  /\ ~(Current(j).number = 0 /\ <<Current(j).name, 1>> \in run[j].known)

HasRow(j) == pc[j] = "row" /\ run[j].row <= Len(file[j])

SkipRow(j) ==
  /\ HasRow(j)
  /\ run[j].row \in errors[j]
  /\ run' = [run EXCEPT ![j].row = @ + 1]
  /\ UNCHANGED <<products, status, counts, errors, file, pc, taken, lost, merchant>>

RowSku(j) ==
  IF Current(j).number = 0 THEN Generated(Current(j), run[j].known) ELSE Explicit(Current(j))

\* The savepoint is rolled back and the error recorded; existing_skus keeps the
\* SKU of the row.
RowFailed(r, sku) ==
  [r EXCEPT !.row = @ + 1, !.failed = @ \cup {r.row}, !.counted = @ + 1,
            !.known = @ \cup {sku}]

RefuseKnown(j) ==
  /\ HasRow(j)
  /\ run[j].row \notin errors[j]
  /\ RowSku(j) \in run[j].known
  /\ run' = [run EXCEPT ![j] = RowFailed(run[j], RowSku(j))]
  /\ taken' = [taken EXCEPT ![j] = @ \cup {RowSku(j)}]
  /\ UNCHANGED <<products, status, counts, errors, file, pc, lost, merchant>>

\* Fault: the rows that the validation refused are tried as well.
InsertingAny(j) ==
  /\ HasRow(j)
  /\ RowSku(j) \notin run[j].known

\* The insert of a SKU this import has not seen.  MaxSuffix bounds the search for
\* a free one.
Inserting(j) ==
  /\ HasRow(j)
  /\ run[j].row \notin errors[j]
  /\ RowSku(j) \in Skus \ run[j].known

Others(j) == Jobs \ {j}
Holds(i, sku) == pc[i] = "row" /\ sku \in SkusOf(run[i].inserted)
Committed(sku) == sku \in SkusOf(products)
InFlight(j) == \E i \in Others(j) : Holds(i, RowSku(j))

NewProduct(j) == [sku |-> RowSku(j), job |-> j, row |-> run[j].row]

RowInserted(r, product) ==
  [r EXCEPT !.row = @ + 1, !.known = @ \cup {product.sku}, !.inserted = @ \cup {product}]

InsertInto(j) ==
  /\ run' = [run EXCEPT ![j] = RowInserted(run[j], NewProduct(j))]
  /\ UNCHANGED <<products, status, counts, errors, file, pc, taken, lost, merchant>>

\* Fault: no unique constraint covers what is not committed yet.
InsertUnchecked(j) ==
  /\ Inserting(j)
  /\ ~Committed(RowSku(j))
  /\ InsertInto(j)

\* An insert waits while another transaction holds its SKU.
Insert(j) ==
  /\ Inserting(j)
  /\ ~Committed(RowSku(j))
  /\ ~InFlight(j)
  /\ InsertInto(j)

InsertFails(j) == run' = [run EXCEPT ![j] = RowFailed(run[j], RowSku(j))]

\* Fault: a SKU another import has in flight is refused at once.
RefuseUncommitted(j) ==
  /\ Inserting(j)
  /\ Committed(RowSku(j)) \/ InFlight(j)
  /\ InsertFails(j)
  /\ taken' = [taken EXCEPT ![j] = @ \cup {RowSku(j)}]
  /\ UNCHANGED <<products, status, counts, errors, file, pc, lost, merchant>>

\* IntegrityError.
RefuseCommitted(j) ==
  /\ Inserting(j)
  /\ Committed(RowSku(j))
  /\ InsertFails(j)
  /\ taken' = [taken EXCEPT ![j] = @ \cup {RowSku(j)}]
  /\ UNCHANGED <<products, status, counts, errors, file, pc, lost, merchant>>

\* Saving the picture or the inventory fails.
StorageFails(j) ==
  /\ Inserting(j)
  /\ InsertFails(j)
  /\ lost' = [lost EXCEPT ![j] = @ \cup {RowSku(j)}]
  /\ UNCHANGED <<products, status, counts, errors, file, pc, taken, merchant>>

WaitsFor(j) == {i \in Others(j) : Inserting(j) /\ Holds(i, RowSku(j))}
Deadlocked(j) == \E S \in SUBSET Jobs : j \in S /\ UNION {WaitsFor(i) : i \in S} = S

\* The database fails one of the inserts that wait for each other.
BreakDeadlock(j) ==
  /\ Inserting(j) /\ Deadlocked(j)
  /\ InsertFails(j)
  /\ lost' = [lost EXCEPT ![j] = @ \cup {RowSku(j)}]
  /\ UNCHANGED <<products, status, counts, errors, file, pc, taken, merchant>>

\* Fault: success_rows keeps what the validation expected.
FinishRunExpected(j) ==
  /\ pc[j] = "row" /\ run[j].row > Len(file[j])
  /\ products' = products \cup run[j].inserted
  /\ errors' = [errors EXCEPT ![j] = @ \cup run[j].failed]
  /\ counts' = [counts EXCEPT ![j].failed = run[j].counted]
  /\ status' = [status EXCEPT ![j] = IF run[j].inserted # {} THEN "COMPLETED" ELSE "FAILED"]
  /\ run' = [run EXCEPT ![j] = NoRun]
  /\ Goto(j, "over")
  /\ UNCHANGED <<file, taken, lost, merchant>>

FinishRun(j) ==
  /\ pc[j] = "row" /\ run[j].row > Len(file[j])
  /\ products' = products \cup run[j].inserted
  /\ errors' = [errors EXCEPT ![j] = @ \cup run[j].failed]
  /\ counts' = [counts EXCEPT ![j].failed = run[j].counted,
                              ![j].success = Cardinality(run[j].inserted)]
  /\ status' = [status EXCEPT ![j] = IF run[j].inserted # {} THEN "COMPLETED" ELSE "FAILED"]
  /\ run' = [run EXCEPT ![j] = NoRun]
  /\ Goto(j, "over")
  /\ UNCHANGED <<file, taken, lost, merchant>>

-----------------------------------------------------------------------------
(* What surrounds the requests *)

\* The process dies, or an error leaves the transaction: the job stays as
\* the last commit left it, and nothing takes it up again.
Crash(j) ==
  /\ pc[j] \in {"created", "validated", "row"}
  /\ run' = [run EXCEPT ![j] = NoRun]
  /\ Goto(j, "over")
  /\ UNCHANGED <<products, status, counts, errors, file, taken, lost, merchant>>

\* The merchant adds a product; its insert waits like that of an import.
CreateProduct(sku) ==
  /\ ~Committed(sku)
  /\ \A j \in Jobs : ~Holds(j, sku)
  /\ products' = products \cup {[sku |-> sku, job |-> NoJob, row |-> 0]}
  /\ UNCHANGED <<status, counts, errors, file, pc, run, taken, lost, merchant>>

\* A product has its SKU no more; no import that knows or refused it learns of that.
GivesUp(sku) ==
  freed' = [j \in Jobs |->
              IF sku \in run[j].known \cup taken[j] THEN freed[j] \cup {sku} ELSE freed[j]]

\* The merchant gives a product another SKU, in the form or through the API.
EditProduct(p, sku) ==
  /\ ~Committed(sku)
  /\ \A j \in Jobs : ~Holds(j, sku)
  /\ products' = (products \ {p}) \cup {[p EXCEPT !.sku = sku]}
  /\ GivesUp(p.sku)
  /\ UNCHANGED <<status, counts, errors, file, pc, run, taken, lost, removed>>

\* In the administration.
DeleteProduct(p) ==
  /\ products' = products \ {p}
  /\ removed' = IF p.job \in Jobs THEN removed \cup {p} ELSE removed
  /\ GivesUp(p.sku)
  /\ UNCHANGED <<status, counts, errors, file, pc, run, taken, lost>>

Init ==
  /\ products = {}
  /\ status = [j \in Jobs |-> "none"]
  /\ counts = [j \in Jobs |-> NoCounts]
  /\ errors = [j \in Jobs |-> {}]
  /\ file = [j \in Jobs |-> <<>>]
  /\ pc = [j \in Jobs |-> "idle"]
  /\ run = [j \in Jobs |-> NoRun]
  /\ taken = [j \in Jobs |-> {}]
  /\ lost = [j \in Jobs |-> {}]
  /\ freed = [j \in Jobs |-> {}]
  /\ removed = {}

Step(j) ==
  \/ Validate(j)
  \/ StartRun(j)
  \/ SkipRow(j)
  \/ RefuseKnown(j)
  \/ Insert(j)
  \/ RefuseCommitted(j)
  \/ BreakDeadlock(j)
  \/ FinishRun(j)

Next ==
  \/ \E j \in Jobs : Step(j)
  \/ \E j \in Jobs, f \in Files : CreateJob(j, f)
  \/ \E j \in Jobs : RefuseFile(j) \/ StorageFails(j) \/ Crash(j)
  \/ \E sku \in Manual : CreateProduct(sku) \/ \E p \in products : EditProduct(p, sku)
  \/ \E p \in products : DeleteProduct(p)

Spec == Init /\ [][Next]_vars

\* A request that runs goes on and the database breaks deadlocks; no fault
\* has to happen, so that what an insert waits for has to end by itself.
FairSpec == Spec /\ \A j \in Jobs : WF_vars(Step(j))

-----------------------------------------------------------------------------
(* Properties *)

\* Types; an import never takes up a row that the validation refused.
TypeOK ==
  /\ products \subseteq Products
  /\ status \in [Jobs -> Statuses]
  /\ counts \in [Jobs -> [total : Nat, success : Nat, failed : Nat]]
  /\ errors \in [Jobs -> SUBSET Nat]
  /\ file \in [Jobs -> Files \cup {<<>>}]
  /\ pc \in [Jobs -> {"idle", "created", "validated", "row", "over"}]
  /\ run \in [Jobs -> Runs]
  /\ taken \in [Jobs -> SUBSET Skus] /\ lost \in [Jobs -> SUBSET Skus]
  /\ freed \in [Jobs -> SUBSET Skus] /\ removed \subseteq Products
  /\ \A j \in Jobs : errors[j] \subseteq DOMAIN file[j] /\ run[j].failed \cap errors[j] = {}

\* Two products of a store never share a SKU, whichever imports ran side by
\* side and whatever the merchant added or edited meanwhile.
SkuOnce == \A p, q \in products : p.sku = q.sku => p = q

\* The products an import made.
Imported(j) == {p \in products \cup removed : p.job = j}

\* When an import has ended, each row of its file became one product, whatever the
\* merchant has done with it since, or has an error, and the counts of the job say
\* how many of each and add up.
RowsAreAccounted ==
  \A j \in Jobs :
    status[j] \in {"COMPLETED", "FAILED"} =>
      /\ {p.row : p \in Imported(j)} = DOMAIN file[j] \ errors[j]
      /\ Cardinality(Imported(j)) = counts[j].success
      /\ Cardinality(errors[j]) = counts[j].failed
      /\ counts[j].total = Len(file[j])
      /\ counts[j].total = counts[j].success + counts[j].failed

\* A row that an import refuses as a duplicate is one: a product has its SKU, unless
\* an insert of that SKU failed in the import, or a product gave the SKU up after the
\* import had read or refused it: existing_skus is not read again.
RefusedSkuIsTaken ==
  \A j \in Jobs :
    status[j] \in {"COMPLETED", "FAILED"} =>
      taken[j] \subseteq SkusOf(products) \cup lost[j] \cup freed[j]

\* Imports that wait for each other's rows do not wait for ever.
ImportsEnd == \A j \in Jobs : pc[j] = "created" ~> pc[j] = "over"
=============================================================================
