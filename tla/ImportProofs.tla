---------------------------- MODULE ImportProofs ----------------------------
(***************************************************************************)
(* ProductImport, for every set of jobs, names and files: products keep    *)
(* different SKUs, every row of an import that ended is accounted for, and *)
(* a row refused as a duplicate is one, or was when the import looked.     *)
(* The inductive invariant says that the uncommitted inserts of imports    *)
(* that run are apart from each other and from the committed ones, what    *)
(* each import has done with the rows behind it, and that an imported      *)
(* product is still there or was deleted, whatever its SKU is by now.      *)
(***************************************************************************)
EXTENDS ProductImport, FiniteSetTheorems, TLAPS

Ended == {"COMPLETED", "FAILED"}

\* How far a request is, what it has read and whom its rows belong to.
LifeOK ==
  /\ \A j \in Jobs : pc[j] # "row" => run[j] = NoRun
  /\ \A j \in Jobs : pc[j] \in {"idle", "created"} => errors[j] = {}
  /\ \A j \in Jobs : pc[j] \in {"idle", "created", "validated"} => taken[j] = {}
  /\ \A j \in Jobs : status[j] \in Ended => pc[j] = "over"

\* What imports made: one product a row, which is there or was deleted.
ImportedOK ==
  /\ products \cap removed = {}
  /\ \A p \in removed : p.job \in Jobs
  /\ \A j \in Jobs :
       /\ IsFiniteSet(Imported(j))
       /\ \A p, q \in Imported(j) : p.row = q.row => p = q
       /\ Imported(j) # {} => status[j] \in Ended

SkusOK ==
  /\ \A p, q \in products : p.sku = q.sku => p = q
  /\ \A j \in Jobs :
       /\ \A p \in run[j].inserted : p.job = j /\ p.sku \in run[j].known
       /\ \A p, q \in run[j].inserted : p.sku = q.sku => p = q
       /\ \A p \in run[j].inserted, q \in products : p.sku # q.sku
  /\ \A i, j \in Jobs : i # j =>
       \A p \in run[i].inserted, q \in run[j].inserted : p.sku # q.sku

RowsOf(set) == {p.row : p \in set}

\* What an import r of a file of n rows, e of which were refused before it, has done
\* with the rows before the one at hand.
Accounts(r, e, n) ==
  LET done == 1 .. r.row - 1 IN
  /\ r.row \in 1 .. n + 1
  /\ IsFiniteSet(r.failed) /\ IsFiniteSet(r.inserted)
  /\ r.failed \subseteq done /\ RowsOf(r.inserted) \subseteq done
  /\ r.failed \cap e = {}
  /\ RowsOf(r.inserted) \cap (e \cup r.failed) = {}
  /\ \A p, q \in r.inserted : p.row = q.row => p = q
  /\ done \subseteq e \cup r.failed \cup RowsOf(r.inserted)
  /\ r.counted = Cardinality(e \cup r.failed)
  /\ Cardinality(r.inserted) + Cardinality(r.failed) + Cardinality(e \cap done) = r.row - 1

RowsOK ==
  \A j \in Jobs :
    /\ pc[j] \in {"validated", "row"} =>
         /\ counts[j].total = Len(file[j])
         /\ IsFiniteSet(errors[j]) /\ counts[j].failed = Cardinality(errors[j])
    /\ pc[j] = "row" => Accounts(run[j], errors[j], Len(file[j]))

\* What an import holds against a SKU is true, was true, or is one of its own faults.
RefusedOK ==
  \A j \in Jobs : pc[j] = "row" =>
    run[j].known \cup taken[j] \subseteq
      SkusOf(products) \cup SkusOf(run[j].inserted) \cup lost[j] \cup freed[j]

IInv ==
  /\ TypeOK /\ LifeOK /\ ImportedOK /\ SkusOK /\ RowsOK /\ RefusedOK
  /\ RowsAreAccounted /\ RefusedSkuIsTaken

USE DEF merchant

LEMMA Types ==
  ASSUME TypeOK
  PROVE  /\ products \subseteq Products
         /\ status \in [Jobs -> Statuses]
         /\ counts \in [Jobs -> [total : Nat, success : Nat, failed : Nat]]
         /\ errors \in [Jobs -> SUBSET Nat]
         /\ file \in [Jobs -> Files \cup {<<>>}]
         /\ pc \in [Jobs -> {"idle", "created", "validated", "row", "over"}]
         /\ run \in [Jobs -> Runs]
         /\ taken \in [Jobs -> SUBSET Skus]
         /\ lost \in [Jobs -> SUBSET Skus]
         /\ freed \in [Jobs -> SUBSET Skus]
         /\ removed \subseteq Products
BY DEF TypeOK

LEMMA FileType ==
  ASSUME TypeOK, NEW j \in Jobs
  PROVE  /\ file[j] \in Seq(Rows)
         /\ Len(file[j]) \in Nat
         /\ DOMAIN file[j] = 1 .. Len(file[j])
<1>1. file[j] \in Files \cup {<<>>}
  BY Types
<1>2. <<>> \in Seq(Rows)
  OBVIOUS
<1>3. Files \subseteq Seq(Rows)
  BY FilesAssumption
<1>4. file[j] \in Seq(Rows)
  BY <1>1, <1>2, <1>3
<1> QED BY <1>4

LEMMA NoRunType == NoRun \in Runs
BY DEF NoRun, Runs

LEMMA InitIInv == Init => IInv
<1> SUFFICES ASSUME Init PROVE IInv
  OBVIOUS
<1>1. TypeOK
  BY NoRunType DEF Init, TypeOK, Statuses, NoCounts, NoRun
<1>2. LifeOK /\ SkusOK
  BY DEF Init, LifeOK, SkusOK, NoRun, Ended
<1>4. ImportedOK
  <2>1. \A j \in Jobs : Imported(j) = {}
    BY DEF Init, Imported
  <2> QED BY <2>1, FS_EmptySet DEF Init, ImportedOK
<1>3. RowsOK /\ RefusedOK /\ RowsAreAccounted /\ RefusedSkuIsTaken
  BY DEF Init, RowsOK, RefusedOK, RowsAreAccounted, RefusedSkuIsTaken
<1> QED BY <1>1, <1>2, <1>3, <1>4 DEF IInv

-----------------------------------------------------------------------------
(* The request around the import *)

\* A step of job j that neither imports nor ends an import.
LEMMA OutsideStep ==
  ASSUME IInv, NEW j \in Jobs, pc[j] \in {"idle", "created", "validated"} \/ pc'[j] = "over",
         status[j] \notin Ended, status'[j] \notin Ended, pc'[j] # "row",
         UNCHANGED <<products, taken, lost, freed, removed>>, run'[j] = NoRun,
         \A i \in Jobs \ {j} :
           /\ status'[i] = status[i] /\ pc'[i] = pc[i] /\ errors'[i] = errors[i]
           /\ counts'[i] = counts[i] /\ file'[i] = file[i] /\ run'[i] = run[i]
  PROVE  /\ ImportedOK' /\ SkusOK' /\ RefusedOK' /\ RowsAreAccounted' /\ RefusedSkuIsTaken'
<1>1. SkusOK'
  <2>1. \A i \in Jobs : run'[i].inserted \subseteq run[i].inserted /\ 
                        (run'[i] = run[i] \/ run'[i].inserted = {})
    BY DEF NoRun
  <2> QED BY <2>1 DEF IInv, SkusOK
<1>2. RefusedOK'
  BY DEF IInv, RefusedOK
<1>3. RowsAreAccounted'
  <2> SUFFICES ASSUME NEW i \in Jobs, status'[i] \in {"COMPLETED", "FAILED"}
               PROVE  RowsAreAccounted!(i)!2'
    BY DEF RowsAreAccounted
  <2>1. i # j /\ Imported(i)' = Imported(i)
    BY DEF Ended, Imported
  <2> QED BY <2>1 DEF IInv, RowsAreAccounted
<1>4. RefusedSkuIsTaken'
  BY DEF IInv, RefusedSkuIsTaken, Ended
<1>5. ImportedOK'
  <2>1. \A i \in Jobs : Imported(i)' = Imported(i)
    BY DEF Imported
  <2>2. \A i \in Jobs : status[i] \in Ended => status'[i] \in Ended
    OBVIOUS
  <2> QED BY <2>1, <2>2 DEF IInv, ImportedOK
<1> QED BY <1>1, <1>2, <1>3, <1>4, <1>5

\* The rest of such a step: the types, the life of the job and its counts.
LEMMA CreateJobIInv ==
  ASSUME IInv, NEW j \in Jobs, NEW f \in Files, CreateJob(j, f)
  PROVE  IInv'
<1> USE DEF CreateJob, Goto
<1>0. TypeOK
  BY DEF IInv
<1>1. pc[j] = "idle" /\ errors[j] = {} /\ run[j] = NoRun /\ status[j] \notin Ended
  BY DEF IInv, LifeOK
<1>2. TypeOK'
  BY <1>0, <1>1, Types DEF TypeOK, Statuses
<1>3. LifeOK'
  BY <1>0, <1>1, Types DEF IInv, LifeOK, Ended
<1>4. RowsOK'
  BY <1>0, <1>1, Types DEF IInv, RowsOK
<1>5. /\ ImportedOK' /\ SkusOK' /\ RefusedOK' /\ RowsAreAccounted' /\ RefusedSkuIsTaken'
  <2>1. status'[j] \notin Ended /\ pc'[j] # "row" /\ run'[j] = NoRun
    BY <1>0, <1>1, Types DEF Ended
  <2>2. \A i \in Jobs \ {j} :
          /\ status'[i] = status[i] /\ pc'[i] = pc[i] /\ errors'[i] = errors[i]
          /\ counts'[i] = counts[i] /\ file'[i] = file[i] /\ run'[i] = run[i]
    BY <1>0, Types
  <2> QED BY <1>1, <2>1, <2>2, OutsideStep
<1> QED BY <1>2, <1>3, <1>4, <1>5 DEF IInv

LEMMA ValidateIInv ==
  ASSUME IInv, NEW j \in Jobs, Validate(j)
  PROVE  IInv'
<1> DEFINE bad == Invalid(file[j], SkusOf(products))
           n == Len(file[j])
<1>0. TypeOK
  BY DEF IInv
<1>1. /\ pc[j] = "created" /\ pc' = [pc EXCEPT ![j] = "validated"]
      /\ errors' = [errors EXCEPT ![j] = bad]
      /\ status' = [status EXCEPT ![j] = "VALIDATING"]
      /\ counts' = [counts EXCEPT ![j] =
           [total |-> n, success |-> n - Cardinality(bad), failed |-> Cardinality(bad)]]
      /\ UNCHANGED <<products, file, run, taken, lost, freed, removed>>
  BY DEF Validate, Goto
<1>2. run[j] = NoRun /\ status[j] \notin Ended
  BY <1>1 DEF IInv, LifeOK
<1>3. n \in Nat /\ DOMAIN file[j] = 1 .. n
  BY <1>0, FileType
<1>4. bad \subseteq 1 .. n
  BY <1>3 DEF Invalid
<1>5. IsFiniteSet(bad) /\ Cardinality(bad) \in Nat /\ n - Cardinality(bad) \in Nat
  <2>1. IsFiniteSet(1 .. n) /\ Cardinality(1 .. n) = n
    BY <1>3, FS_Interval
  <2>2. IsFiniteSet(bad) /\ Cardinality(bad) <= n
    BY <1>4, <2>1, FS_Subset
  <2>3. Cardinality(bad) \in Nat
    BY <2>2, FS_CardinalityType
  <2> QED BY <1>3, <2>2, <2>3
<1> HIDE DEF bad
<1>6. TypeOK'
  <2>1. bad \in SUBSET Nat
    BY <1>3, <1>4
  <2>2. /\ errors' \in [Jobs -> SUBSET Nat]
        /\ counts' \in [Jobs -> [total : Nat, success : Nat, failed : Nat]]
    BY <1>0, <1>1, <1>3, <1>5, <2>1, Types
  <2>3. \A i \in Jobs : errors'[i] \subseteq DOMAIN file[i] /\ run[i].failed \cap errors'[i] = {}
    <3> SUFFICES ASSUME NEW i \in Jobs
                 PROVE  errors'[i] \subseteq DOMAIN file[i] /\ run[i].failed \cap errors'[i] = {}
      OBVIOUS
    <3>1. CASE i = j
      <4>1. errors'[i] = bad
        BY <1>0, <1>1, <3>1, Types
      <4>2. run[i].failed = {}
        BY <1>2, <3>1 DEF NoRun
      <4> QED BY <1>3, <1>4, <3>1, <4>1, <4>2
    <3>2. CASE i # j
      <4>1. errors'[i] = errors[i]
        BY <1>0, <1>1, <3>2, Types
      <4> QED BY <1>0, <4>1 DEF TypeOK
    <3> QED BY <3>1, <3>2
  <2> QED BY <1>0, <1>1, <2>2, <2>3, Types DEF TypeOK, Statuses
<1>7. LifeOK'
  BY <1>0, <1>1, <1>2, Types DEF IInv, LifeOK, Ended
<1>8. RowsOK'
  <2> SUFFICES ASSUME NEW i \in Jobs PROVE RowsOK!(i)'
    BY DEF RowsOK
  <2>1. CASE i = j
    BY <1>0, <1>1, <1>5, <2>1, Types
  <2>2. CASE i # j
    <3>1. /\ pc'[i] = pc[i] /\ errors'[i] = errors[i] /\ counts'[i] = counts[i]
          /\ file'[i] = file[i] /\ run'[i] = run[i]
      BY <1>0, <1>1, <2>2, Types
    <3> QED BY <3>1 DEF IInv, RowsOK
  <2> QED BY <2>1, <2>2
<1>9. /\ ImportedOK' /\ SkusOK' /\ RefusedOK' /\ RowsAreAccounted' /\ RefusedSkuIsTaken'
  <2>1. status'[j] \notin Ended /\ pc'[j] # "row" /\ run'[j] = NoRun
    BY <1>0, <1>1, <1>2, Types DEF Ended
  <2>2. \A i \in Jobs \ {j} :
          /\ status'[i] = status[i] /\ pc'[i] = pc[i] /\ errors'[i] = errors[i]
          /\ counts'[i] = counts[i] /\ file'[i] = file[i] /\ run'[i] = run[i]
    BY <1>0, <1>1, Types
  <2> QED BY <1>1, <1>2, <2>1, <2>2, OutsideStep
<1> QED BY <1>6, <1>7, <1>8, <1>9 DEF IInv

\* The request ends without an import: a file with no columns, or a crash.
LEMMA GivenUp ==
  ASSUME IInv, NEW j \in Jobs, pc[j] \in {"created", "validated", "row"},
         run' = [run EXCEPT ![j] = NoRun], pc' = [pc EXCEPT ![j] = "over"],
         UNCHANGED <<products, status, counts, errors, file, taken, lost, freed, removed>>
  PROVE  IInv'
<1>0. TypeOK
  BY DEF IInv
<1>1. status[j] \notin Ended
  BY DEF IInv, LifeOK
<1>2. TypeOK'
  BY <1>0, NoRunType, Types DEF TypeOK, NoRun
<1>3. LifeOK'
  BY <1>0, <1>1, Types DEF IInv, LifeOK
<1>4. RowsOK'
  <2> SUFFICES ASSUME NEW i \in Jobs PROVE RowsOK!(i)'
    BY DEF RowsOK
  <2>1. CASE i = j
    BY <1>0, <2>1, Types
  <2>2. CASE i # j
    <3>1. pc'[i] = pc[i] /\ run'[i] = run[i]
      BY <1>0, <2>2, Types
    <3> QED BY <3>1 DEF IInv, RowsOK
  <2> QED BY <2>1, <2>2
<1>5. /\ ImportedOK' /\ SkusOK' /\ RefusedOK' /\ RowsAreAccounted' /\ RefusedSkuIsTaken'
  <2>1. status'[j] \notin Ended /\ pc'[j] = "over" /\ run'[j] = NoRun
    BY <1>0, <1>1, Types
  <2>2. \A i \in Jobs \ {j} :
          /\ status'[i] = status[i] /\ pc'[i] = pc[i] /\ errors'[i] = errors[i]
          /\ counts'[i] = counts[i] /\ file'[i] = file[i] /\ run'[i] = run[i]
    BY <1>0, Types
  <2> QED BY <1>1, <2>1, <2>2, OutsideStep
<1> QED BY <1>2, <1>3, <1>4, <1>5 DEF IInv

LEMMA RefuseFileIInv ==
  ASSUME IInv, NEW j \in Jobs, RefuseFile(j)
  PROVE  IInv'
<1>1. run[j] = NoRun
  BY DEF IInv, LifeOK, RefuseFile
<1>2. run' = [run EXCEPT ![j] = NoRun]
  BY <1>1 DEF RefuseFile, IInv, TypeOK
<1> QED BY <1>2, GivenUp DEF RefuseFile, Goto

LEMMA CrashIInv ==
  ASSUME IInv, NEW j \in Jobs, Crash(j)
  PROVE  IInv'
BY GivenUp DEF Crash, Goto

-----------------------------------------------------------------------------
(* The import *)

LEMMA StartRunIInv ==
  ASSUME IInv, NEW j \in Jobs, StartRun(j)
  PROVE  IInv'
<1> DEFINE r == [NoRun EXCEPT !.known = SkusOf(products), !.row = 1, !.counted = counts[j].failed]
<1>0. TypeOK
  BY DEF IInv
<1>1. /\ pc[j] = "validated" /\ pc' = [pc EXCEPT ![j] = "row"]
      /\ run' = [run EXCEPT ![j] = r]
      /\ UNCHANGED <<products, status, counts, errors, file, taken, lost, freed, removed>>
  BY DEF StartRun, Goto
<1>2. /\ r.known = SkusOf(products) /\ r.row = 1 /\ r.inserted = {} /\ r.failed = {}
      /\ r.counted = counts[j].failed
  BY DEF NoRun
<1>3. r \in Runs
  <2>1. SkusOf(products) \subseteq Skus
    BY <1>0, Types DEF SkusOf, Products
  <2>2. counts[j].failed \in Nat
    BY <1>0, Types
  <2> QED BY <2>1, <2>2 DEF NoRun, Runs
<1> HIDE DEF r
<1>4. /\ run'[j] = r /\ pc'[j] = "row"
      /\ \A i \in Jobs \ {j} : run'[i] = run[i] /\ pc'[i] = pc[i]
  BY <1>0, <1>1, Types
<1>5. TypeOK'
  BY <1>0, <1>1, <1>2, <1>3, <1>4, Types DEF TypeOK
<1>6. LifeOK'
  BY <1>1, <1>4 DEF IInv, LifeOK
<1>7. SkusOK'
  <2>1. \A i \in Jobs : run'[i] = run[i] \/ run'[i].inserted = {}
    BY <1>2, <1>4
  <2> QED BY <1>1, <2>1 DEF IInv, SkusOK
<1>8. RowsOK'
  <2> SUFFICES ASSUME NEW i \in Jobs PROVE RowsOK!(i)'
    BY DEF RowsOK
  <2>1. CASE i = j
    <3> DEFINE done == 1 .. r.row - 1
    <3>1. done = {} /\ Len(file[j]) \in Nat
      BY <1>0, <1>2, FileType
    <3>2. /\ counts[j].total = Len(file[j])
          /\ IsFiniteSet(errors[j]) /\ counts[j].failed = Cardinality(errors[j])
      BY <1>1 DEF IInv, RowsOK
    <3>3. IsFiniteSet({}) /\ Cardinality({}) = 0
      BY FS_EmptySet
    <3>4. /\ r.row \in 1 .. Len(file[j]) + 1
          /\ IsFiniteSet(r.failed) /\ IsFiniteSet(r.inserted)
          /\ r.failed \subseteq done /\ RowsOf(r.inserted) \subseteq done
          /\ r.failed \cap errors[j] = {}
          /\ RowsOf(r.inserted) \cap (errors[j] \cup r.failed) = {}
          /\ \A p, q \in r.inserted : p.row = q.row => p = q
          /\ done \subseteq errors[j] \cup r.failed \cup RowsOf(r.inserted)
      BY <1>2, <3>1, <3>3 DEF RowsOf
    <3>5. errors[j] \cup r.failed = errors[j] /\ errors[j] \cap done = {}
      BY <1>2, <3>1
    <3>6. r.counted = Cardinality(errors[j] \cup r.failed)
      BY <1>2, <3>2, <3>5
    <3>7. Cardinality(r.inserted) + Cardinality(r.failed)
            + Cardinality(errors[j] \cap done) = r.row - 1
      BY <1>2, <3>3, <3>5
    <3>8. Accounts(r, errors[j], Len(file[j]))
      BY <3>4, <3>6, <3>7 DEF Accounts
    <3> QED BY <1>1, <1>4, <2>1, <3>2, <3>8
  <2>2. CASE i # j
    BY <1>1, <1>4, <2>2 DEF IInv, RowsOK
  <2> QED BY <2>1, <2>2
<1>9. RefusedOK'
  <2> SUFFICES ASSUME NEW i \in Jobs PROVE RefusedOK!(i)'
    BY DEF RefusedOK
  <2>1. CASE i = j
    <3>1. taken[j] = {}
      BY <1>1 DEF IInv, LifeOK
    <3> QED BY <1>1, <1>2, <1>4, <2>1, <3>1
  <2>2. CASE i # j
    BY <1>1, <1>4, <2>2 DEF IInv, RefusedOK
  <2> QED BY <2>1, <2>2
<1>10. RowsAreAccounted' /\ RefusedSkuIsTaken' /\ ImportedOK'
  <2>1. \A i \in Jobs : Imported(i)' = Imported(i)
    BY <1>1 DEF Imported
  <2> QED BY <1>1, <2>1 DEF IInv, RowsAreAccounted, RefusedSkuIsTaken, ImportedOK
<1> QED BY <1>5, <1>6, <1>7, <1>8, <1>9, <1>10 DEF IInv

\* A row is done with: skipped, failed or inserted.  What remains to be shown is what
\* the step did to the SKUs and the accounts of its import.
LEMMA RowDone ==
  ASSUME IInv, NEW j \in Jobs, HasRow(j), NEW r \in Runs, run' = [run EXCEPT ![j] = r],
         r.failed \cap errors[j] = {},
         taken' \in [Jobs -> SUBSET Skus], lost' \in [Jobs -> SUBSET Skus],
         \A i \in Jobs \ {j} : taken'[i] = taken[i] /\ lost'[i] = lost[i],
         UNCHANGED <<products, status, counts, errors, file, pc, freed, removed>>,
         SkusOK', Accounts(r, errors[j], Len(file[j])),
         r.known \cup taken'[j] \subseteq
           SkusOf(products) \cup SkusOf(r.inserted) \cup lost'[j] \cup freed[j]
  PROVE  IInv'
<1>0. TypeOK /\ pc[j] = "row"
  BY DEF IInv, HasRow
<1>1. run'[j] = r /\ \A i \in Jobs \ {j} : run'[i] = run[i]
  BY <1>0, Types
<1>2. TypeOK'
  BY <1>0, <1>1, Types DEF TypeOK
<1>3. LifeOK'
  BY <1>0, <1>1 DEF IInv, LifeOK
<1>4. RowsOK'
  <2> SUFFICES ASSUME NEW i \in Jobs PROVE RowsOK!(i)'
    BY DEF RowsOK
  <2>1. CASE i = j
    BY <1>0, <1>1, <2>1 DEF IInv, RowsOK
  <2>2. CASE i # j
    BY <1>1, <2>2 DEF IInv, RowsOK
  <2> QED BY <2>1, <2>2
<1>5. RefusedOK'
  <2> SUFFICES ASSUME NEW i \in Jobs PROVE RefusedOK!(i)'
    BY DEF RefusedOK
  <2>1. CASE i = j
    BY <1>0, <1>1, <2>1
  <2>2. CASE i # j
    BY <1>1, <2>2 DEF IInv, RefusedOK
  <2> QED BY <2>1, <2>2
<1>6. RowsAreAccounted' /\ ImportedOK'
  <2>1. \A i \in Jobs : Imported(i)' = Imported(i)
    BY DEF Imported
  <2> QED BY <2>1 DEF IInv, RowsAreAccounted, ImportedOK
<1>7. RefusedSkuIsTaken'
  <2>1. status[j] \notin Ended
    BY <1>0 DEF IInv, LifeOK
  <2> QED BY <2>1 DEF IInv, RefusedSkuIsTaken, Ended
<1> QED BY <1>2, <1>3, <1>4, <1>5, <1>6, <1>7 DEF IInv

\* The accounts of an import whose next row the validation has refused.
LEMMA SkippedAccounts ==
  ASSUME NEW r \in Runs, NEW e \in SUBSET Nat, NEW n \in Nat, IsFiniteSet(e),
         Accounts(r, e, n), r.row <= n, r.row \in e
  PROVE  Accounts([r EXCEPT !.row = @ + 1], e, n)
<1> DEFINE s == [r EXCEPT !.row = @ + 1]
           done == 1 .. r.row - 1
           next == 1 .. s.row - 1
<1>1. /\ s.row = r.row + 1 /\ s.failed = r.failed /\ s.inserted = r.inserted
      /\ s.counted = r.counted /\ r.row \in Nat /\ r.row >= 1
  BY DEF Runs, Accounts
<1>2. next = done \cup {r.row} /\ r.row \notin done
  BY <1>1
<1>3. e \cap next = (e \cap done) \cup {r.row} /\ r.row \notin e \cap done
  BY <1>2
<1>4. IsFiniteSet(e \cap done)
  BY FS_Subset
<1>5. Cardinality(e \cap next) = Cardinality(e \cap done) + 1
  BY <1>3, <1>4, FS_AddElement
<1>6. /\ Cardinality(r.inserted) \in Nat /\ Cardinality(r.failed) \in Nat
      /\ Cardinality(e \cap done) \in Nat
  BY <1>4, FS_CardinalityType DEF Accounts
<1>7. Cardinality(r.inserted) + Cardinality(r.failed) + Cardinality(e \cap done) = r.row - 1
  BY DEF Accounts
<1>8. Cardinality(s.inserted) + Cardinality(s.failed) + Cardinality(e \cap next) = s.row - 1
  BY <1>1, <1>5, <1>6, <1>7
<1>9. s.row \in 1 .. n + 1
  BY <1>1
<1> HIDE DEF s
<1>10. /\ IsFiniteSet(s.failed) /\ IsFiniteSet(s.inserted)
       /\ s.failed \subseteq next /\ RowsOf(s.inserted) \subseteq next
       /\ s.failed \cap e = {}
       /\ RowsOf(s.inserted) \cap (e \cup s.failed) = {}
       /\ \A p, q \in s.inserted : p.row = q.row => p = q
       /\ next \subseteq e \cup s.failed \cup RowsOf(s.inserted)
       /\ s.counted = Cardinality(e \cup s.failed)
  BY <1>1, <1>2 DEF Accounts
<1>11. Accounts(s, e, n)
  BY <1>8, <1>9, <1>10 DEF Accounts
<1> QED BY <1>11 DEF s

\* The accounts when a row failed.
LEMMA FailedAccounts ==
  ASSUME NEW r \in Runs, NEW s \in Runs, NEW e \in SUBSET Nat, NEW n \in Nat, IsFiniteSet(e),
         Accounts(r, e, n), r.row <= n, r.row \notin e,
         s.row = r.row + 1, s.failed = r.failed \cup {r.row}, s.inserted = r.inserted,
         s.counted = r.counted + 1
  PROVE  Accounts(s, e, n)
<1> DEFINE done == 1 .. r.row - 1
           next == 1 .. s.row - 1
<1>1. r.row \in Nat /\ r.row >= 1
  BY DEF Runs, Accounts
<1>2. next = done \cup {r.row} /\ r.row \notin done
  BY <1>1
<1>3. e \cap next = e \cap done
  BY <1>2
<1>4. IsFiniteSet(r.failed) /\ IsFiniteSet(r.inserted) /\ r.row \notin r.failed
  BY <1>2 DEF Accounts
<1>5. IsFiniteSet(s.failed) /\ Cardinality(s.failed) = Cardinality(r.failed) + 1
  <2>1. /\ IsFiniteSet(r.failed \cup {r.row})
        /\ Cardinality(r.failed \cup {r.row}) = Cardinality(r.failed) + 1
    BY <1>4, FS_AddElement
  <2> QED BY <2>1
<1>6. IsFiniteSet(e \cap done)
  BY FS_Subset
<1>7. /\ Cardinality(r.inserted) \in Nat /\ Cardinality(r.failed) \in Nat
      /\ Cardinality(e \cap done) \in Nat
  BY <1>4, <1>6, FS_CardinalityType
<1>8. Cardinality(r.inserted) + Cardinality(r.failed) + Cardinality(e \cap done) = r.row - 1
  BY DEF Accounts
<1>9. Cardinality(s.inserted) + Cardinality(s.failed) + Cardinality(e \cap next) = s.row - 1
  <2>1. Cardinality(s.inserted) = Cardinality(r.inserted)
    OBVIOUS
  <2>2. Cardinality(e \cap next) = Cardinality(e \cap done)
    BY <1>3
  <2> HIDE DEF done, next
  <2>3. Cardinality(s.failed) = Cardinality(r.failed) + 1
    BY <1>5
  <2>4. s.row - 1 = r.row
    BY <1>1
  <2>5. \A a, b, c \in Nat : a + b + c = r.row - 1 => a + (b + 1) + c = r.row
    BY <1>1
  <2> QED BY <1>7, <1>8, <2>1, <2>2, <2>3, <2>4, <2>5
<1>10. s.counted = Cardinality(e \cup s.failed)
  <2>1. e \cup s.failed = (e \cup r.failed) \cup {r.row} /\ r.row \notin e \cup r.failed
    BY <1>4
  <2>2. IsFiniteSet(e \cup r.failed)
    BY <1>4, FS_Union
  <2>3. Cardinality((e \cup r.failed) \cup {r.row}) = Cardinality(e \cup r.failed) + 1
    BY <2>1, <2>2, FS_AddElement
  <2>4. r.counted = Cardinality(e \cup r.failed)
    BY DEF Accounts
  <2>5. s.counted = Cardinality((e \cup r.failed) \cup {r.row})
    BY <2>3, <2>4
  <2> QED BY <2>1, <2>5
<1>11. /\ s.failed \subseteq next /\ RowsOf(s.inserted) \subseteq next
       /\ s.failed \cap e = {}
       /\ RowsOf(s.inserted) \cap (e \cup s.failed) = {}
       /\ \A p, q \in s.inserted : p.row = q.row => p = q
       /\ next \subseteq e \cup s.failed \cup RowsOf(s.inserted)
  BY <1>2 DEF Accounts
<1>12. s.row \in 1 .. n + 1
  BY <1>1
<1> QED BY <1>4, <1>5, <1>9, <1>10, <1>11, <1>12 DEF Accounts

\* The accounts when a row was inserted.
LEMMA InsertedAccounts ==
  ASSUME NEW r \in Runs, NEW s \in Runs, NEW e \in SUBSET Nat, NEW n \in Nat, IsFiniteSet(e),
         Accounts(r, e, n), r.row <= n, r.row \notin e, NEW p \in Products, p.row = r.row,
         s.row = r.row + 1, s.failed = r.failed, s.inserted = r.inserted \cup {p},
         s.counted = r.counted
  PROVE  Accounts(s, e, n)
<1> DEFINE done == 1 .. r.row - 1
           next == 1 .. s.row - 1
<1>1. r.row \in Nat /\ r.row >= 1
  BY DEF Runs, Accounts
<1>2. next = done \cup {r.row} /\ r.row \notin done
  BY <1>1
<1>3. e \cap next = e \cap done
  BY <1>2
<1>4. RowsOf(s.inserted) = RowsOf(r.inserted) \cup {r.row}
  BY DEF RowsOf
<1>5. p \notin r.inserted
  BY <1>2 DEF Accounts, RowsOf
<1>6. IsFiniteSet(r.failed) /\ IsFiniteSet(r.inserted)
  BY DEF Accounts
<1>7. IsFiniteSet(s.inserted) /\ Cardinality(s.inserted) = Cardinality(r.inserted) + 1
  <2>1. /\ IsFiniteSet(r.inserted \cup {p})
        /\ Cardinality(r.inserted \cup {p}) = Cardinality(r.inserted) + 1
    BY <1>5, <1>6, FS_AddElement
  <2> QED BY <2>1
<1>8. IsFiniteSet(e \cap done)
  BY FS_Subset
<1>9. /\ Cardinality(r.inserted) \in Nat /\ Cardinality(r.failed) \in Nat
      /\ Cardinality(e \cap done) \in Nat
  BY <1>6, <1>8, FS_CardinalityType
<1>10. Cardinality(r.inserted) + Cardinality(r.failed) + Cardinality(e \cap done) = r.row - 1
  BY DEF Accounts
<1>11. Cardinality(s.inserted) + Cardinality(s.failed) + Cardinality(e \cap next) = s.row - 1
  <2>1. Cardinality(s.failed) = Cardinality(r.failed)
    OBVIOUS
  <2>2. Cardinality(e \cap next) = Cardinality(e \cap done)
    BY <1>3
  <2> HIDE DEF done, next
  <2> QED BY <1>1, <1>7, <1>9, <1>10, <2>1, <2>2
<1>12. r.row \notin r.failed
  BY <1>2 DEF Accounts
<1>17. \A q, t \in s.inserted : q.row = t.row => q = t
  <2>1. \A q \in r.inserted : q.row \in done
    BY DEF Accounts, RowsOf
  <2>2. \A q \in r.inserted : q.row # p.row
    BY <1>2, <2>1
  <2>3. \A q, t \in r.inserted : q.row = t.row => q = t
    BY DEF Accounts
  <2> QED BY <2>2, <2>3
<1>13. /\ r.failed \subseteq done /\ RowsOf(r.inserted) \subseteq done
       /\ r.failed \cap e = {}
       /\ RowsOf(r.inserted) \cap (e \cup r.failed) = {}
       /\ done \subseteq e \cup r.failed \cup RowsOf(r.inserted)
       /\ r.counted = Cardinality(e \cup r.failed)
  BY DEF Accounts
<1> HIDE DEF done, next
<1>15. /\ s.failed \subseteq next /\ RowsOf(s.inserted) \subseteq next
       /\ s.failed \cap e = {}
       /\ RowsOf(s.inserted) \cap (e \cup s.failed) = {}
       /\ next \subseteq e \cup s.failed \cup RowsOf(s.inserted)
  <2> DEFINE old == RowsOf(r.inserted)
             new == RowsOf(s.inserted)
  <2>1. new = old \cup {r.row} /\ s.failed = r.failed /\ next = done \cup {r.row}
    BY <1>2, <1>4
  <2>2. /\ r.failed \subseteq done /\ old \subseteq done /\ r.failed \cap e = {}
        /\ old \cap (e \cup r.failed) = {} /\ done \subseteq e \cup r.failed \cup old
    BY <1>13
  <2> HIDE DEF old, new
  <2>3. s.failed \subseteq next /\ new \subseteq next
    BY <2>1, <2>2
  <2>4. s.failed \cap e = {} /\ new \cap (e \cup s.failed) = {}
    BY <1>12, <2>1, <2>2
  <2>5. next \subseteq e \cup s.failed \cup new
    BY <2>1, <2>2
  <2> QED BY <2>3, <2>4, <2>5 DEF old, new
<1>16. s.counted = Cardinality(e \cup s.failed)
  BY <1>13
<1>14. s.row \in 1 .. n + 1
  BY <1>1
<1> QED BY <1>6, <1>7, <1>11, <1>14, <1>15, <1>16, <1>17 DEF Accounts, done, next

\* What holds of an import that has a row at hand.
LEMMA AtRow ==
  ASSUME IInv, NEW j \in Jobs, HasRow(j)
  PROVE  /\ pc[j] = "row" /\ run[j].row <= Len(file[j]) /\ Len(file[j]) \in Nat
         /\ run[j] \in Runs /\ errors[j] \in SUBSET Nat /\ IsFiniteSet(errors[j])
         /\ run[j].failed \cap errors[j] = {}
         /\ Accounts(run[j], errors[j], Len(file[j]))
         /\ run[j].known \cup taken[j] \subseteq
              SkusOf(products) \cup SkusOf(run[j].inserted) \cup lost[j] \cup freed[j]
         /\ run[j].row \in Nat
<1>1. TypeOK /\ pc[j] = "row" /\ run[j].row <= Len(file[j])
  BY DEF IInv, HasRow
<1>2. Len(file[j]) \in Nat
  BY <1>1, FileType
<1>3. run[j] \in Runs /\ errors[j] \in SUBSET Nat
  BY <1>1, Types
<1>4. run[j].failed \cap errors[j] = {}
  BY <1>1 DEF TypeOK
<1>5. IsFiniteSet(errors[j]) /\ Accounts(run[j], errors[j], Len(file[j]))
  BY <1>1 DEF IInv, RowsOK
<1>6. run[j].known \cup taken[j] \subseteq
        SkusOf(products) \cup SkusOf(run[j].inserted) \cup lost[j] \cup freed[j]
  BY <1>1 DEF IInv, RefusedOK
<1>7. run[j].row \in Nat
  BY <1>3 DEF Runs
<1> QED BY <1>1, <1>2, <1>3, <1>4, <1>5, <1>6, <1>7

\* An import that inserts nothing and forgets no SKU keeps the SKUs apart.
LEMMA SameInserts ==
  ASSUME IInv, NEW j \in Jobs, NEW r \in Runs, run' = [run EXCEPT ![j] = r],
         products' = products, r.inserted = run[j].inserted, run[j].known \subseteq r.known
  PROVE  SkusOK'
<1>1. TypeOK
  BY DEF IInv
<1>2. \A i \in Jobs : run'[i].inserted = run[i].inserted /\ run[i].known \subseteq run'[i].known
  BY <1>1, Types
<1> QED BY <1>2 DEF IInv, SkusOK

LEMMA SkipRowIInv ==
  ASSUME IInv, NEW j \in Jobs, SkipRow(j)
  PROVE  IInv'
<1> DEFINE r == [run[j] EXCEPT !.row = @ + 1]
<1>1. /\ HasRow(j) /\ run[j].row \in errors[j]
      /\ UNCHANGED <<products, status, counts, errors, file, pc, taken, lost, freed, removed>>
  BY DEF SkipRow
<1>2. TypeOK
  BY DEF IInv
<1>3. run[j] \in Runs /\ run[j].row \in Nat
  BY <1>1, AtRow
<1>4. /\ r \in Runs /\ r.failed = run[j].failed /\ r.inserted = run[j].inserted
      /\ r.known = run[j].known
  BY <1>3 DEF Runs
<1>5. run' = [run EXCEPT ![j] = r]
  BY <1>2, <1>3, Types DEF SkipRow
<1>6. Accounts(r, errors[j], Len(file[j]))
  BY <1>1, AtRow, SkippedAccounts
<1> HIDE DEF r
<1>7. SkusOK'
  BY <1>1, <1>4, <1>5, SameInserts
<1>8. r.failed \cap errors[j] = {}
  BY <1>1, <1>4, AtRow
<1>9. r.known \cup taken'[j] \subseteq
        SkusOf(products) \cup SkusOf(r.inserted) \cup lost'[j] \cup freed[j]
  BY <1>1, <1>4, AtRow
<1>10. taken' \in [Jobs -> SUBSET Skus] /\ lost' \in [Jobs -> SUBSET Skus]
  BY <1>1, <1>2, Types
<1> QED BY <1>1, <1>4, <1>5, <1>6, <1>7, <1>8, <1>9, <1>10, RowDone

\* A row fails: as a duplicate of a product or of an earlier row, or by a fault.
LEMMA FailedRow ==
  ASSUME IInv, NEW j \in Jobs, HasRow(j), run[j].row \notin errors[j], NEW sku \in Skus,
         NEW r \in Runs, run' = [run EXCEPT ![j] = r],
         r.row = run[j].row + 1, r.failed = run[j].failed \cup {run[j].row},
         r.inserted = run[j].inserted, r.counted = run[j].counted + 1,
         run[j].known \subseteq r.known, r.known \subseteq run[j].known \cup {sku},
         taken' = [taken EXCEPT ![j] = @ \cup {sku}] \/ taken' = taken,
         lost' = [lost EXCEPT ![j] = @ \cup {sku}] \/ lost' = lost,
         \/ sku \in SkusOf(products) \/ sku \in run[j].known
         \/ lost' = [lost EXCEPT ![j] = @ \cup {sku}],
         UNCHANGED <<products, status, counts, errors, file, pc, freed, removed>>
  PROVE  IInv'
<1>1. TypeOK
  BY DEF IInv
<1>2. taken \in [Jobs -> SUBSET Skus] /\ lost \in [Jobs -> SUBSET Skus]
  BY <1>1, Types
<1>3. /\ taken' \in [Jobs -> SUBSET Skus] /\ lost' \in [Jobs -> SUBSET Skus]
      /\ \A i \in Jobs \ {j} : taken'[i] = taken[i] /\ lost'[i] = lost[i]
      /\ taken'[j] \subseteq taken[j] \cup {sku} /\ lost[j] \subseteq lost'[j]
      /\ \/ sku \in SkusOf(products) \/ sku \in run[j].known \/ sku \in lost'[j]
  BY <1>2
<1>4. SkusOK'
  BY SameInserts
<1>5. Accounts(r, errors[j], Len(file[j]))
  BY AtRow, FailedAccounts
<1>6. r.failed \cap errors[j] = {}
  BY AtRow
<1>7. r.known \cup taken'[j] \subseteq
        SkusOf(products) \cup SkusOf(r.inserted) \cup lost'[j] \cup freed[j]
  BY <1>3, AtRow
<1> QED BY <1>3, <1>4, <1>5, <1>6, <1>7, RowDone

\* The fields of what a failed row makes of an import's locals.
LEMMA FailedFields ==
  ASSUME NEW x \in Runs, NEW sku \in Skus
  PROVE  LET r == RowFailed(x, sku) IN
         /\ r \in Runs /\ r.row = x.row + 1 /\ r.failed = x.failed \cup {x.row}
         /\ r.inserted = x.inserted /\ r.counted = x.counted + 1
         /\ r.known = x.known \cup {sku}
<1>1. PICK n \in Nat, F \in SUBSET Nat, m \in Nat, K \in SUBSET Skus :
        n = x.row + 1 /\ F = x.failed \cup {x.row} /\ m = x.counted + 1 /\ K = x.known \cup {sku}
  <2>1. /\ x.row + 1 \in Nat /\ x.failed \cup {x.row} \in SUBSET Nat
        /\ x.counted + 1 \in Nat /\ x.known \cup {sku} \in SUBSET Skus
    BY DEF Runs
  <2> QED BY <2>1
<1> DEFINE r == [x EXCEPT !.row = n, !.failed = F, !.counted = m, !.known = K]
<1>2. RowFailed(x, sku) = r
  BY <1>1 DEF RowFailed
<1>3. /\ r \in Runs /\ r.row = n /\ r.failed = F /\ r.counted = m /\ r.known = K
      /\ r.inserted = x.inserted
  BY DEF Runs
<1> HIDE DEF r
<1> QED BY <1>1, <1>2, <1>3

\* A row that is refused for a SKU the import knows, or whose insert fails.
LEMMA FailedInsert ==
  ASSUME IInv, NEW j \in Jobs, HasRow(j), run[j].row \notin errors[j], RowSku(j) \in Skus,
         run' = [run EXCEPT ![j] = RowFailed(run[j], RowSku(j))],
         \/ /\ Committed(RowSku(j)) \/ RowSku(j) \in run[j].known
            /\ lost' = lost
            /\ taken' = [taken EXCEPT ![j] = @ \cup {RowSku(j)}]
         \/ lost' = [lost EXCEPT ![j] = @ \cup {RowSku(j)}] /\ taken' = taken,
         UNCHANGED <<products, status, counts, errors, file, pc, freed, removed>>
  PROVE  IInv'
<1> DEFINE r == RowFailed(run[j], RowSku(j))
<1>1. run[j] \in Runs
  BY AtRow
<1>2. /\ r \in Runs /\ r.row = run[j].row + 1 /\ r.failed = run[j].failed \cup {run[j].row}
      /\ r.inserted = run[j].inserted /\ r.counted = run[j].counted + 1
      /\ r.known = run[j].known \cup {RowSku(j)}
  BY <1>1, FailedFields
<1> HIDE DEF r
<1>3. run' = [run EXCEPT ![j] = r]
  BY DEF r
<1>4. Committed(RowSku(j)) => RowSku(j) \in SkusOf(products)
  BY DEF Committed
<1> QED BY <1>2, <1>3, <1>4, FailedRow

LEMMA RefuseKnownIInv ==
  ASSUME IInv, NEW j \in Jobs, RefuseKnown(j)
  PROVE  IInv'
<1>1. HasRow(j) /\ run[j].row \notin errors[j] /\ RowSku(j) \in run[j].known
  BY DEF RefuseKnown
<1>2. RowSku(j) \in Skus
  BY <1>1, AtRow DEF Runs
<1> QED BY <1>1, <1>2, FailedInsert DEF RefuseKnown

LEMMA InsertFailsIInv ==
  ASSUME IInv, NEW j \in Jobs, RefuseCommitted(j) \/ StorageFails(j) \/ BreakDeadlock(j)
  PROVE  IInv'
<1>1. Inserting(j) /\ InsertFails(j)
  BY DEF RefuseCommitted, StorageFails, BreakDeadlock
<1>2. HasRow(j) /\ run[j].row \notin errors[j] /\ RowSku(j) \in Skus
  BY <1>1 DEF Inserting
<1> QED BY <1>1, <1>2, FailedInsert DEF InsertFails, RefuseCommitted, StorageFails, BreakDeadlock

LEMMA InsertedFields ==
  ASSUME NEW x \in Runs, NEW p \in Products
  PROVE  LET r == RowInserted(x, p) IN
         /\ r \in Runs /\ r.row = x.row + 1 /\ r.failed = x.failed
         /\ r.inserted = x.inserted \cup {p} /\ r.counted = x.counted
         /\ r.known = x.known \cup {p.sku}
<1>1. PICK n \in Nat, S \in SUBSET Products, K \in SUBSET Skus :
        n = x.row + 1 /\ S = x.inserted \cup {p} /\ K = x.known \cup {p.sku}
  <2>1. /\ x.row + 1 \in Nat /\ x.inserted \cup {p} \in SUBSET Products
        /\ x.known \cup {p.sku} \in SUBSET Skus
    BY DEF Runs, Products
  <2> QED BY <2>1
<1> DEFINE r == [x EXCEPT !.row = n, !.known = K, !.inserted = S]
<1>2. RowInserted(x, p) = r
  BY <1>1 DEF RowInserted
<1>3. /\ r \in Runs /\ r.row = n /\ r.inserted = S /\ r.known = K
      /\ r.failed = x.failed /\ r.counted = x.counted
  BY DEF Runs
<1> HIDE DEF r
<1> QED BY <1>1, <1>2, <1>3

LEMMA InsertIInv ==
  ASSUME IInv, NEW j \in Jobs, Insert(j)
  PROVE  IInv'
<1> DEFINE p == NewProduct(j)
           r == RowInserted(run[j], p)
<1>1. /\ HasRow(j) /\ run[j].row \notin errors[j] /\ RowSku(j) \in Skus \ run[j].known
      /\ ~Committed(RowSku(j)) /\ ~InFlight(j)
      /\ run' = [run EXCEPT ![j] = r]
      /\ UNCHANGED <<products, status, counts, errors, file, pc, taken, lost, freed, removed>>
  BY DEF Insert, Inserting, InsertInto
<1>2. run[j] \in Runs /\ run[j].row \in Nat /\ TypeOK
  BY <1>1, AtRow DEF IInv
<1>3. p \in Products /\ p.sku = RowSku(j) /\ p.job = j /\ p.row = run[j].row
  BY <1>1, <1>2 DEF NewProduct, Products
<1> HIDE DEF p
<1>4. /\ r \in Runs /\ r.row = run[j].row + 1 /\ r.failed = run[j].failed
      /\ r.inserted = run[j].inserted \cup {p} /\ r.counted = run[j].counted
      /\ r.known = run[j].known \cup {p.sku}
  BY <1>2, <1>3, InsertedFields
<1> HIDE DEF r
<1>5. Accounts(r, errors[j], Len(file[j]))
  BY <1>1, <1>3, <1>4, AtRow, InsertedAccounts
<1>6. SkusOK'
  <2>1. run'[j] = r /\ \A i \in Jobs \ {j} : run'[i] = run[i]
    BY <1>1, <1>2, Types
  <2>2. \A q \in products : q.sku # p.sku
    BY <1>1, <1>3 DEF Committed, SkusOf
  <2>3. \A i \in Jobs \ {j} : \A q \in run[i].inserted : q.sku # p.sku
    <3> SUFFICES ASSUME NEW i \in Jobs \ {j}, NEW q \in run[i].inserted PROVE q.sku # p.sku
      OBVIOUS
    <3>1. pc[i] = "row"
      BY DEF IInv, LifeOK, NoRun
    <3>2. ~Holds(i, RowSku(j))
      BY <1>1 DEF InFlight, Others
    <3> QED BY <1>3, <3>1, <3>2 DEF Holds, SkusOf
  <2>4. \A q \in run[j].inserted : q.sku # p.sku
    BY <1>1, <1>3 DEF IInv, SkusOK
  <2>5. \A i \in Jobs :
          /\ \A q \in run'[i].inserted : q.job = i /\ q.sku \in run'[i].known
          /\ \A q, s \in run'[i].inserted : q.sku = s.sku => q = s
          /\ \A q \in run'[i].inserted, s \in products : q.sku # s.sku
    <3> SUFFICES ASSUME NEW i \in Jobs
                 PROVE  /\ \A q \in run'[i].inserted : q.job = i /\ q.sku \in run'[i].known
                        /\ \A q, s \in run'[i].inserted : q.sku = s.sku => q = s
                        /\ \A q \in run'[i].inserted, s \in products : q.sku # s.sku
      OBVIOUS
    <3>1. CASE i = j
      BY <1>3, <1>4, <2>1, <2>2, <2>4, <3>1 DEF IInv, SkusOK
    <3>2. CASE i # j
      BY <2>1, <3>2 DEF IInv, SkusOK
    <3> QED BY <3>1, <3>2
  <2>6. \A i, h \in Jobs : i # h =>
          \A q \in run'[i].inserted, s \in run'[h].inserted : q.sku # s.sku
    <3> SUFFICES ASSUME NEW i \in Jobs, NEW h \in Jobs, i # h,
                        NEW q \in run'[i].inserted, NEW s \in run'[h].inserted
                 PROVE  q.sku # s.sku
      OBVIOUS
    <3>1. CASE i = j
      BY <1>4, <2>1, <2>3, <3>1 DEF IInv, SkusOK
    <3>2. CASE h = j
      BY <1>4, <2>1, <2>3, <3>2 DEF IInv, SkusOK
    <3>3. CASE i # j /\ h # j
      BY <2>1, <3>3 DEF IInv, SkusOK
    <3> QED BY <3>1, <3>2, <3>3
  <2>7. \A q, s \in products : q.sku = s.sku => q = s
    BY DEF IInv, SkusOK
  <2> QED BY <1>1, <2>5, <2>6, <2>7 DEF SkusOK
<1>7. r.failed \cap errors[j] = {}
  BY <1>1, <1>4, AtRow
<1>8. r.known \cup taken'[j] \subseteq
        SkusOf(products) \cup SkusOf(r.inserted) \cup lost'[j] \cup freed[j]
  <2>1. p.sku \in SkusOf(r.inserted) /\ SkusOf(run[j].inserted) \subseteq SkusOf(r.inserted)
    BY <1>4 DEF SkusOf
  <2> QED BY <1>1, <1>4, <2>1, AtRow
<1>9. taken' \in [Jobs -> SUBSET Skus] /\ lost' \in [Jobs -> SUBSET Skus]
  BY <1>1, <1>2, Types
<1> QED BY <1>1, <1>4, <1>5, <1>6, <1>7, <1>8, <1>9, RowDone

\* What the accounts of an import say when its file is through.
LEMMA FinalAccounts ==
  ASSUME NEW r \in Runs, NEW e \in SUBSET Nat, NEW n \in Nat, IsFiniteSet(e),
         Accounts(r, e, n), r.row > n, e \subseteq 1 .. n
  PROVE  /\ RowsOf(r.inserted) = (1 .. n) \ (e \cup r.failed)
         /\ e \cup r.failed \subseteq 1 .. n
         /\ Cardinality(e \cup r.failed) = r.counted
         /\ Cardinality(r.inserted) \in Nat
         /\ IsFiniteSet(r.inserted) /\ \A p, q \in r.inserted : p.row = q.row => p = q
         /\ n = Cardinality(r.inserted) + r.counted
<1>1. r.row = n + 1 /\ 1 .. r.row - 1 = 1 .. n
  BY DEF Accounts, Runs
<1>2. /\ r.failed \subseteq 1 .. n /\ RowsOf(r.inserted) \subseteq 1 .. n
      /\ IsFiniteSet(r.failed) /\ IsFiniteSet(r.inserted)
      /\ r.failed \cap e = {}
      /\ RowsOf(r.inserted) \cap (e \cup r.failed) = {}
      /\ \A p, q \in r.inserted : p.row = q.row => p = q
      /\ 1 .. n \subseteq e \cup r.failed \cup RowsOf(r.inserted)
      /\ r.counted = Cardinality(e \cup r.failed)
      /\ Cardinality(r.inserted) + Cardinality(r.failed) + Cardinality(e \cap (1 .. n)) = n
  BY <1>1 DEF Accounts
<1>3. e \cap (1 .. n) = e
  OBVIOUS
<1>4. /\ Cardinality(r.inserted) \in Nat /\ Cardinality(r.failed) \in Nat
      /\ Cardinality(e) \in Nat
  BY <1>2, FS_CardinalityType
<1>5. Cardinality(e \cup r.failed) = Cardinality(e) + Cardinality(r.failed)
  <2>1. Cardinality(e \cup r.failed) =
          Cardinality(e) + Cardinality(r.failed) - Cardinality(e \cap r.failed)
    BY <1>2, FS_Union
  <2>2. e \cap r.failed = {} /\ Cardinality({}) = 0
    BY <1>2, FS_EmptySet
  <2>3. Cardinality(e \cap r.failed) = 0
    BY <2>2
  <2> QED BY <1>4, <2>1, <2>3
<1>6. n = Cardinality(r.inserted) + r.counted
  <2>1. Cardinality(r.inserted) + Cardinality(r.failed) + Cardinality(e) = n
    BY <1>2, <1>3
  <2>2. r.counted = Cardinality(e) + Cardinality(r.failed)
    BY <1>2, <1>5
  <2>3. \A a, b, c \in Nat : a + b + c = n => n = a + (c + b)
    OBVIOUS
  <2> QED BY <1>4, <2>1, <2>2, <2>3
<1> QED BY <1>2, <1>4, <1>6

LEMMA FinishRunIInv ==
  ASSUME IInv, NEW j \in Jobs, FinishRun(j)
  PROVE  IInv'
<1> DEFINE r == run[j]
           n == Len(file[j])
           new == [counts[j] EXCEPT !.failed = r.counted, !.success = Cardinality(r.inserted)]
<1>1. /\ pc[j] = "row" /\ r.row > n
      /\ products' = products \cup r.inserted
      /\ errors' = [errors EXCEPT ![j] = @ \cup r.failed]
      /\ status'[j] \in Ended
      /\ status' = [status EXCEPT ![j] = status'[j]]
      /\ run' = [run EXCEPT ![j] = NoRun]
      /\ pc' = [pc EXCEPT ![j] = "over"]
      /\ UNCHANGED <<file, taken, lost, freed, removed>>
  BY Types DEF FinishRun, Goto, Ended, IInv
<1>2. TypeOK
  BY DEF IInv
<1>3. /\ r \in Runs /\ n \in Nat /\ DOMAIN file[j] = 1 .. n /\ errors[j] \in SUBSET Nat
      /\ counts[j] \in [total : Nat, success : Nat, failed : Nat]
  BY <1>2, Types, FileType
<1>4. errors[j] \subseteq 1 .. n
  BY <1>2, <1>3 DEF TypeOK
<1>5. IsFiniteSet(errors[j]) /\ Accounts(r, errors[j], n) /\ counts[j].total = n
  BY <1>1 DEF IInv, RowsOK
<1>6. /\ RowsOf(r.inserted) = (1 .. n) \ (errors[j] \cup r.failed)
      /\ errors[j] \cup r.failed \subseteq 1 .. n
      /\ Cardinality(errors[j] \cup r.failed) = r.counted
      /\ Cardinality(r.inserted) \in Nat
      /\ IsFiniteSet(r.inserted) /\ \A p, q \in r.inserted : p.row = q.row => p = q
      /\ n = Cardinality(r.inserted) + r.counted
  BY <1>1, <1>3, <1>4, <1>5, FinalAccounts
<1>7. counts' = [counts EXCEPT ![j] = new]
  BY <1>2, <1>3, Types DEF FinishRun
<1>8. /\ new \in [total : Nat, success : Nat, failed : Nat]
      /\ new.total = n /\ new.failed = r.counted /\ new.success = Cardinality(r.inserted)
  <2>1. r.counted \in Nat
    BY <1>3 DEF Runs
  <2> QED BY <1>3, <1>5, <1>6, <2>1
<1> HIDE DEF new
<1>9. /\ status'[j] \in Ended /\ errors'[j] = errors[j] \cup r.failed /\ counts'[j] = new
      /\ run'[j] = NoRun /\ pc'[j] = "over"
      /\ \A i \in Jobs \ {j} :
           /\ status'[i] = status[i] /\ errors'[i] = errors[i] /\ counts'[i] = counts[i]
           /\ run'[i] = run[i] /\ pc'[i] = pc[i]
  BY <1>1, <1>2, <1>7, Types
<1>10. \A p \in r.inserted : p.job = j
  BY DEF IInv, SkusOK
<1>11. Imported(j) = {}
  <2>1. status[j] \notin Ended
    BY <1>1 DEF IInv, LifeOK
  <2> QED BY <2>1 DEF IInv, ImportedOK
<1>19. /\ Imported(j)' = r.inserted
       /\ \A i \in Jobs \ {j} : Imported(i)' = Imported(i)
  BY <1>1, <1>10, <1>11 DEF Imported
<1>12. TypeOK'
  <2>1. products' \subseteq Products
    BY <1>1, <1>2, <1>3, Types DEF Runs
  <2>2. errors' \in [Jobs -> SUBSET Nat]
    BY <1>1, <1>2, <1>3, Types DEF Runs
  <2>3. counts' \in [Jobs -> [total : Nat, success : Nat, failed : Nat]]
    BY <1>2, <1>7, <1>8, Types
  <2>4. \A i \in Jobs : errors'[i] \subseteq DOMAIN file'[i] /\ run'[i].failed \cap errors'[i] = {}
    <3> SUFFICES ASSUME NEW i \in Jobs
                 PROVE  errors'[i] \subseteq DOMAIN file[i] /\ run'[i].failed \cap errors'[i] = {}
      BY <1>1
    <3>1. CASE i = j
      BY <1>3, <1>6, <1>9, <3>1 DEF NoRun
    <3>2. CASE i # j
      BY <1>2, <1>9, <3>2 DEF TypeOK
    <3> QED BY <3>1, <3>2
  <2>5. status' \in [Jobs -> Statuses]
    BY <1>1, <1>2, Types DEF Ended, Statuses
  <2> QED BY <1>1, <1>2, <2>1, <2>2, <2>3, <2>4, <2>5, NoRunType, Types DEF TypeOK
<1>13. LifeOK'
  BY <1>1, <1>9 DEF IInv, LifeOK
<1>20. ImportedOK'
  <2>1. products' \cap removed' = {}
    <3>1. r.inserted \cap removed = {}
      BY <1>10, <1>11 DEF Imported
    <3> QED BY <1>1, <3>1 DEF IInv, ImportedOK
  <2>2. \A i \in Jobs :
          /\ IsFiniteSet(Imported(i)')
          /\ \A p, q \in Imported(i)' : p.row = q.row => p = q
          /\ Imported(i)' # {} => status'[i] \in Ended
    <3> SUFFICES ASSUME NEW i \in Jobs
                 PROVE  /\ IsFiniteSet(Imported(i)')
                        /\ \A p, q \in Imported(i)' : p.row = q.row => p = q
                        /\ Imported(i)' # {} => status'[i] \in Ended
      OBVIOUS
    <3>1. CASE i = j
      BY <1>6, <1>9, <1>19, <3>1
    <3>2. CASE i # j
      BY <1>9, <1>19, <3>2 DEF IInv, ImportedOK
    <3> QED BY <3>1, <3>2
  <2> QED BY <1>1, <2>1, <2>2 DEF IInv, ImportedOK
<1>14. SkusOK'
  <2>1. run'[j].inserted = {}
    BY <1>9 DEF NoRun
  <2>2. \A p, q \in products' : p.sku = q.sku => p = q
    BY <1>1 DEF IInv, SkusOK
  <2>3. \A i \in Jobs :
          /\ \A p \in run'[i].inserted : p.job = i /\ p.sku \in run'[i].known
          /\ \A p, q \in run'[i].inserted : p.sku = q.sku => p = q
          /\ \A p \in run'[i].inserted, q \in products' : p.sku # q.sku
    BY <1>1, <1>9, <2>1 DEF IInv, SkusOK
  <2>4. \A i, h \in Jobs : i # h =>
          \A p \in run'[i].inserted, q \in run'[h].inserted : p.sku # q.sku
    BY <1>9, <2>1 DEF IInv, SkusOK
  <2> QED BY <2>2, <2>3, <2>4 DEF SkusOK
<1>15. RowsOK'
  BY <1>1, <1>9 DEF IInv, RowsOK
<1>16. RefusedOK'
  BY <1>1, <1>9 DEF IInv, RefusedOK, SkusOf
<1>17. RowsAreAccounted'
  <2> SUFFICES ASSUME NEW i \in Jobs, status'[i] \in {"COMPLETED", "FAILED"}
               PROVE  RowsAreAccounted!(i)!2'
    BY DEF RowsAreAccounted
  <2>1. CASE i = j
    <3>1. Imported(j)' = r.inserted
      BY <1>19
    <3>2. {p.row : p \in r.inserted} = DOMAIN file[j] \ errors'[j]
      BY <1>3, <1>6, <1>9 DEF RowsOf
    <3>3. Cardinality(r.inserted) = counts'[j].success
      BY <1>8, <1>9
    <3>4. Cardinality(errors'[j]) = counts'[j].failed
      BY <1>6, <1>8, <1>9
    <3>5. /\ counts'[j].total = Len(file[j])
          /\ counts'[j].total = counts'[j].success + counts'[j].failed
      BY <1>6, <1>8, <1>9
    <3> QED BY <1>1, <2>1, <3>1, <3>2, <3>3, <3>4, <3>5
  <2>2. CASE i # j
    <3>1. Imported(i)' = Imported(i)
      BY <1>19, <2>2
    <3>2. status[i] \in {"COMPLETED", "FAILED"} /\ errors'[i] = errors[i] /\ counts'[i] = counts[i]
      BY <1>9, <2>2
    <3> QED BY <1>1, <3>1, <3>2 DEF IInv, RowsAreAccounted
  <2> QED BY <2>1, <2>2
<1>18. RefusedSkuIsTaken'
  <2> SUFFICES ASSUME NEW i \in Jobs, status'[i] \in {"COMPLETED", "FAILED"}
               PROVE  taken'[i] \subseteq SkusOf(products') \cup lost'[i] \cup freed'[i]
    BY DEF RefusedSkuIsTaken
  <2>1. SkusOf(products') = SkusOf(products) \cup SkusOf(r.inserted)
    BY <1>1 DEF SkusOf
  <2>2. CASE i = j
    <3>1. taken[j] \subseteq
            SkusOf(products) \cup SkusOf(r.inserted) \cup lost[j] \cup freed[j]
      BY <1>1 DEF IInv, RefusedOK
    <3> QED BY <1>1, <2>1, <2>2, <3>1
  <2>3. CASE i # j
    BY <1>1, <1>9, <2>1, <2>3 DEF IInv, RefusedSkuIsTaken
  <2> QED BY <2>2, <2>3
<1> QED BY <1>12, <1>13, <1>14, <1>15, <1>16, <1>17, <1>18, <1>20 DEF IInv

LEMMA CreateProductIInv ==
  ASSUME IInv, NEW sku \in Manual, CreateProduct(sku)
  PROVE  IInv'
<1> DEFINE p == [sku |-> sku, job |-> NoJob, row |-> 0]
<1>1. /\ ~Committed(sku) /\ \A j \in Jobs : ~Holds(j, sku)
      /\ products' = products \cup {p}
      /\ UNCHANGED <<status, counts, errors, file, pc, run, taken, lost, freed, removed>>
  BY DEF CreateProduct
<1>2. p \in Products /\ p.sku = sku /\ p.job \notin Jobs
  BY ManualAssumption, JobsAssumption DEF Products
<1> HIDE DEF p
<1>3. TypeOK'
  BY <1>1, <1>2 DEF IInv, TypeOK
<1>4. LifeOK'
  BY <1>1, <1>2 DEF IInv, LifeOK
<1>5. SkusOK'
  <2>1. \A q \in products : q.sku # p.sku
    BY <1>1, <1>2 DEF Committed, SkusOf
  <2>2. \A j \in Jobs : \A q \in run[j].inserted : q.sku # p.sku
    <3> SUFFICES ASSUME NEW j \in Jobs, NEW q \in run[j].inserted PROVE q.sku # p.sku
      OBVIOUS
    <3>1. pc[j] = "row"
      BY DEF IInv, LifeOK, NoRun
    <3> QED BY <1>1, <1>2, <3>1 DEF Holds, SkusOf
  <2> QED BY <1>1, <2>1, <2>2 DEF IInv, SkusOK
<1>6. RowsOK'
  BY <1>1 DEF IInv, RowsOK
<1>11. \A j \in Jobs : Imported(j)' = Imported(j)
  BY <1>1, <1>2 DEF Imported
<1>12. ImportedOK'
  BY <1>1, <1>2, <1>11 DEF IInv, ImportedOK
<1>7. SkusOf(products) \subseteq SkusOf(products')
  BY <1>1 DEF SkusOf
<1>8. RefusedOK'
  BY <1>1, <1>7 DEF IInv, RefusedOK
<1>9. RowsAreAccounted'
  BY <1>1, <1>11 DEF IInv, RowsAreAccounted
<1>10. RefusedSkuIsTaken'
  BY <1>1, <1>7 DEF IInv, RefusedSkuIsTaken
<1> QED BY <1>3, <1>4, <1>5, <1>6, <1>8, <1>9, <1>10, <1>12 DEF IInv

\* A product gives up its SKU: what imports hold against it was true.
LEMMA GivenUpSku ==
  ASSUME IInv, NEW p \in products, products \ {p} \subseteq products', GivesUp(p.sku),
         UNCHANGED <<status, pc, run, taken, lost>>
  PROVE  freed' \in [Jobs -> SUBSET Skus] /\ RefusedOK' /\ RefusedSkuIsTaken'
<1>1. TypeOK /\ p.sku \in Skus
  BY Types DEF IInv, Products
<1>2. freed' \in [Jobs -> SUBSET Skus]
  BY <1>1, Types DEF GivesUp
<1>3. \A j \in Jobs :
        /\ freed[j] \subseteq freed'[j]
        /\ p.sku \in run[j].known \cup taken[j] => p.sku \in freed'[j]
  BY <1>1, Types DEF GivesUp
<1>4. SkusOf(products) \subseteq SkusOf(products') \cup {p.sku}
  BY DEF SkusOf
<1>5. RefusedOK'
  <2> SUFFICES ASSUME NEW j \in Jobs, pc[j] = "row"
               PROVE  run[j].known \cup taken[j] \subseteq
                        SkusOf(products') \cup SkusOf(run[j].inserted) \cup lost[j] \cup freed'[j]
    BY DEF RefusedOK, SkusOf
  <2>1. run[j].known \cup taken[j] \subseteq
          SkusOf(products) \cup SkusOf(run[j].inserted) \cup lost[j] \cup freed[j]
    BY DEF IInv, RefusedOK
  <2>2. \A s \in run[j].known \cup taken[j] : s = p.sku => s \in freed'[j]
    BY <1>3
  <2>3. freed[j] \subseteq freed'[j]
    BY <1>3
  <2> QED BY <1>4, <2>1, <2>2, <2>3
<1>6. RefusedSkuIsTaken'
  <2> SUFFICES ASSUME NEW j \in Jobs, status[j] \in {"COMPLETED", "FAILED"}
               PROVE  taken[j] \subseteq SkusOf(products') \cup lost[j] \cup freed'[j]
    BY DEF RefusedSkuIsTaken, SkusOf
  <2>1. taken[j] \subseteq SkusOf(products) \cup lost[j] \cup freed[j]
    BY DEF IInv, RefusedSkuIsTaken
  <2>2. \A s \in taken[j] : s = p.sku => s \in freed'[j]
    BY <1>3
  <2>3. freed[j] \subseteq freed'[j]
    BY <1>3
  <2> QED BY <1>4, <2>1, <2>2, <2>3
<1> QED BY <1>2, <1>5, <1>6

LEMMA EditProductIInv ==
  ASSUME IInv, NEW p \in products, NEW sku \in Manual, EditProduct(p, sku)
  PROVE  IInv'
<1> DEFINE e == [p EXCEPT !.sku = sku]
<1>1. /\ ~Committed(sku) /\ \A j \in Jobs : ~Holds(j, sku)
      /\ products' = (products \ {p}) \cup {e}
      /\ GivesUp(p.sku)
      /\ UNCHANGED <<status, counts, errors, file, pc, run, taken, lost, removed>>
  BY DEF EditProduct
<1>2. e \in Products /\ e.sku = sku /\ e.job = p.job /\ e.row = p.row
  BY ManualAssumption, Types DEF IInv, Products
<1> HIDE DEF e
<1>3. freed' \in [Jobs -> SUBSET Skus] /\ RefusedOK' /\ RefusedSkuIsTaken'
  BY <1>1, GivenUpSku
<1>4. TypeOK'
  BY <1>1, <1>2, <1>3 DEF IInv, TypeOK
<1>5. LifeOK' /\ RowsOK'
  BY <1>1 DEF IInv, LifeOK, RowsOK
<1>6. SkusOK'
  <2>1. \A q \in products : q.sku # e.sku
    BY <1>1, <1>2 DEF Committed, SkusOf
  <2>2. \A j \in Jobs : \A q \in run[j].inserted : q.sku # e.sku
    <3> SUFFICES ASSUME NEW j \in Jobs, NEW q \in run[j].inserted PROVE q.sku # e.sku
      OBVIOUS
    <3>1. pc[j] = "row"
      BY DEF IInv, LifeOK, NoRun
    <3> QED BY <1>1, <1>2, <3>1 DEF Holds, SkusOf
  <2> QED BY <1>1, <2>1, <2>2 DEF IInv, SkusOK
<1>7. p \notin removed /\ e \notin removed
  <2>1. p \notin removed
    BY DEF IInv, ImportedOK
  <2>2. ASSUME e \in removed PROVE FALSE
    <3>1. e.job \in Jobs
      BY <2>2 DEF IInv, ImportedOK
    <3>2. e \in Imported(e.job) /\ p \in Imported(e.job)
      BY <1>2, <2>2 DEF Imported
    <3>3. e = p
      BY <1>2, <3>1, <3>2 DEF IInv, ImportedOK
    <3> QED BY <2>1, <2>2, <3>3
  <2> QED BY <2>1, <2>2
<1>8. \A j \in Jobs :
        /\ {q.row : q \in Imported(j)'} = {q.row : q \in Imported(j)}
        /\ IsFiniteSet(Imported(j)') /\ Cardinality(Imported(j)') = Cardinality(Imported(j))
        /\ \A q, t \in Imported(j)' : q.row = t.row => q = t
        /\ Imported(j)' # {} => Imported(j) # {}
  <2> SUFFICES ASSUME NEW j \in Jobs
               PROVE  /\ {q.row : q \in Imported(j)'} = {q.row : q \in Imported(j)}
                      /\ IsFiniteSet(Imported(j)')
                      /\ Cardinality(Imported(j)') = Cardinality(Imported(j))
                      /\ \A q, t \in Imported(j)' : q.row = t.row => q = t
                      /\ Imported(j)' # {} => Imported(j) # {}
    OBVIOUS
  <2>1. IsFiniteSet(Imported(j)) /\ \A q, t \in Imported(j) : q.row = t.row => q = t
    BY DEF IInv, ImportedOK
  <2>2. CASE p.job # j
    <3>1. Imported(j)' = Imported(j)
      BY <1>1, <1>2, <2>2 DEF Imported
    <3> QED BY <2>1, <3>1
  <2>3. CASE p.job = j
    <3> DEFINE S == Imported(j)
               T == S \ {p}
    <3>1. Imported(j)' = T \cup {e} /\ p \in S
      BY <1>1, <1>2, <1>7, <2>3 DEF Imported
    <3>2. e \notin T
      BY <1>2, <2>1, <3>1
    <3> HIDE DEF S
    <3>3. IsFiniteSet(T) /\ Cardinality(T) = Cardinality(S) - 1 /\ Cardinality(S) \in Nat
      BY <2>1, <3>1, FS_RemoveElement, FS_CardinalityType DEF S
    <3>4. IsFiniteSet(T \cup {e}) /\ Cardinality(T \cup {e}) = Cardinality(S)
      BY <3>2, <3>3, FS_AddElement
    <3>5. {q.row : q \in T \cup {e}} = {q.row : q \in S}
      BY <1>2, <3>1
    <3>6. \A q, t \in T \cup {e} : q.row = t.row => q = t
      BY <1>2, <2>1, <3>1 DEF S
    <3> QED BY <3>1, <3>4, <3>5, <3>6 DEF S
  <2> QED BY <2>2, <2>3
<1>9. ImportedOK'
  BY <1>1, <1>7, <1>8 DEF IInv, ImportedOK
<1>10. RowsAreAccounted'
  BY <1>1, <1>8 DEF IInv, RowsAreAccounted
<1> QED BY <1>3, <1>4, <1>5, <1>6, <1>9, <1>10 DEF IInv

LEMMA DeleteProductIInv ==
  ASSUME IInv, NEW p \in products, DeleteProduct(p)
  PROVE  IInv'
<1>1. /\ products' = products \ {p}
      /\ removed' = IF p.job \in Jobs THEN removed \cup {p} ELSE removed
      /\ GivesUp(p.sku)
      /\ UNCHANGED <<status, counts, errors, file, pc, run, taken, lost>>
  BY DEF DeleteProduct
<1>2. freed' \in [Jobs -> SUBSET Skus] /\ RefusedOK' /\ RefusedSkuIsTaken'
  BY <1>1, GivenUpSku
<1>3. TypeOK'
  BY <1>1, <1>2 DEF IInv, TypeOK
<1>4. LifeOK' /\ RowsOK' /\ SkusOK'
  BY <1>1 DEF IInv, LifeOK, RowsOK, SkusOK
<1>5. \A j \in Jobs : Imported(j)' = Imported(j)
  BY <1>1 DEF Imported
<1>6. ImportedOK'
  BY <1>1, <1>5 DEF IInv, ImportedOK
<1>7. RowsAreAccounted'
  BY <1>1, <1>5 DEF IInv, RowsAreAccounted
<1> QED BY <1>2, <1>3, <1>4, <1>6, <1>7 DEF IInv

-----------------------------------------------------------------------------
(* The invariant *)

LEMMA NextIInv == IInv /\ [Next]_vars => IInv'
<1> SUFFICES ASSUME IInv, [Next]_vars PROVE IInv'
  OBVIOUS
<1>1. ASSUME NEW j \in Jobs, Step(j) PROVE IInv'
  BY <1>1, ValidateIInv, StartRunIInv, SkipRowIInv, RefuseKnownIInv, InsertIInv,
     InsertFailsIInv, FinishRunIInv DEF Step
<1>2. ASSUME NEW j \in Jobs, NEW f \in Files, CreateJob(j, f) PROVE IInv'
  BY <1>2, CreateJobIInv
<1>3. ASSUME NEW j \in Jobs, RefuseFile(j) \/ StorageFails(j) \/ Crash(j) PROVE IInv'
  BY <1>3, RefuseFileIInv, InsertFailsIInv, CrashIInv
<1>4. ASSUME NEW sku \in Manual, CreateProduct(sku) PROVE IInv'
  BY <1>4, CreateProductIInv
<1>6. ASSUME NEW p \in products, NEW sku \in Manual, EditProduct(p, sku) PROVE IInv'
  BY <1>6, EditProductIInv
<1>7. ASSUME NEW p \in products, DeleteProduct(p) PROVE IInv'
  BY <1>7, DeleteProductIInv
<1>5. CASE UNCHANGED vars
  <2>1. TypeOK' /\ LifeOK'
    BY <1>5 DEF vars, IInv, TypeOK, LifeOK
  <2>2. SkusOK' /\ RowsOK' /\ RefusedOK'
    BY <1>5 DEF vars, IInv, SkusOK, RowsOK, RefusedOK
  <2>3. RowsAreAccounted' /\ RefusedSkuIsTaken' /\ ImportedOK'
    BY <1>5 DEF vars, IInv, RowsAreAccounted, RefusedSkuIsTaken, ImportedOK, Imported
  <2> QED BY <2>1, <2>2, <2>3 DEF IInv
<1> QED BY <1>1, <1>2, <1>3, <1>4, <1>5, <1>6, <1>7 DEF Next

THEOREM Invariance == Spec => []IInv
BY InitIInv, NextIInv, PTL DEF Spec

\* Jobs, files and what an import has in hand keep their types, and no import takes
\* up a row that the validation refused.
THEOREM TypesHold == Spec => []TypeOK
<1>1. IInv => TypeOK
  BY DEF IInv
<1> QED BY <1>1, Invariance, PTL

\* However many imports insert products and however the merchant edits them, no two products of
\* a store have the same SKU.
THEOREM SkusStayUnique == Spec => []SkuOnce
<1>1. IInv => SkuOnce
  BY DEF IInv, SkusOK, SkuOnce
<1> QED BY <1>1, Invariance, PTL

\* When an import has ended, each row of its file became a product or has an error, and its
\* counts are those of its products and its errors and add up to the rows.
THEOREM EveryRowIsAccounted == Spec => []RowsAreAccounted
<1>1. IInv => RowsAreAccounted
  BY DEF IInv
<1> QED BY <1>1, Invariance, PTL

\* A row that was refused as a duplicate is one, although the product it duplicates was
\* not committed when the import was validated; if nobody has its SKU, an insert of it
\* failed in the import or a product gave it up behind the import's back.
THEOREM RefusalsAreTrue == Spec => []RefusedSkuIsTaken
<1>1. IInv => RefusedSkuIsTaken
  BY DEF IInv
<1> QED BY <1>1, Invariance, PTL
=============================================================================
