-------------------------- MODULE GeotagExportProofs --------------------------
(***************************************************************************)
(* Theorems about GeotagExport for any number of runs: its type invariant, *)
(* that pages.geotags never goes back to older data, and that runs without *)
(* a fault bring it up to date.                                            *)
(***************************************************************************)
EXTENDS GeotagExport, TLAPS

(* The data went through the places in order and did not overtake each     *)
(* other: where there are some, they are as new as all in the places       *)
(* behind.  A place that is empty says nothing, for a fault may empty any. *)
NewestFirst ==
    /\ dump # None => /\ mysql.run <= dump.run /\ jsonl.run <= dump.run
                      /\ gz.run <= dump.run /\ cloud.run <= dump.run
    /\ mysql # None => jsonl.run <= mysql.run /\ gz.run <= mysql.run /\ cloud.run <= mysql.run
    /\ jsonl # None => gz.run <= jsonl.run /\ cloud.run <= jsonl.run
    /\ gz # None => cloud.run <= gz.run
    /\ geotags.run <= cloud.run

NotAhead ==
    dump.run <= run /\ mysql.run <= run /\ jsonl.run <= run /\ gz.run <= run /\ cloud.run <= run

Inv == TypeOK /\ NotAhead /\ NewestFirst
------------------------------------------------------------------------------
LEMMA NoneIsData == None \in Data /\ None.run = 0
BY MaxRunsAssumption DEF None, Data

LEMMA DataRun == ASSUME NEW d \in Data PROVE d.run \in 0..MaxRuns /\ d.whole \in BOOLEAN
BY DEF Data

LEMMA PartRun == ASSUME NEW d \in Data PROVE Part(d) \in Data /\ Part(d).run = d.run
BY DEF Data, Part

LEMMA PartNone == Part(None) = None
<1>1. Part(None) \in Data /\ Part(None).run = 0 /\ Part(None).whole = FALSE
    BY NoneIsData, PartRun DEF Part, Data
<1>2. Part(None) = [run |-> Part(None).run, whole |-> Part(None).whole]
    BY <1>1 DEF Data
<1>3. QED
    BY <1>1, <1>2 DEF None

LEMMA InitInv == Init => Inv
<1> SUFFICES ASSUME Init PROVE Inv
    OBVIOUS
<1>1. run = 0 /\ pc = 0 /\ calm = 0 /\ leftover = FALSE
    BY DEF Init
<1>2. /\ dump = None /\ mysql = None /\ jsonl = None /\ gz = None
      /\ cloud = None /\ geotags = None
    BY DEF Init
<1>3. TypeOK
    <2>1. run \in 0..MaxRuns /\ pc \in 0..7 /\ calm \in 0..run
        BY <1>1, MaxRunsAssumption
    <2>2. {dump, mysql, jsonl, gz, cloud, geotags} \subseteq Data
        BY <1>2, NoneIsData
    <2>3. leftover \in BOOLEAN
        BY <1>1
    <2>4. QED
        BY <2>1, <2>2, <2>3 DEF TypeOK
<1>4. NotAhead /\ NewestFirst
    BY <1>1, <1>2, NoneIsData DEF NotAhead, NewestFirst
<1>5. QED
    BY <1>3, <1>4 DEF Inv

LEMMA Typed == ASSUME Inv
               PROVE  /\ run \in 0..MaxRuns /\ pc \in 0..7 /\ calm \in 0..run /\ leftover \in BOOLEAN
                      /\ dump \in Data /\ mysql \in Data /\ jsonl \in Data /\ gz \in Data
                      /\ cloud \in Data /\ geotags \in Data
                      /\ dump.run \in Nat /\ mysql.run \in Nat /\ jsonl.run \in Nat
                      /\ gz.run \in Nat /\ cloud.run \in Nat /\ geotags.run \in Nat
BY DataRun, MaxRunsAssumption DEF Inv, TypeOK

(* A new run, or its end, changes no data. *)
LEMMA StartInv == Inv /\ start => Inv'
BY Typed, MaxRunsAssumption DEF start, Inv, TypeOK, NotAhead, NewestFirst

LEMMA BreakOffInv == Inv /\ break_off => Inv'
BY Typed, MaxRunsAssumption DEF break_off, Inv, TypeOK, NotAhead, NewestFirst

LEMMA DownloadInv == Inv /\ download => Inv'
<1> SUFFICES ASSUME Inv, download PROVE Inv'
    OBVIOUS
<1>1. dump' \in Data /\ dump'.run = run
    BY Typed DEF download, Data
<1>2. TypeOK'
    BY Typed, <1>1 DEF download, Goes, TypeOK
<1>3. NotAhead' /\ NewestFirst'
    BY Typed, <1>1 DEF download, Goes, Inv, NotAhead, NewestFirst
<1>4. QED
    BY <1>2, <1>3 DEF Inv

LEMMA ImportInv == Inv /\ import => Inv'
<1> SUFFICES ASSUME Inv, import PROVE Inv'
    OBVIOUS
<1>1. TypeOK'
    BY Typed DEF import, Goes, TypeOK
<1>2. NotAhead' /\ NewestFirst'
    BY Typed DEF import, Goes, Inv, NotAhead, NewestFirst
<1>3. QED
    BY <1>1, <1>2 DEF Inv

LEMMA ExportInv == Inv /\ export => Inv'
<1> SUFFICES ASSUME Inv, export PROVE Inv'
    OBVIOUS
<1>1. TypeOK'
    BY Typed DEF export, Goes, TypeOK
<1>2. NotAhead' /\ NewestFirst'
    BY Typed, NoneIsData DEF export, Goes, Inv, NotAhead, NewestFirst
<1>3. QED
    BY <1>1, <1>2 DEF Inv

LEMMA GzipInv == Inv /\ gzip => Inv'
<1> SUFFICES ASSUME Inv, gzip PROVE Inv'
    OBVIOUS
<1>1. TypeOK'
    BY Typed, NoneIsData DEF gzip, Goes, TypeOK
<1>2. NotAhead' /\ NewestFirst'
    BY Typed, NoneIsData DEF gzip, Goes, Inv, NotAhead, NewestFirst
<1>3. QED
    BY <1>1, <1>2 DEF Inv

LEMMA MoveInv == Inv /\ move_to_cloud => Inv'
<1> SUFFICES ASSUME Inv, move_to_cloud PROVE Inv'
    OBVIOUS
<1>1. TypeOK'
    BY Typed, NoneIsData DEF move_to_cloud, Goes, TypeOK
<1>2. NotAhead' /\ NewestFirst'
    BY Typed, NoneIsData DEF move_to_cloud, Goes, Inv, NotAhead, NewestFirst
<1>3. QED
    BY <1>1, <1>2 DEF Inv

LEMMA LoadInv == Inv /\ load => Inv'
<1> SUFFICES ASSUME Inv, load PROVE Inv'
    OBVIOUS
<1>1. TypeOK'
    BY Typed DEF load, Goes, TypeOK
<1>2. NotAhead' /\ NewestFirst'
    BY Typed, NoneIsData DEF load, Goes, Inv, NotAhead, NewestFirst
<1>3. QED
    BY <1>1, <1>2 DEF Inv

LEMMA CleanupInv == Inv /\ cleanup => Inv'
<1> SUFFICES ASSUME Inv, cleanup PROVE Inv'
    OBVIOUS
<1>1. TypeOK'
    BY Typed, NoneIsData DEF cleanup, Goes, TypeOK
<1>2. NotAhead' /\ NewestFirst'
    BY Typed, NoneIsData DEF cleanup, Goes, Inv, NotAhead, NewestFirst
<1>3. QED
    BY <1>1, <1>2 DEF Inv

(* What a fault may leave in each place: one case for each command. *)
LEMMA FaultInv == Inv /\ fault => Inv'
<1> SUFFICES ASSUME Inv, fault PROVE Inv'
    OBVIOUS
<1>1. /\ run' = run /\ gz' = gz /\ geotags' = geotags /\ leftover' = leftover
      /\ calm' = 0 /\ pc' = (pc + 1) % 8
    BY DEF fault
<1>2. dump' = dump \/ dump' = None \/ (dump' \in Data /\ dump'.run = run)
    <2>1. /\ [run |-> run, whole |-> FALSE] \in Data
          /\ [run |-> run, whole |-> FALSE].run = run
        BY Typed DEF Data
    <2>2. dump' \in {dump, None, [run |-> run, whole |-> FALSE]}
        BY DEF fault
    <2>3. QED
        BY <2>1, <2>2
<1>3. mysql' = mysql \/ mysql' = None
      \/ (dump # None /\ pc = 2 /\ mysql' \in Data /\ mysql'.run = dump.run)
    BY Typed, PartRun DEF fault
<1>4. jsonl' = jsonl \/ (jsonl = None /\ pc = 3 /\ jsonl' = Part(mysql))
    BY DEF fault
<1>5. cloud' = cloud \/ (gz # None /\ cloud' = gz)
    BY DEF fault
<1>6. /\ pc # 1 => dump' = dump
      /\ pc # 2 => mysql' = mysql
      /\ pc # 3 => jsonl' = jsonl
      /\ pc # 5 => cloud' = cloud
    BY DEF fault
<1>7. Part(mysql) \in Data /\ Part(mysql).run = mysql.run /\ (mysql = None => Part(mysql) = None)
    BY Typed, PartRun, PartNone
<1>8. TypeOK'
    <2>1. {dump', mysql', jsonl', gz', cloud', geotags'} \subseteq Data
        BY <1>1, <1>2, <1>3, <1>4, <1>5, <1>7, Typed, NoneIsData
    <2>2. QED
        BY <1>1, <2>1, Typed DEF TypeOK
<1>9. NotAhead'
    BY <1>1, <1>2, <1>3, <1>4, <1>5, <1>7, Typed, NoneIsData DEF Inv, NotAhead
<1>10. NewestFirst'
    <2>1. CASE pc = 1
        BY <2>1, <1>1, <1>2, <1>6, Typed, NoneIsData DEF Inv, NewestFirst, NotAhead
    <2>2. CASE pc = 2
        BY <2>2, <1>1, <1>3, <1>6, Typed, NoneIsData DEF Inv, NewestFirst
    <2>3. CASE pc = 3
        BY <2>3, <1>1, <1>4, <1>6, <1>7, Typed, NoneIsData DEF Inv, NewestFirst
    <2>4. CASE pc = 5
        BY <2>4, <1>1, <1>5, <1>6, Typed DEF Inv, NewestFirst
    <2>5. CASE pc \notin {1, 2, 3, 5}
        BY <2>5, <1>1, <1>6 DEF Inv, NewestFirst
    <2>6. QED
        BY <2>1, <2>2, <2>3, <2>4, <2>5
<1>11. QED
    BY <1>8, <1>9, <1>10 DEF Inv

LEMMA StutterInv == Inv /\ UNCHANGED vars => Inv'
BY DEF Inv, TypeOK, NotAhead, NewestFirst, vars

LEMMA NextInv == Inv /\ [Next]_vars => Inv'
BY StartInv, FaultInv, BreakOffInv, DownloadInv, ImportInv, ExportInv, GzipInv, MoveInv,
   LoadInv, CleanupInv, StutterInv DEF Next

LEMMA Invariance == Spec => []Inv
BY InitInv, NextInv, PTL DEF Spec

(* Only the load changes the table, and what it loads is as new. *)
LEMMA StepForward == Inv /\ [Next]_vars => [geotags'.run >= geotags.run]_vars
<1> SUFFICES ASSUME Inv, Next PROVE geotags'.run >= geotags.run
    BY DEF vars
<1>1. geotags.run \in Nat /\ cloud.run \in Nat /\ geotags.run <= cloud.run
    BY Typed DEF Inv, NewestFirst
<1>2. geotags' = geotags \/ geotags' = cloud
    BY DEF Next, start, fault, break_off, download, import, export, gzip, move_to_cloud,
           load, cleanup
<1>3. QED
    BY <1>1, <1>2
------------------------------------------------------------------------------
(* Every place holds data of a run up to the present one, whole or not.    *)
THEOREM ExportTyped == Spec => []TypeOK
<1>1. Inv => TypeOK
    BY DEF Inv
<1>2. QED
    BY <1>1, Invariance, PTL

(* Whichever commands of whichever runs of the scripts fail, and whatever  *)
(* files they leave behind, pages.geotags is never loaded from older data. *)
THEOREM NeverGoesBack == Spec => NeverOlder
BY Invariance, StepForward, PTL DEF Spec, NeverOlder
------------------------------------------------------------------------------
(* How runs without a fault catch up.  The first of them empties the place *)
(* of the compressed file, the second that of the exported one, and a run  *)
(* that finds both empty, or that is the third, is clear: what it loads is *)
(* what it downloaded.                                                     *)
Fresh == [run |-> run, whole |-> TRUE]

Clear == calm >= 1 /\ (~leftover \/ calm >= 3)

SourceFresh ==
    calm >= 1 => /\ pc \in 2..7 => dump = Fresh
                 /\ pc \in 3..7 => mysql = Fresh

FilesUsedUp ==
    /\ calm >= 1 => (pc \in {6, 7, 0} => gz = None)
    /\ calm >= 2 => /\ pc \in 1..4 => gz = None
                    /\ pc \in {5, 6, 7, 0} => jsonl = None

FreshOnItsWay ==
    Clear => /\ pc \in 1..3 => jsonl = None /\ gz = None
             /\ pc = 4 => jsonl = Fresh /\ gz = None
             /\ pc = 5 => gz = Fresh
             /\ pc = 6 => cloud = Fresh
             /\ pc \in {7, 0} => geotags = Fresh

CatchInv == SourceFresh /\ FilesUsedUp /\ FreshOnItsWay

LEMMA FreshIsSome == Fresh # None
BY DEF Fresh, None

LEMMA CatchInit == Init => CatchInv
BY DEF Init, CatchInv, SourceFresh, FilesUsedUp, FreshOnItsWay, Clear

(* A new run knows of the files it finds: with three calm runs, of none. *)
LEMMA CatchStart == TypeOK /\ CatchInv /\ start => CatchInv'
<1> SUFFICES ASSUME TypeOK, CatchInv, start PROVE CatchInv'
    OBVIOUS
<1>1. /\ pc = 0 /\ pc' = 1 /\ calm' = calm + 1 /\ calm \in Nat
      /\ leftover' = (jsonl # None \/ gz # None)
      /\ jsonl' = jsonl /\ gz' = gz
    BY MaxRunsAssumption DEF start, TypeOK
<1>2. calm' >= 2 => gz' = None
    BY <1>1 DEF CatchInv, FilesUsedUp
<1>3. Clear' => jsonl' = None /\ gz' = None
    <2>1. calm' >= 3 => jsonl' = None /\ gz' = None
        BY <1>1 DEF CatchInv, FilesUsedUp
    <2>2. ~leftover' => jsonl' = None /\ gz' = None
        BY <1>1
    <2>3. QED
        BY <2>1, <2>2 DEF Clear
<1>4. SourceFresh'
    BY <1>1 DEF SourceFresh
<1>5. FilesUsedUp'
    BY <1>1, <1>2 DEF FilesUsedUp
<1>6. FreshOnItsWay'
    BY <1>1, <1>3 DEF FreshOnItsWay
<1>7. QED
    BY <1>4, <1>5, <1>6 DEF CatchInv

LEMMA CatchFault == fault \/ break_off => CatchInv'
BY DEF fault, break_off, CatchInv, SourceFresh, FilesUsedUp, FreshOnItsWay, Clear

LEMMA CatchCommand ==
    TypeOK /\ CatchInv
        /\ (download \/ import \/ export \/ gzip \/ move_to_cloud \/ load \/ cleanup)
    => CatchInv'
<1> SUFFICES ASSUME TypeOK, CatchInv PROVE
        (download \/ import \/ export \/ gzip \/ move_to_cloud \/ load \/ cleanup) => CatchInv'
    OBVIOUS
<1>0. calm \in Nat
    BY MaxRunsAssumption DEF TypeOK
<1> USE DEF CatchInv, SourceFresh, FilesUsedUp, FreshOnItsWay, Clear, Goes
<1>1. CASE download
    <2>1. dump' = Fresh /\ Fresh' = Fresh /\ pc = 1 /\ pc' = 2
        BY <1>1 DEF download, Fresh
    <2>2. QED
        BY <1>0, <1>1, <2>1 DEF download
<1>2. CASE import
    <2>1. Fresh' = Fresh /\ pc = 2 /\ pc' = 3
        BY <1>2 DEF import, Fresh
    <2>2. QED
        BY <1>0, <1>2, <2>1, FreshIsSome DEF import
<1>3. CASE export
    <2>1. Fresh' = Fresh /\ pc = 3 /\ pc' = 4
        BY <1>3 DEF export, Fresh
    <2>2. QED
        BY <1>0, <1>3, <2>1 DEF export
<1>4. CASE gzip
    <2>1. Fresh' = Fresh /\ pc = 4 /\ pc' = 5
        BY <1>4 DEF gzip, Fresh
    <2>2. QED
        BY <1>0, <1>4, <2>1 DEF gzip
<1>5. CASE move_to_cloud
    <2>1. Fresh' = Fresh /\ pc = 5 /\ pc' = 6
        BY <1>5 DEF move_to_cloud, Fresh
    <2>2. QED
        BY <1>0, <1>5, <2>1, FreshIsSome DEF move_to_cloud
<1>6. CASE load
    <2>1. Fresh' = Fresh /\ pc = 6 /\ pc' = 7
        BY <1>6 DEF load, Fresh
    <2>2. QED
        BY <1>0, <1>6, <2>1, FreshIsSome DEF load
<1>7. CASE cleanup
    <2>1. Fresh' = Fresh /\ pc = 7 /\ pc' = 0
        BY <1>7 DEF cleanup, Fresh
    <2>2. QED
        BY <1>0, <1>7, <2>1 DEF cleanup
<1>8. QED
    BY <1>1, <1>2, <1>3, <1>4, <1>5, <1>6, <1>7

(* However files were left behind: after a run without a fault that found  *)
(* none, or after three in a row, the table holds what the run downloaded. *)
THEOREM AlwaysCatchesUp == Spec => []CatchesUp
<1>1. CatchInv /\ UNCHANGED vars => CatchInv'
    BY DEF CatchInv, SourceFresh, FilesUsedUp, FreshOnItsWay, Clear, Fresh, vars
<1>2. TypeOK /\ CatchInv /\ [Next]_vars => CatchInv'
    BY <1>1, CatchStart, CatchFault, CatchCommand DEF Next
<1>3. TypeOK /\ CatchInv => CatchesUp
    BY MaxRunsAssumption DEF TypeOK, CatchInv, FreshOnItsWay, Clear, Fresh, CatchesUp
<1>4. QED
    BY <1>2, <1>3, CatchInit, ExportTyped, PTL DEF Spec
==============================================================================
